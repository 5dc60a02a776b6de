---------------------------- MODULE HarnessProofs ----------------------------
(***************************************************************************)
(* Hosts take no step that the journal does not allow, so what is proved   *)
(* of the journal holds under them; sessions, whatever crashes and takes   *)
(* over, execute a journaled tool call once at most; and no host asks the  *)
(* provider twice for one model call.                                      *)
(***************************************************************************)
EXTENDS HarnessRun, LedgerProofs

-----------------------------------------------------------------------------
(* What hosts hold.                                                        *)

Saves == UNION {[S -> Responses \cup {NoResponse}] : S \in SUBSET Calls}

Job ==
  [request: Requests \cup {NoRequest}, generation: Nat, round: Nat, saved: Saves,
   response: Responses \cup {NoResponse}, lease: Lease \cup {NoLease},
   result: Results \cup {NoResult}]

InRound == {"dispatch", "answer", "tool", "certify", "execute", "finish"}
Places == {"idle", "recover", "read", "ask", "commit"} \cup InRound

\* What a host needs for its next call is there.
Fits(place, holding) ==
  /\ place \in Places
  /\ holding \in Job
  /\ place # "idle" => holding.request \in Requests /\ holding.generation \in Generations
  /\ place \in InRound => holding.round \in DOMAIN Rounds
  /\ place = "answer" => holding.response \in Responses
  /\ place = "finish" => holding.result \in Results

HostsTypeOK ==
  /\ DOMAIN at = Hosts /\ at = [h \in Hosts |-> at[h]]
  /\ DOMAIN job = Hosts /\ job = [h \in Hosts |-> job[h]]
  /\ \A h \in Hosts : Fits(at[h], job[h])
  /\ effects \in [Requests \X Calls -> Nat]
  /\ dispatches \in [Requests \X Calls -> Nat]

\* The call of a host that is in a round is one of the calls of its request.
LEMMA IntentIsTyped ==
  ASSUME HostsTypeOK, NEW h \in Hosts, at[h] # "idle", job[h].round \in DOMAIN Rounds
  PROVE  /\ job[h].request \in Requests /\ job[h].generation \in Generations
         /\ Call(h) \in Calls /\ Intent(h) \in Requests \X Calls
<1>1. \A k \in DOMAIN Rounds : Rounds[k] \in Calls
  BY HostAssumption
<1>2. job[h].request \in Requests /\ job[h].generation \in Generations
  BY DEF HostsTypeOK, Fits
<1> QED  BY <1>1, <1>2 DEF Call, Intent

-----------------------------------------------------------------------------
(* Every step of the hosts is a step of the journal or leaves it alone.    *)

LEMMA WorkIsJournaled ==
  ASSUME TypeOK, HostsTypeOK, NEW h \in Hosts, Work(h)
  PROVE  [Next]_vars
<1> DEFINE r == job[h].request
           g == job[h].generation
           c == Call(h)
<1>1. CASE RecoverTurn(h)
  <2>1. r \in Requests /\ g \in Generations /\ Recover(r, g)
    BY <1>1 DEF RecoverTurn, HostsTypeOK, Fits
  <2> QED  BY <2>1 DEF Next
<1>2. CASE ReadModelCalls(h) \/ Dispatch(h) \/ Execute(h)
  BY <1>2 DEF ReadModelCalls, Dispatch, Execute
<1>3. CASE Checkpoint(h)
  <2>1. r \in Requests /\ g \in Generations /\ c \in Calls
    BY <1>3, IntentIsTyped DEF Checkpoint
  <2>2. (\E p \in Payloads : RecordModelRequest(r, g, c, p)) \/ UNCHANGED vars
    BY <1>3 DEF Checkpoint
  <2> QED  BY <2>1, <2>2 DEF Next
<1>4. CASE RecordAnswer(h)
  <2>1. /\ r \in Requests /\ g \in Generations /\ c \in Calls
        /\ job[h].response \in Responses
    BY <1>4, IntentIsTyped DEF RecordAnswer, HostsTypeOK, Fits, InRound
  <2>2. RecordModelResponse(r, g, c, job[h].response) \/ UNCHANGED vars
    BY <1>4 DEF RecordAnswer
  <2> QED  BY <2>1, <2>2 DEF Next
<1>5. CASE JournalIntent(h)
  <2>1. r \in Requests /\ g \in Generations /\ c \in Calls
    BY <1>5, IntentIsTyped DEF JournalIntent, HostsTypeOK, Fits, InRound
  <2>2. (\E a \in Args : StartTool(r, g, c, a)) \/ UNCHANGED vars
    BY <1>5 DEF JournalIntent
  <2> QED  BY <2>1, <2>2 DEF Next
<1>6. CASE Certify(h)
  <2>1. r \in Requests /\ g \in Generations /\ c \in Calls
    BY <1>6, IntentIsTyped DEF Certify, HostsTypeOK, Fits, InRound
  <2>2. \E ttl \in Ttls : ActionEligible(r, g, c, ttl)
    BY <1>6 DEF Certify
  <2> QED  BY <2>1, <2>2 DEF Next
<1>7. CASE Finish(h)
  <2>1. /\ r \in Requests /\ g \in Generations /\ c \in Calls
        /\ job[h].result \in Results
    BY <1>7, IntentIsTyped DEF Finish, HostsTypeOK, Fits, InRound
  <2>2. FinishToolUnderLease(r, g, c, job[h].result, job[h].lease) \/ UNCHANGED vars
    BY <1>7 DEF Finish
  <2>3. FinishToolUnderLease(r, g, c, job[h].result, job[h].lease) => job[h].lease \in lease
    BY DEF FinishToolUnderLease, ValidLease
  <2> QED  BY <2>1, <2>2, <2>3 DEF Next
<1>8. CASE CommitTurn(h)
  <2>1. r \in Requests /\ g \in Generations /\ \E y \in Replies : Commit(r, g, y)
    BY <1>8 DEF CommitTurn, HostsTypeOK, Fits
  <2> QED  BY <2>1 DEF Next
<1> QED
  BY <1>1, <1>2, <1>3, <1>4, <1>5, <1>6, <1>7, <1>8 DEF Work

LEMMA HostsStepIsJournaled ==
  ASSUME TypeOK, HostsTypeOK, [HostsNext]_allVars
  PROVE  [Next]_vars
<1>1. ASSUME NEW h \in Hosts, NEW r \in Requests, NEW i \in Inputs, Submit(h, r, i)
      PROVE  [Next]_vars
  BY <1>1 DEF Submit, Next
<1>2. ASSUME NEW h \in Hosts, Work(h)
      PROVE  [Next]_vars
  BY <1>2, WorkIsJournaled
<1>3. ASSUME NEW h \in Hosts, Raise(h) \/ Crash(h)
      PROVE  [Next]_vars
  BY <1>3 DEF Raise, Crash
<1>4. ASSUME NEW r \in Requests, Reconcile(r) \/ AbandonStale(r)
      PROVE  [Next]_vars
  <2>1. r \in Begun => turn[r].generation \in Generations
    BY DEF TypeOK, JournalTypeOK, IsTurn, TurnRow
  <2> QED  BY <1>4, <2>1 DEF Reconcile, AbandonStale, Next
<1>5. CASE Environment
  BY <1>5 DEF Environment, Next
<1>6. CASE UNCHANGED allVars
  BY <1>6 DEF allVars
<1> QED
  BY <1>1, <1>2, <1>3, <1>4, <1>5, <1>6 DEF HostsNext

-----------------------------------------------------------------------------
(* Hosts hold what they need.                                              *)

\* Replacing one thing that a host holds.
LEMMA JobFields ==
  ASSUME NEW j \in Job
  PROVE  /\ \A x \in Requests : [j EXCEPT !.request = x] \in Job
         /\ \A x \in Generations : [j EXCEPT !.generation = x] \in Job
         /\ \A x \in Nat : [j EXCEPT !.round = x] \in Job
         /\ \A x \in Saves : [j EXCEPT !.saved = x] \in Job
         /\ \A x \in Responses \cup {NoResponse} : [j EXCEPT !.response = x] \in Job
         /\ \A x \in Lease \cup {NoLease} : [j EXCEPT !.lease = x] \in Job
         /\ \A x \in Results \cup {NoResult} : [j EXCEPT !.result = x] \in Job
<1>1. Generations \subseteq Nat
  BY DEF Generations
<1> QED  BY <1>1 DEF Job

LEMMA NoJobIsTyped == Fits("idle", NoJob)
<1>1. << >> \in Saves
  <2>1. << >> \in [{} -> Responses \cup {NoResponse}]
    OBVIOUS
  <2> QED  BY <2>1 DEF Saves
<1> QED  BY <1>1 DEF NoJob, Job, Fits, Places, InRound

LEMMA StartsTyped ==
  ASSUME NEW r \in Requests, NEW g \in Generations
  PROVE  /\ StartsAt(r, g) \in Job
         /\ StartsAt(r, g).request = r /\ StartsAt(r, g).generation = g
<1> DEFINE asked == [NoJob EXCEPT !.request = r]
           owned == [asked EXCEPT !.generation = g]
<1>1. asked \in Job
  BY NoJobIsTyped, JobFields DEF Fits
<1>2. owned \in Job
  <2> HIDE DEF asked
  <2> QED  BY <1>1, JobFields
<1>3. [owned EXCEPT !.round = 1] \in Job
  <2> HIDE DEF owned
  <2> QED  BY <1>2, JobFields
<1>4. StartsAt(r, g) = [owned EXCEPT !.round = 1]
  BY DEF StartsAt
<1> QED  BY <1>3, <1>4 DEF StartsAt, NoJob

\* A host goes where what it holds fits.
LEMMA GoesTyped ==
  ASSUME HostsTypeOK, NEW h \in Hosts, NEW place, NEW holding,
         Goes(h, place, holding), Fits(place, holding),
         effects' \in [Requests \X Calls -> Nat], dispatches' \in [Requests \X Calls -> Nat]
  PROVE  HostsTypeOK'
<1>1. /\ DOMAIN at' = Hosts /\ at' = [k \in Hosts |-> at'[k]]
      /\ DOMAIN job' = Hosts /\ job' = [k \in Hosts |-> job'[k]]
  BY DEF HostsTypeOK, Goes
<1>2. ASSUME NEW k \in Hosts
      PROVE  Fits(at'[k], job'[k])
  <2>1. CASE k = h
    <3>1. at'[k] = place /\ job'[k] = holding
      BY <2>1 DEF HostsTypeOK, Goes
    <3> QED  BY <3>1
  <2>2. CASE k # h
    <3>1. at'[k] = at[k] /\ job'[k] = job[k]
      BY <2>2 DEF HostsTypeOK, Goes
    <3> QED  BY <3>1 DEF HostsTypeOK
  <2> QED  BY <2>1, <2>2
<1> QED  BY <1>1, <1>2 DEF HostsTypeOK

LEMMA SavedIsTyped ==
  ASSUME TypeOK, NEW r
  PROVE  Saved(r) \in Saves
<1> DEFINE S == {d \in Calls : <<r, d>> \in DOMAIN modelCall}
<1>1. \A x \in DOMAIN modelResponse : modelResponse[x] \in Responses
  BY DEF TypeOK, JournalTypeOK
<1>2. Saved(r) \in [S -> Responses \cup {NoResponse}]
  BY <1>1 DEF Saved
<1> QED  BY <1>2 DEF Saves

LEMMA SubmitIsTyped ==
  ASSUME TypeOK, HostsTypeOK, NEW h \in Hosts, NEW r \in Requests, NEW i \in Inputs,
         Submit(h, r, i)
  PROVE  HostsTypeOK'
<1>1. /\ effects' \in [Requests \X Calls -> Nat]
      /\ dispatches' \in [Requests \X Calls -> Nat]
  BY DEF Submit, HostsTypeOK
<1>2. CASE Goes(h, "read", StartsAt(r, 1))
  <2>1. 1 \in Generations
    BY JournalAssumption DEF Generations
  <2>2. Fits("read", StartsAt(r, 1))
    BY <2>1, StartsTyped DEF Fits, Places, InRound
  <2> QED  BY <1>1, <1>2, <2>2, GoesTyped
<1>3. CASE r \in Begun /\ Goes(h, "recover", StartsAt(r, turn[r].generation))
  <2>1. turn[r].generation \in Generations
    BY <1>3 DEF TypeOK, JournalTypeOK, IsTurn, TurnRow
  <2>2. Fits("recover", StartsAt(r, turn[r].generation))
    BY <2>1, StartsTyped DEF Fits, Places, InRound
  <2> QED  BY <1>1, <1>3, <2>2, GoesTyped
<1> QED  BY <1>2, <1>3 DEF Submit

\* What a host holds in a round, or after it, fits its next place.
LEMMA WorkIsTyped ==
  ASSUME TypeOK, HostsTypeOK, NEW h \in Hosts, Work(h)
  PROVE  HostsTypeOK'
<1> DEFINE r == job[h].request
           g == job[h].generation
           Counts(f) == f \in [Requests \X Calls -> Nat]
<1>1. /\ job[h] \in Job /\ at[h] \in Places /\ at[h] # "idle"
      /\ r \in Requests /\ g \in Generations /\ job[h].round \in Nat
      /\ at[h] \in InRound => job[h].round \in DOMAIN Rounds
      /\ at[h] = "answer" => job[h].response \in Responses
      /\ at[h] = "finish" => job[h].result \in Results
  <2>1. at[h] # "idle"
    BY DEF Work, RecoverTurn, ReadModelCalls, Checkpoint, Dispatch, RecordAnswer,
           JournalIntent, Certify, Execute, Finish, CommitTurn
  <2> QED  BY <2>1 DEF HostsTypeOK, Fits, Job
<1>2. Counts(effects) /\ Counts(dispatches)
  BY DEF HostsTypeOK
<1> HIDE DEF Counts
<1>3. CASE RecoverTurn(h)
  <2>1. g + 1 \in Generations
    BY <1>1, <1>3, JournalAssumption DEF RecoverTurn, Recover, Generations
  <2>2. Fits("read", StartsAt(r, g + 1))
    BY <1>1, <2>1, StartsTyped DEF Fits, Places, InRound
  <2>3. Counts(effects') /\ Counts(dispatches') /\ Goes(h, "read", StartsAt(r, g + 1))
    BY <1>2, <1>3 DEF RecoverTurn
  <2> QED  BY <2>2, <2>3, GoesTyped DEF Counts
<1>4. CASE ReadModelCalls(h)
  <2> DEFINE holding == [job[h] EXCEPT !.saved = Saved(r)]
  <2>1. holding \in Job /\ holding.request = r /\ holding.generation = g
    BY <1>1, JobFields, SavedIsTyped DEF Job
  <2>2. Counts(effects') /\ Counts(dispatches') /\ Goes(h, "ask", holding)
    BY <1>2, <1>4 DEF ReadModelCalls
  <2> HIDE DEF holding
  <2>3. Fits("ask", holding)
    BY <1>1, <2>1 DEF Fits, Places, InRound
  <2> QED  BY <2>2, <2>3, GoesTyped DEF Counts
<1>5. CASE Checkpoint(h)
  <2>1. \E place \in {"dispatch", "commit", "tool"} : Goes(h, place, job[h])
    BY <1>5, Zenon DEF Checkpoint, AfterResponse
  <2>2. \A place \in {"dispatch", "commit", "tool"} : Fits(place, job[h])
    BY <1>1, <1>5 DEF Checkpoint, Fits, Places, InRound
  <2>3. Counts(effects') /\ Counts(dispatches')
    BY <1>2, <1>5 DEF Checkpoint
  <2> QED  BY <2>1, <2>2, <2>3, GoesTyped DEF Counts
<1>6. CASE Dispatch(h)
  <2>1. PICK y \in Responses : Goes(h, "answer", [job[h] EXCEPT !.response = y])
    BY <1>6 DEF Dispatch
  <2> DEFINE holding == [job[h] EXCEPT !.response = y]
  <2>2. /\ holding \in Job /\ holding.request = r /\ holding.generation = g
        /\ holding.round = job[h].round /\ holding.response = y
    BY <1>1, JobFields DEF Job
  <2>3. Intent(h) \in Requests \X Calls
    BY <1>1, <1>6, IntentIsTyped DEF Dispatch, InRound
  <2>4. Counts(effects') /\ Counts(dispatches')
    BY <1>2, <1>6, <2>3 DEF Dispatch, Counts
  <2>5. Goes(h, "answer", holding)
    BY <2>1
  <2> HIDE DEF holding
  <2>6. Fits("answer", holding)
    BY <1>1, <1>6, <2>2 DEF Dispatch, Fits, Places, InRound
  <2> QED  BY <2>4, <2>5, <2>6, GoesTyped DEF Counts
<1>7. CASE RecordAnswer(h)
  <2> DEFINE holding == [job[h] EXCEPT !.response = NoResponse]
  <2>1. /\ holding \in Job /\ holding.request = r /\ holding.generation = g
        /\ holding.round = job[h].round
    BY <1>1, JobFields DEF Job
  <2>2. /\ \E place \in {"commit", "tool"} : Goes(h, place, holding)
        /\ Counts(effects') /\ Counts(dispatches')
    BY <1>2, <1>7 DEF RecordAnswer, AfterResponse
  <2> HIDE DEF holding
  <2>3. \A place \in {"commit", "tool"} : Fits(place, holding)
    BY <1>1, <1>7, <2>1 DEF RecordAnswer, Fits, Places, InRound
  <2> QED  BY <2>2, <2>3, GoesTyped DEF Counts
<1>8. /\ NextRound(h) \in Job /\ NextRound(h).request = r /\ NextRound(h).generation = g
      /\ Fits("ask", NextRound(h))
  <2> DEFINE counted == [job[h] EXCEPT !.round = @ + 1]
             released == [counted EXCEPT !.lease = NoLease]
  <2>1. counted \in Job /\ counted.request = r /\ counted.generation = g
    BY <1>1, JobFields DEF Job
  <2>2. released \in Job /\ released.request = r /\ released.generation = g
    <3> HIDE DEF counted
    <3> QED  BY <2>1, JobFields DEF Job
  <2>3. /\ [released EXCEPT !.result = NoResult] \in Job
        /\ [released EXCEPT !.result = NoResult].request = r
        /\ [released EXCEPT !.result = NoResult].generation = g
    <3> HIDE DEF released
    <3> QED  BY <2>2, JobFields DEF Job
  <2>4. NextRound(h) = [released EXCEPT !.result = NoResult]
    BY DEF NextRound
  <2> HIDE DEF counted, released
  <2> QED  BY <1>1, <2>3, <2>4 DEF Fits, Places, InRound
<1>9. CASE JournalIntent(h)
  <2>1. \/ Goes(h, "certify", job[h])
        \/ Goes(h, "ask", NextRound(h))
    BY <1>9 DEF JournalIntent
  <2>2. Counts(effects') /\ Counts(dispatches')
    BY <1>2, <1>9 DEF JournalIntent
  <2>3. Fits("certify", job[h])
    BY <1>1, <1>9 DEF JournalIntent, Fits, Places, InRound
  <2> QED  BY <1>8, <2>1, <2>2, <2>3, GoesTyped DEF Counts
<1>10. CASE Certify(h)
  <2>1. Call(h) \in Calls
    BY <1>1, <1>10, IntentIsTyped DEF Certify, InRound
  <2>2. PICK ttl \in Ttls :
          /\ ActionEligible(r, g, Call(h), ttl)
          /\ Goes(h, "execute", [job[h] EXCEPT !.lease = NewLease(r, g, Call(h), ttl)])
    BY <1>10 DEF Certify
  <2> DEFINE leased == NewLease(r, g, Call(h), ttl)
             holding == [job[h] EXCEPT !.lease = leased]
  <2>3. leased \in Lease
    <3>1. tool[<<r, Call(h)>>].args \in Args
      BY <2>2 DEF ActionEligible, TypeOK, JournalTypeOK, ToolRow
    <3>2. now + ttl \in Nat
      BY JournalAssumption DEF TypeOK, JournalTypeOK, Times
    <3> QED  BY <1>1, <2>1, <3>1, <3>2 DEF NewLease, Lease
  <2>4. /\ holding \in Job /\ holding.request = r /\ holding.generation = g
        /\ holding.round = job[h].round
    <3> HIDE DEF leased
    <3> QED  BY <1>1, <2>3, JobFields DEF Job
  <2>5. Goes(h, "execute", holding)
    BY <2>2
  <2>6. Counts(effects') /\ Counts(dispatches')
    BY <1>2, <1>10 DEF Certify
  <2> HIDE DEF holding
  <2>7. Fits("execute", holding)
    BY <1>1, <1>10, <2>4 DEF Certify, Fits, Places, InRound
  <2> QED  BY <2>5, <2>6, <2>7, GoesTyped DEF Counts
<1>11. CASE Execute(h)
  <2>1. PICK x \in Results : Goes(h, "finish", [job[h] EXCEPT !.result = x])
    BY <1>11 DEF Execute
  <2> DEFINE holding == [job[h] EXCEPT !.result = x]
  <2>2. /\ holding \in Job /\ holding.request = r /\ holding.generation = g
        /\ holding.round = job[h].round /\ holding.result = x
    BY <1>1, JobFields DEF Job
  <2>3. Intent(h) \in Requests \X Calls
    BY <1>1, <1>11, IntentIsTyped DEF Execute, InRound
  <2>4. Counts(effects') /\ Counts(dispatches')
    BY <1>2, <1>11, <2>3 DEF Execute, Counts
  <2>5. Goes(h, "finish", holding)
    BY <2>1
  <2> HIDE DEF holding
  <2>6. Fits("finish", holding)
    BY <1>1, <1>11, <2>2 DEF Execute, Fits, Places, InRound
  <2> QED  BY <2>4, <2>5, <2>6, GoesTyped DEF Counts
<1>12. CASE Finish(h)
  <2>1. Counts(effects') /\ Counts(dispatches') /\ Goes(h, "ask", NextRound(h))
    BY <1>2, <1>12 DEF Finish
  <2> QED  BY <1>8, <2>1, GoesTyped DEF Counts
<1>13. CASE CommitTurn(h)
  <2>1. Counts(effects') /\ Counts(dispatches') /\ Goes(h, "idle", NoJob)
    BY <1>2, <1>13 DEF CommitTurn, Stops
  <2> QED  BY <2>1, NoJobIsTyped, GoesTyped DEF Counts
<1> QED
  BY <1>3, <1>4, <1>5, <1>6, <1>7, <1>9, <1>10, <1>11, <1>12, <1>13 DEF Work

LEMMA HostsStepIsTyped ==
  ASSUME TypeOK, HostsTypeOK, [HostsNext]_allVars
  PROVE  HostsTypeOK'
<1>1. ASSUME NEW h \in Hosts, NEW r \in Requests, NEW i \in Inputs, Submit(h, r, i)
      PROVE  HostsTypeOK'
  BY <1>1, SubmitIsTyped
<1>2. ASSUME NEW h \in Hosts, Work(h)
      PROVE  HostsTypeOK'
  BY <1>2, WorkIsTyped
<1>3. ASSUME NEW h \in Hosts, Raise(h) \/ Crash(h)
      PROVE  HostsTypeOK'
  <2>1. /\ Goes(h, "idle", NoJob)
        /\ effects' \in [Requests \X Calls -> Nat]
        /\ dispatches' \in [Requests \X Calls -> Nat]
    BY <1>3 DEF Raise, Crash, Stops, HostsTypeOK
  <2> QED  BY <2>1, NoJobIsTyped, GoesTyped
<1>4. ASSUME UNCHANGED hostVars
      PROVE  HostsTypeOK'
  BY <1>4 DEF hostVars, HostsTypeOK
<1> QED
  BY <1>1, <1>2, <1>3, <1>4 DEF HostsNext, Reconcile, AbandonStale, Environment, allVars

-----------------------------------------------------------------------------
(* The journal under hosts.                                                *)

HostsTyped == TypeOK /\ HostsTypeOK

LEMMA HostsAreTyped == HostsSpec => []HostsTyped
<1>1. HostsInit => HostsTyped
  <2> SUFFICES ASSUME HostsInit PROVE HostsTyped
    OBVIOUS
  <2>1. TypeOK
    BY InitIsTyped DEF HostsInit
  <2>2. HostsTypeOK
    BY NoJobIsTyped DEF HostsInit, HostsTypeOK
  <2> QED  BY <2>1, <2>2 DEF HostsTyped
<1>2. HostsTyped /\ [HostsNext]_allVars => HostsTyped'
  BY HostsStepIsJournaled, HostsStepIsTyped, NextIsTyped DEF HostsTyped
<1> QED  BY <1>1, <1>2, PTL DEF HostsSpec

\* Whatever the hosts do, crash and take over, they use the journal as its
\* specification allows: every theorem about the journal holds under them.
THEOREM HostsUseTheJournal == HostsSpec => Spec
<1>1. HostsInit => Init
  BY DEF HostsInit
<1>2. HostsTyped /\ [HostsNext]_allVars => [Next]_vars
  BY HostsStepIsJournaled DEF HostsTyped
<1> QED  BY <1>1, <1>2, HostsAreTyped, PTL DEF HostsSpec, Spec

-----------------------------------------------------------------------------
(* One effect per intent.                                                  *)

\* Host h may still execute the tool of the call it is at.
Holding(h) == at[h] \in {"certify", "execute"}

\* An intent was journaled for x, and is there unless its turn was retired.
Journaled(x) == x \in DOMAIN tool \/ x[1] \in Retired

\* The one host that journaled an intent, and nobody else, may execute it, once.
EffectsOnce ==
  /\ \A x \in Requests \X Calls :
       /\ effects[x] \in {0, 1}
       /\ effects[x] = 1 => Journaled(x)
  /\ \A h \in Hosts : Holding(h) => effects[Intent(h)] = 0 /\ Journaled(Intent(h))
  /\ \A h, k \in Hosts : Holding(h) /\ Holding(k) /\ Intent(h) = Intent(k) => h = k

\* No step takes an intent out of the journal but by retiring its request.
LEMMA JournaledStays ==
  ASSUME TypeOK, TombstonesFinal, [Next]_vars, NEW x \in Requests \X Calls, Journaled(x)
  PROVE  Journaled(x)'
<1>1. CASE \A o \in Operators : ~ApplyRetention(o)
  <2>1. tombstone' = tombstone
    BY <1>1, TombstoneStep
  <2>2. CASE StoreWrite \/ Tick \/ UNCHANGED vars
             \/ \E o \in Operators, n \in Times : RetentionPlan(o, n)
    BY <2>2 DEF StoreWrite, Tick, vars, journalVars, RetentionPlan, Journaled, Retired
  <2>3. ASSUME NEW r \in Requests,
               \/ \E i \in Inputs : Begin(r, i)
               \/ \E g \in Generations :
                    \/ Recover(r, g) \/ Abort(r, g) \/ \E y \in Replies : Commit(r, g, y)
                    \/ \E c \in Calls :
                         \/ \E a \in Args : StartTool(r, g, c, a)
                         \/ \E l \in Ttls : ActionEligible(r, g, c, l)
                         \/ \E y \in Results : RecordResult(r, g, c, y)
                         \/ \E p \in Payloads : RecordModelRequest(r, g, c, p)
                         \/ \E y \in Responses : RecordModelResponse(r, g, c, y)
        PROVE  DOMAIN tool \subseteq DOMAIN tool'
    BY <2>3, ZenonT(60) DEF Begin, Recover, Abort, Commit, StartTool, ActionEligible, RecordResult,
                RecordModelRequest, RecordModelResponse, Put
  <2>4. DOMAIN tool \subseteq DOMAIN tool' \/ Journaled(x)'
    BY <1>1, <2>2, <2>3, Zenon DEF Next, FinishTool, FinishToolUnderLease
  <2> QED  BY <2>1, <2>4 DEF Journaled, Retired
<1>2. ASSUME NEW o \in Operators, ApplyRetention(o)
      PROVE  Journaled(x)'
  <2> DEFINE ids == Eligible(plan[o].cutoff)
             grave(r) == [request |-> r, input |-> turn[r].input, status |-> turn[r].status]
  <2>1. /\ tombstone' = tombstone \cup {grave(r) : r \in ids}
        /\ tool' = [y \in {z \in DOMAIN tool : z[1] \notin ids} |-> tool[y]]
    BY <1>2, RetirementStep DEF ApplyRetention, Without
  <2>2. \A r : grave(r).request = r
    OBVIOUS
  <2> HIDE DEF ids, grave
  <2> QED  BY <2>1, <2>2 DEF Journaled, Retired
<1> QED  BY <1>1, <1>2

\* A step in which nobody executes a tool, and nobody comes to hold an intent.
LEMMA NobodyExecutes ==
  ASSUME TypeOK, TombstonesFinal, HostsTypeOK, EffectsOnce, [Next]_vars, effects' = effects,
         \A k \in Hosts : Holding(k)' => Holding(k) /\ Intent(k)' = Intent(k)
  PROVE  EffectsOnce'
<1>1. \A x \in Requests \X Calls : Journaled(x) => Journaled(x)'
  BY JournaledStays
<1>2. \A k \in Hosts : Holding(k) => Intent(k) \in Requests \X Calls
  BY IntentIsTyped DEF Holding, HostsTypeOK, Fits, InRound
<1>3. \A k \in Hosts : Holding(k)' => effects'[Intent(k)'] = 0 /\ Journaled(Intent(k))'
  <2> SUFFICES ASSUME NEW k \in Hosts, Holding(k)'
               PROVE  effects'[Intent(k)'] = 0 /\ Journaled(Intent(k))'
    OBVIOUS
  <2>1. /\ Holding(k) /\ Intent(k)' = Intent(k) /\ Intent(k) \in Requests \X Calls
        /\ effects[Intent(k)] = 0 /\ Journaled(Intent(k))
    BY <1>2 DEF EffectsOnce
  <2>2. \A x : x = Intent(k) /\ Journaled(x)' => Journaled(Intent(k))'
    BY <2>1 DEF Journaled
  <2> QED  BY <1>1, <2>1, <2>2
<1>4. \A x \in Requests \X Calls : effects'[x] \in {0, 1} /\ (effects'[x] = 1 => Journaled(x)')
  BY <1>1 DEF EffectsOnce
<1>5. \A h, k \in Hosts : Holding(h)' /\ Holding(k)' /\ Intent(h)' = Intent(k)' => h = k
  BY DEF EffectsOnce
<1> QED  BY <1>3, <1>4, <1>5 DEF EffectsOnce

\* A host that goes elsewhere leaves what the others hold alone.
LEMMA OthersStay ==
  ASSUME HostsTypeOK, NEW h \in Hosts, NEW place, NEW holding, Goes(h, place, holding)
  PROVE  /\ at'[h] = place /\ job'[h] = holding
         /\ \A k \in Hosts : k # h =>
              /\ at'[k] = at[k] /\ job'[k] = job[k]
              /\ Holding(k)' = Holding(k) /\ Intent(k)' = Intent(k)
BY DEF HostsTypeOK, Goes, Holding, Intent, Call

LEMMA HostsLeave ==
  ASSUME TypeOK, TombstonesFinal, HostsTypeOK, EffectsOnce, [Next]_vars, effects' = effects,
         NEW h \in Hosts, NEW place, NEW holding, Goes(h, place, holding),
         place \notin {"certify", "execute"}
  PROVE  EffectsOnce'
<1>1. \A k \in Hosts : Holding(k)' => Holding(k) /\ Intent(k)' = Intent(k)
  BY OthersStay DEF Holding
<1> QED  BY <1>1, NobodyExecutes

LEMMA JournalIntentIsOnce ==
  ASSUME TypeOK, TombstonesFinal, HostsTypeOK, EffectsOnce, HttpHosts = {},
         NEW h \in Hosts, JournalIntent(h)
  PROVE  EffectsOnce'
<1> DEFINE x == Intent(h)
<1>1. x \in Requests \X Calls /\ effects' = effects
  BY IntentIsTyped DEF JournalIntent, HostsTypeOK, Fits, InRound
<1>2. [Next]_vars
  BY WorkIsJournaled DEF Work
<1>3. CASE Goes(h, "ask", NextRound(h))
  BY <1>1, <1>2, <1>3, HostsLeave
<1>4. ASSUME NEW a \in Args, StartTool(job[h].request, job[h].generation, Call(h), a),
             Goes(h, "certify", job[h])
      PROVE  EffectsOnce'
  <2>1. x \notin DOMAIN tool /\ x[1] = job[h].request /\ x[1] \in Begun /\ x \in DOMAIN tool'
    BY <1>4 DEF StartTool, Pending, Put, Intent
  <2>2. ~Journaled(x)
    BY <2>1 DEF Journaled, TombstonesFinal, Retired
  <2>3. effects[x] = 0 /\ \A k \in Hosts : Holding(k) => Intent(k) # x
    BY <1>1, <2>2 DEF EffectsOnce
  <2>4. /\ Intent(h)' = x
        /\ \A k \in Hosts : k # h => Holding(k)' = Holding(k) /\ Intent(k)' = Intent(k)
    <3>1. job'[h] = job[h]
      BY <1>4, OthersStay
    <3> QED  BY <1>4, <3>1, OthersStay DEF Intent, Call
  <2>5. \A y \in Requests \X Calls : Journaled(y) => Journaled(y)'
    BY <1>2, JournaledStays
  <2>6. Journaled(x)'
    <3>1. Intent(h)' \in DOMAIN tool'
      BY <2>1, <2>4
    <3> QED  BY <3>1 DEF Journaled
  <2>7. \A y \in Requests \X Calls : effects'[y] \in {0, 1} /\ (effects'[y] = 1 => Journaled(y)')
    BY <1>1, <2>5 DEF EffectsOnce
  <2>8. \A k \in Hosts : Holding(k)' => effects'[Intent(k)'] = 0 /\ Journaled(Intent(k))'
    <3>1. ASSUME NEW k \in Hosts, k # h, Holding(k)'
          PROVE  effects'[Intent(k)'] = 0 /\ Journaled(Intent(k))'
      <4>1. Holding(k) /\ Intent(k)' = Intent(k)
        BY <2>4, <3>1
      <4>2. Intent(k) \in Requests \X Calls
        BY <4>1, IntentIsTyped DEF Holding, HostsTypeOK, Fits, InRound
      <4>3. Journaled(Intent(k))'
        BY <2>5, <4>1, <4>2 DEF EffectsOnce, Journaled
      <4> QED  BY <1>1, <4>1, <4>3 DEF EffectsOnce
    <3>2. effects'[Intent(h)'] = 0 /\ Journaled(Intent(h))'
      BY <1>1, <2>3, <2>4, <2>6 DEF Journaled
    <3> QED  BY <3>1, <3>2
  <2>9. \A j, k \in Hosts : Holding(j)' /\ Holding(k)' /\ Intent(j)' = Intent(k)' => j = k
    BY <2>3, <2>4 DEF EffectsOnce
  <2> QED  BY <2>7, <2>8, <2>9 DEF EffectsOnce
<1> QED  BY <1>3, <1>4 DEF JournalIntent, IgnoresReplay

LEMMA ExecuteIsOnce ==
  ASSUME TypeOK, TombstonesFinal, HostsTypeOK, EffectsOnce, NEW h \in Hosts, Execute(h)
  PROVE  EffectsOnce'
<1> DEFINE x == Intent(h)
<1>1. x \in Requests \X Calls /\ Holding(h)
  BY IntentIsTyped DEF Execute, InRound, Holding, HostsTypeOK, Fits
<1>2. effects[x] = 0 /\ Journaled(x) /\ \A k \in Hosts : Holding(k) /\ k # h => Intent(k) # x
  BY <1>1 DEF EffectsOnce
<1>3. effects' = [effects EXCEPT ![x] = effects[x] + 1]
  BY DEF Execute
<1>4. /\ effects'[x] = 1
      /\ \A y \in Requests \X Calls : y # x => effects'[y] = effects[y]
  <2> HIDE DEF x
  <2> QED  BY <1>1, <1>2, <1>3 DEF HostsTypeOK
<1>5. UNCHANGED vars
  BY DEF Execute
<1>6. \A y : Journaled(y) => Journaled(y)'
  BY <1>5 DEF Journaled, vars, journalVars, Retired
<1>7. /\ ~Holding(h)'
      /\ \A k \in Hosts : k # h => Holding(k)' = Holding(k) /\ Intent(k)' = Intent(k)
  <2>1. PICK y \in Results : Goes(h, "finish", [job[h] EXCEPT !.result = y])
    BY DEF Execute
  <2> QED  BY <2>1, OthersStay DEF Holding
<1>8. \A y \in Requests \X Calls : effects'[y] \in {0, 1} /\ (effects'[y] = 1 => Journaled(y)')
  <2>1. ASSUME NEW y \in Requests \X Calls, y # x
        PROVE  effects'[y] \in {0, 1} /\ (effects'[y] = 1 => Journaled(y)')
    BY <1>4, <1>6, <2>1 DEF EffectsOnce
  <2>2. ASSUME NEW y \in Requests \X Calls, y = x
        PROVE  effects'[y] \in {0, 1} /\ (effects'[y] = 1 => Journaled(y)')
    <3>1. Journaled(y)
      BY <1>2, <2>2 DEF Journaled
    <3> QED  BY <1>4, <1>6, <2>2, <3>1
  <2> QED  BY <2>1, <2>2
<1>9. \A k \in Hosts : Holding(k)' => effects'[Intent(k)'] = 0 /\ Journaled(Intent(k))'
  <2> SUFFICES ASSUME NEW k \in Hosts, Holding(k)'
               PROVE  effects'[Intent(k)'] = 0 /\ Journaled(Intent(k))'
    OBVIOUS
  <2>1. k # h /\ Holding(k) /\ Intent(k)' = Intent(k)
    BY <1>7
  <2>2. Intent(k) \in Requests \X Calls /\ Intent(k) # x
    BY <1>2, <2>1, IntentIsTyped DEF Holding, HostsTypeOK, Fits, InRound
  <2>3. Journaled(Intent(k))'
    BY <1>6, <2>1 DEF EffectsOnce, Journaled
  <2> QED  BY <1>4, <2>1, <2>2, <2>3 DEF EffectsOnce
<1>10. \A j, k \in Hosts : Holding(j)' /\ Holding(k)' /\ Intent(j)' = Intent(k)' => j = k
  BY <1>7 DEF EffectsOnce
<1> QED  BY <1>8, <1>9, <1>10 DEF EffectsOnce

LEMMA HostsStepIsOnce ==
  ASSUME TypeOK, TombstonesFinal, HostsTypeOK, EffectsOnce, HttpHosts = {}, [HostsNext]_allVars
  PROVE  EffectsOnce'
<1>1. [Next]_vars
  BY HostsStepIsJournaled
<1>2. ASSUME NEW h \in Hosts, NEW r \in Requests, NEW i \in Inputs, Submit(h, r, i)
      PROVE  EffectsOnce'
  BY <1>1, <1>2, HostsLeave DEF Submit
<1>3. ASSUME NEW h \in Hosts, Raise(h) \/ Crash(h)
      PROVE  EffectsOnce'
  BY <1>1, <1>3, HostsLeave DEF Raise, Crash, Stops
<1>4. ASSUME UNCHANGED hostVars
      PROVE  EffectsOnce'
  <2>1. effects' = effects /\ \A k \in Hosts : Holding(k)' = Holding(k) /\ Intent(k)' = Intent(k)
    BY <1>4 DEF hostVars, Holding, Intent, Call
  <2> QED  BY <1>1, <2>1, NobodyExecutes
<1>5. ASSUME NEW h \in Hosts, RecoverTurn(h) \/ ReadModelCalls(h) \/ Checkpoint(h) \/ Dispatch(h)
                                \/ RecordAnswer(h) \/ Finish(h) \/ CommitTurn(h)
      PROVE  EffectsOnce'
  <2>1. /\ effects' = effects
        /\ \E place \in {"idle", "read", "ask", "dispatch", "answer", "commit", "tool"} :
             \E holding : Goes(h, place, holding)
    BY <1>5, Zenon DEF RecoverTurn, ReadModelCalls, Checkpoint, Dispatch, RecordAnswer, Finish,
                       CommitTurn, Stops, AfterResponse
  <2> QED  BY <1>1, <2>1, HostsLeave
<1>6. ASSUME NEW h \in Hosts, Certify(h)
      PROVE  EffectsOnce'
  <2>1. effects' = effects
    BY <1>6 DEF Certify
  <2>2. PICK ttl \in Ttls :
          Goes(h, "execute",
               [job[h] EXCEPT !.lease =
                  NewLease(job[h].request, job[h].generation, Call(h), ttl)])
    BY <1>6 DEF Certify
  <2> DEFINE holding == [job[h] EXCEPT !.lease =
                           NewLease(job[h].request, job[h].generation, Call(h), ttl)]
  <2>3. holding.request = job[h].request /\ holding.round = job[h].round
    BY DEF HostsTypeOK, Fits, Job
  <2>4. job'[h] = holding
    BY <2>2, OthersStay
  <2>5. Holding(h) /\ Intent(h)' = Intent(h)
    <3> HIDE DEF holding
    <3> QED  BY <1>6, <2>3, <2>4 DEF Certify, Holding, Intent, Call
  <2>6. \A k \in Hosts : Holding(k)' => Holding(k) /\ Intent(k)' = Intent(k)
    BY <2>2, <2>5, OthersStay
  <2> QED  BY <1>1, <2>1, <2>6, NobodyExecutes
<1>7. ASSUME NEW h \in Hosts, Work(h)
      PROVE  EffectsOnce'
  BY <1>5, <1>6, <1>7, JournalIntentIsOnce, ExecuteIsOnce DEF Work
<1> QED
  BY <1>2, <1>3, <1>4, <1>7 DEF HostsNext, Reconcile, AbandonStale, Environment, allVars

\* Sessions execute a journaled tool call at most once, whoever crashes, recovers the
\* turn, is fenced by it, reconciles the call or retires the request: the effect belongs
\* to the one host whose transaction created the intent. Hosts of the control plane
\* are excluded: before_tool certifies intents that it did not create.
THEOREM OneEffect ==
  ASSUME HttpHosts = {}
  PROVE  HostsSpec => []OneEffectPerIntent
<1>1. HostsInit => EffectsOnce
  BY DEF HostsInit, EffectsOnce, Holding
<1>2. HostsTyped /\ TombstonesFinal /\ EffectsOnce /\ [HostsNext]_allVars => EffectsOnce'
  BY HostsStepIsOnce DEF HostsTyped
<1>3. HostsTyped /\ EffectsOnce => OneEffectPerIntent
  BY DEF HostsTyped, EffectsOnce, OneEffectPerIntent
<1> QED
  BY <1>1, <1>2, <1>3, HostsAreTyped, HostsUseTheJournal, OneTombstone, PTL DEF HostsSpec

-----------------------------------------------------------------------------
(* One owner per generation of a turn.                                     *)

\* The generation of a turn that stays only grows.
LEMMA GenerationStep ==
  ASSUME TypeOK, [Next]_vars, NEW r \in Begun \cap Begun'
  PROVE  /\ turn[r].generation \in Nat /\ turn'[r].generation \in Nat
         /\ turn[r].generation <= turn'[r].generation
<1> DEFINE n == turn[r].generation
           Goal == turn'[r].generation \in {n, n + 1}
<1>1. n \in Nat
  BY DEF TypeOK, JournalTypeOK, IsTurn, TurnRow, Generations
<1>2. ASSUME StoreWrite \/ Tick \/ UNCHANGED vars \/ \E o \in Operators, m \in Times : RetentionPlan(o, m)
      PROVE  Goal
  <2>1. turn'[r] = turn[r]
    BY <1>2 DEF StoreWrite, Tick, vars, journalVars, RetentionPlan
  <2> QED  BY <2>1
<1>3. ASSUME NEW q \in Requests, NEW i \in Inputs, Begin(q, i)
      PROVE  Goal
  <2>1. turn'[r] = turn[r]
    BY <1>3 DEF Begin, Put, Begun
  <2> QED  BY <2>1
<1>4. ASSUME NEW q \in Requests, NEW g \in Generations,
             Recover(q, g) \/ Abort(q, g) \/ \E y \in Replies : Commit(q, g, y)
      PROVE  Goal
  <2>1. q \in Begun /\ IsTurn(turn[q]) /\ IsTurn(turn[r])
    BY <1>4 DEF Recover, Abort, Commit, Pending, TypeOK, JournalTypeOK
  <2>2. ASSUME Recover(q, g)
        PROVE  Goal
    BY <2>1, <2>2 DEF Recover, IsTurn, TurnRow, Begun
  <2>3. ASSUME Abort(q, g)
        PROVE  Goal
    BY <2>1, <2>3 DEF Abort, IsTurn, TurnRow, Begun
  <2>4. ASSUME NEW y \in Replies, Commit(q, g, y)
        PROVE  Goal
    <3>1. turn' = [turn EXCEPT ![q].status = "committed", ![q].reply = y, ![q].updated = now]
      BY <2>4 DEF Commit
    <3> QED  BY <2>1, <3>1 DEF IsTurn, TurnRow, Begun
  <2> QED  BY <1>4, <2>2, <2>3, <2>4
<1>5. ASSUME NEW q \in Requests, NEW g \in Generations, NEW c \in Calls,
             \/ \E a \in Args : StartTool(q, g, c, a)
             \/ \E l \in Ttls : ActionEligible(q, g, c, l)
             \/ \E x \in Results : RecordResult(q, g, c, x)
             \/ \E p \in Payloads : RecordModelRequest(q, g, c, p)
             \/ \E x \in Responses : RecordModelResponse(q, g, c, x)
      PROVE  Goal
  <2>1. turn'[r] = turn[r]
    BY <1>5, Zenon DEF StartTool, ActionEligible, RecordResult, RecordModelRequest, RecordModelResponse
  <2> QED  BY <2>1
<1>6. ASSUME NEW o \in Operators, ApplyRetention(o)
      PROVE  Goal
  BY <1>6 DEF ApplyRetention, Begun
<1>7. Goal
  <2> HIDE DEF Goal
  <2> QED  BY <1>2, <1>3, <1>4, <1>5, <1>6, Zenon DEF Next, FinishTool, FinishToolUnderLease
<1> QED  BY <1>1, <1>7

\* A turn leaves the journal by being retired, and a retired one is never there again.
LEMMA TurnLeaves ==
  ASSUME TypeOK, TombstonesFinal, [Next]_vars
  PROVE  /\ Begun \subseteq Begun' \cup Retired'
         /\ Retired \subseteq Retired'
         /\ Retired \cap Begun = {} /\ Retired \cap Begun' = {}
<1>1. Retired \cap Begun = {}
  BY DEF TombstonesFinal, Retired
<1>2. ASSUME NEW o \in Operators, ApplyRetention(o)
      PROVE  /\ Begun \subseteq Begun' \cup Retired'
             /\ Retired \subseteq Retired' /\ Retired \cap Begun' = {}
  <2> DEFINE ids == Eligible(plan[o].cutoff)
             grave(r) == [request |-> r, input |-> turn[r].input, status |-> turn[r].status]
  <2>1. Begun' = Begun \ ids /\ tombstone' = tombstone \cup {grave(r) : r \in ids}
    BY <1>2, RetirementStep
  <2>2. \A r : grave(r).request = r
    OBVIOUS
  <2> HIDE DEF ids, grave
  <2> QED  BY <1>1, <2>1, <2>2 DEF Retired
<1>3. CASE \A o \in Operators : ~ApplyRetention(o)
  <2>1. tombstone' = tombstone
    BY <1>3, TombstoneStep
  <2>2. Begun \subseteq Begun'
    <3>1. turn' = turn => Begun \subseteq Begun'
      BY DEF Begun
    <3>2. CASE StoreWrite \/ Tick \/ UNCHANGED vars
               \/ \E o \in Operators, m \in Times : RetentionPlan(o, m)
      <4>1. turn' = turn
        BY <3>2 DEF StoreWrite, Tick, vars, journalVars, RetentionPlan
      <4> QED  BY <3>1, <4>1
    <3>3. ASSUME NEW r \in Requests,
                 \/ \E i \in Inputs : Begin(r, i)
                 \/ \E g \in Generations :
                      \/ Recover(r, g) \/ Abort(r, g) \/ \E y \in Replies : Commit(r, g, y)
                      \/ \E c \in Calls :
                           \/ \E a \in Args : StartTool(r, g, c, a)
                           \/ \E l \in Ttls : ActionEligible(r, g, c, l)
                           \/ \E y \in Results : RecordResult(r, g, c, y)
                           \/ \E p \in Payloads : RecordModelRequest(r, g, c, p)
                           \/ \E y \in Responses : RecordModelResponse(r, g, c, y)
          PROVE  Begun \subseteq Begun'
      <4>1. \/ turn' = turn
            \/ \E row : turn' = Put(turn, r, row)
            \/ \E row : turn' = [turn EXCEPT ![r] = row]
        <5>1. ASSUME NEW i \in Inputs, Begin(r, i)
              PROVE  \E row : turn' = Put(turn, r, row)
          BY <5>1 DEF Begin
        <5>2. ASSUME NEW g \in Generations,
                     Recover(r, g) \/ Abort(r, g) \/ \E y \in Replies : Commit(r, g, y)
              PROVE  \E row : turn' = [turn EXCEPT ![r] = row]
          BY <5>2 DEF Recover, Abort, Commit
        <5>3. ASSUME NEW g \in Generations, NEW c \in Calls,
                     \/ \E a \in Args : StartTool(r, g, c, a)
                     \/ \E l \in Ttls : ActionEligible(r, g, c, l)
                     \/ \E y \in Results : RecordResult(r, g, c, y)
                     \/ \E p \in Payloads : RecordModelRequest(r, g, c, p)
                     \/ \E y \in Responses : RecordModelResponse(r, g, c, y)
              PROVE  turn' = turn
          BY <5>3 DEF StartTool, ActionEligible, RecordResult, RecordModelRequest,
                      RecordModelResponse
        <5> QED  BY <3>3, <5>1, <5>2, <5>3
      <4> QED  BY <4>1, Zenon DEF Put, Begun
    <3> QED  BY <1>3, <3>2, <3>3, Zenon DEF Next, FinishTool, FinishToolUnderLease
  <2>3. \A r \in Begun' \ Begun : r \notin Retired
    BY TurnStep DEF Begin
  <2> QED  BY <1>1, <2>1, <2>2, <2>3 DEF Retired
<1> QED  BY <1>1, <1>2, <1>3

\* Host h began its turn or has taken it over: it holds a generation of its own.
Took(h) == at[h] \notin {"idle", "recover"}

\* No generation is ahead of the turn's, and none is held by two.
OneOwner ==
  /\ \A h \in Hosts : Took(h) =>
       \/ job[h].request \in Retired
       \/ /\ job[h].request \in Begun
          /\ job[h].generation <= turn[job[h].request].generation
  /\ \A h, k \in Hosts :
       /\ Took(h) /\ Took(k)
       /\ job[h].request = job[k].request /\ job[h].generation = job[k].generation
       => h = k

\* Nobody comes to hold a turn.
LEMMA OwnersStay ==
  ASSUME TypeOK, TombstonesFinal, HostsTypeOK, OneOwner, [Next]_vars,
         \A k \in Hosts : Took(k)' => /\ Took(k)
                                      /\ job'[k].request = job[k].request
                                      /\ job'[k].generation = job[k].generation
  PROVE  OneOwner'
<1>1. ASSUME NEW k \in Hosts, Took(k)'
      PROVE  \/ job'[k].request \in Retired'
             \/ /\ job'[k].request \in Begun'
                /\ job'[k].generation <= turn'[job'[k].request].generation
  <2> DEFINE r == job[k].request
             g == job[k].generation
  <2>1. Took(k) /\ job'[k].request = r /\ job'[k].generation = g /\ g \in Nat
    BY <1>1 DEF HostsTypeOK, Fits, Job
  <2>2. CASE r \in Retired
    BY <2>1, <2>2, TurnLeaves
  <2>3. CASE r \in Begun /\ g <= turn[r].generation
    <3>1. r \in Begun' => g <= turn'[r].generation
      BY <2>1, <2>3, GenerationStep
    <3> QED  BY <2>1, <2>3, <3>1, TurnLeaves
  <2> QED  BY <2>1, <2>2, <2>3 DEF OneOwner
<1>2. \A h, k \in Hosts :
        /\ Took(h)' /\ Took(k)'
        /\ job'[h].request = job'[k].request /\ job'[h].generation = job'[k].generation
        => h = k
  BY DEF OneOwner
<1> QED  BY <1>1, <1>2 DEF OneOwner

\* Host h takes a turn at a generation that nobody holds yet.
LEMMA OwnersCome ==
  ASSUME TypeOK, TombstonesFinal, HostsTypeOK, OneOwner, [Next]_vars,
         NEW h \in Hosts, NEW r \in Requests, NEW g \in Generations,
         Goes(h, "read", StartsAt(r, g)), r \in Begun', turn'[r].generation = g,
         \A k \in Hosts : Took(k) /\ job[k].request = r => job[k].generation < g
  PROVE  OneOwner'
<1>1. /\ job'[h].request = r /\ job'[h].generation = g /\ g \in Nat
      /\ \A k \in Hosts : k # h => at'[k] = at[k] /\ job'[k] = job[k]
  BY OthersStay, StartsTyped DEF Generations
<1>2. \A k \in Hosts : job[k].generation \in Nat
  BY DEF HostsTypeOK, Fits, Job
<1>3. ASSUME NEW k \in Hosts, Took(k)'
      PROVE  \/ job'[k].request \in Retired'
             \/ /\ job'[k].request \in Begun'
                /\ job'[k].generation <= turn'[job'[k].request].generation
  <2>1. CASE k = h
    BY <1>1, <2>1
  <2>2. CASE k # h
    <3> DEFINE q == job[k].request
               n == job[k].generation
    <3>1. Took(k) /\ job'[k] = job[k]
      BY <1>1, <1>3, <2>2 DEF Took
    <3>2. CASE q \in Retired
      BY <3>1, <3>2, TurnLeaves
    <3>3. CASE q \in Begun /\ n <= turn[q].generation
      <4>1. q \in Begun' => n <= turn'[q].generation
        BY <1>2, <3>3, GenerationStep
      <4> QED  BY <3>1, <3>3, <4>1, TurnLeaves
    <3> QED  BY <3>1, <3>2, <3>3 DEF OneOwner
  <2> QED  BY <2>1, <2>2
<1>4. ASSUME NEW j \in Hosts, NEW k \in Hosts, Took(j)', Took(k)',
             job'[j].request = job'[k].request, job'[j].generation = job'[k].generation
      PROVE  j = k
  <2>1. \A i \in Hosts : i # h /\ Took(i)' => Took(i) /\ job'[i] = job[i]
    BY <1>1 DEF Took
  <2>2. ASSUME NEW i \in Hosts, i # h, Took(i)', job'[i].request = r
        PROVE  job'[i].generation # g
    <3>1. Took(i) /\ job'[i] = job[i]
      BY <2>1, <2>2
    <3> QED  BY <1>1, <1>2, <2>2, <3>1
  <2>3. CASE j = h \/ k = h
    BY <1>1, <1>4, <2>2, <2>3
  <2>4. CASE j # h /\ k # h
    BY <1>4, <2>1, <2>4 DEF OneOwner
  <2> QED  BY <2>3, <2>4
<1> QED  BY <1>3, <1>4 DEF OneOwner

\* A step of a run keeps the turn it is about, until it ends.
LEMMA RunKeepsTurn ==
  ASSUME HostsTypeOK, NEW h \in Hosts, Work(h), ~RecoverTurn(h)
  PROVE  /\ Took(h)
         /\ \E place, holding :
              /\ Goes(h, place, holding)
              /\ place # "idle" => /\ holding.request = job[h].request
                                   /\ holding.generation = job[h].generation
<1> DEFINE r == job[h].request
           g == job[h].generation
           Keeps(holding) == holding.request = r /\ holding.generation = g
           Goal == /\ Took(h)
                   /\ \E place, holding :
                        Goes(h, place, holding) /\ (place # "idle" => Keeps(holding))
<1>1. job[h] \in Job
  BY DEF HostsTypeOK, Fits
<1>2. Keeps(job[h])
  OBVIOUS
<1>3. ASSUME ReadModelCalls(h)
      PROVE  Goal
  <2>1. Keeps([job[h] EXCEPT !.saved = Saved(r)])
    BY <1>1 DEF Job
  <2> HIDE DEF Keeps
  <2> QED  BY <1>3, <2>1, Zenon DEF ReadModelCalls, Took
<1>4. ASSUME Checkpoint(h)
      PROVE  Goal
  <2> HIDE DEF Keeps
  <2> QED  BY <1>2, <1>4, Zenon DEF Checkpoint, Took
<1>5. ASSUME Dispatch(h)
      PROVE  Goal
  <2>1. \A y : Keeps([job[h] EXCEPT !.response = y])
    BY <1>1 DEF Job
  <2> HIDE DEF Keeps
  <2> QED  BY <1>5, <2>1, Zenon DEF Dispatch, Took
<1>6. ASSUME RecordAnswer(h)
      PROVE  Goal
  <2>1. Keeps([job[h] EXCEPT !.response = NoResponse])
    BY <1>1 DEF Job
  <2> HIDE DEF Keeps
  <2> QED  BY <1>6, <2>1, Zenon DEF RecordAnswer, Took
<1>7. Keeps(NextRound(h))
  BY <1>1 DEF NextRound, Job
<1>8. ASSUME JournalIntent(h)
      PROVE  Goal
  <2> HIDE DEF Keeps
  <2> QED  BY <1>2, <1>7, <1>8, Zenon DEF JournalIntent, Took
<1>9. ASSUME Certify(h)
      PROVE  Goal
  <2>1. \A l : Keeps([job[h] EXCEPT !.lease = l])
    BY <1>1 DEF Job
  <2> HIDE DEF Keeps
  <2> QED  BY <1>9, <2>1, Zenon DEF Certify, Took
<1>10. ASSUME Execute(h)
       PROVE  Goal
  <2>1. \A y : Keeps([job[h] EXCEPT !.result = y])
    BY <1>1 DEF Job
  <2> HIDE DEF Keeps
  <2> QED  BY <1>10, <2>1, Zenon DEF Execute, Took
<1>11. ASSUME Finish(h)
       PROVE  Goal
  <2> HIDE DEF Keeps
  <2> QED  BY <1>7, <1>11, Zenon DEF Finish, Took
<1>12. ASSUME CommitTurn(h)
       PROVE  Goal
  <2> HIDE DEF Keeps
  <2> QED  BY <1>12, Zenon DEF CommitTurn, Stops, Took
<1> HIDE DEF Goal
<1>13. Goal
  BY <1>3, <1>4, <1>5, <1>6, <1>8, <1>9, <1>10, <1>11, <1>12 DEF Work
<1> QED  BY <1>13 DEF Goal

\* A generation has one owner: the host that began the turn, or the one whose
\* Recover counted it up.
LEMMA HostsStepIsOwned ==
  ASSUME TypeOK, TombstonesFinal, HostsTypeOK, OneOwner, [HostsNext]_allVars
  PROVE  OneOwner'
<1>1. [Next]_vars
  BY HostsStepIsJournaled
<1>2. ASSUME NEW h \in Hosts, NEW place, NEW holding, Goes(h, place, holding),
             place \notin {"idle", "recover"} =>
               /\ Took(h)
               /\ holding.request = job[h].request
               /\ holding.generation = job[h].generation
      PROVE  OneOwner'
  <2>1. /\ at'[h] = place /\ job'[h] = holding
        /\ \A k \in Hosts : k # h => at'[k] = at[k] /\ job'[k] = job[k]
    BY <1>2, OthersStay
  <2>2. \A k \in Hosts : Took(k)' => /\ Took(k)
                                     /\ job'[k].request = job[k].request
                                     /\ job'[k].generation = job[k].generation
    BY <1>2, <2>1 DEF Took
  <2> QED  BY <1>1, <2>2, OwnersStay
<1>3. ASSUME NEW h \in Hosts, NEW r \in Requests, NEW i \in Inputs, Submit(h, r, i)
      PROVE  OneOwner'
  <2>1. CASE Begin(r, i) /\ Goes(h, "read", StartsAt(r, 1))
    <3>1. 1 \in Generations
      BY JournalAssumption DEF Generations
    <3>2. r \notin Begun /\ r \notin Retired /\ r \in Begun' /\ turn'[r].generation = 1
      BY <2>1 DEF Begin, Put, Begun
    <3>3. \A k \in Hosts : Took(k) /\ job[k].request = r => job[k].generation < 1
      BY <3>2 DEF OneOwner
    <3> QED  BY <1>1, <2>1, <3>1, <3>2, <3>3, OwnersCome
  <2>2. CASE Goes(h, "recover", StartsAt(r, turn[r].generation))
    BY <1>2, <2>2
  <2> QED  BY <1>3, <2>1, <2>2 DEF Submit
<1>4. ASSUME NEW h \in Hosts, RecoverTurn(h)
      PROVE  OneOwner'
  <2> DEFINE r == job[h].request
             g == job[h].generation
  <2>1. r \in Requests /\ g \in Generations /\ Recover(r, g) /\ Goes(h, "read", StartsAt(r, g + 1))
    BY <1>4 DEF RecoverTurn, HostsTypeOK, Fits
  <2>2. /\ g + 1 \in Generations /\ g \in Nat
        /\ r \in Begun /\ turn[r].generation = g /\ IsTurn(turn[r])
    BY <2>1, JournalAssumption DEF Recover, Pending, Generations, TypeOK, JournalTypeOK
  <2>3. r \in Begun' /\ turn'[r].generation = g + 1
    BY <2>1, <2>2 DEF Recover, Begun, IsTurn, TurnRow
  <2>4. \A k \in Hosts : Took(k) /\ job[k].request = r => job[k].generation < g + 1
    <3>1. \A k \in Hosts : job[k].generation \in Nat
      BY DEF HostsTypeOK, Fits, Job
    <3>2. r \notin Retired
      BY <1>1, <2>2, TurnLeaves
    <3> QED  BY <2>2, <3>1, <3>2 DEF OneOwner
  <2> HIDE DEF r, g
  <2> QED  BY <1>1, <2>1, <2>2, <2>3, <2>4, OwnersCome
<1>5. ASSUME NEW h \in Hosts, Work(h), ~RecoverTurn(h)
      PROVE  OneOwner'
  <2>1. Took(h)
    BY <1>5, RunKeepsTurn
  <2>2. PICK place, holding :
          /\ Goes(h, place, holding)
          /\ place # "idle" => /\ holding.request = job[h].request
                               /\ holding.generation = job[h].generation
    BY <1>5, RunKeepsTurn
  <2> QED  BY <1>2, <2>1, <2>2
<1>6. ASSUME NEW h \in Hosts, Raise(h) \/ Crash(h)
      PROVE  OneOwner'
  <2>1. Goes(h, "idle", NoJob)
    BY <1>6 DEF Raise, Crash, Stops
  <2> QED  BY <1>2, <2>1
<1>7. ASSUME UNCHANGED hostVars
      PROVE  OneOwner'
  BY <1>1, <1>7, OwnersStay DEF hostVars, Took
<1> QED
  BY <1>3, <1>4, <1>5, <1>6, <1>7 DEF HostsNext, Reconcile, AbandonStale, Environment, allVars

-----------------------------------------------------------------------------
(* One dispatch per model call.                                            *)

\* A request was checkpointed for x, and is there unless its turn was retired.
Asked(x) == x \in DOMAIN modelCall \/ x[1] \in Retired

\* No step takes a request out of the journal but by retiring its turn.
LEMMA AskedStays ==
  ASSUME TypeOK, TombstonesFinal, [Next]_vars, NEW x, Asked(x)
  PROVE  Asked(x)'
<1>1. CASE \A o \in Operators : ~ApplyRetention(o)
  <2>1. tombstone' = tombstone
    BY <1>1, TombstoneStep
  <2>2. CASE StoreWrite \/ Tick \/ UNCHANGED vars
             \/ \E o \in Operators, n \in Times : RetentionPlan(o, n)
    BY <2>2 DEF StoreWrite, Tick, vars, journalVars, RetentionPlan, Asked, Retired
  <2>3. ASSUME NEW r \in Requests,
               \/ \E i \in Inputs : Begin(r, i)
               \/ \E g \in Generations :
                    \/ Recover(r, g) \/ Abort(r, g) \/ \E y \in Replies : Commit(r, g, y)
                    \/ \E c \in Calls :
                         \/ \E a \in Args : StartTool(r, g, c, a)
                         \/ \E l \in Ttls : ActionEligible(r, g, c, l)
                         \/ \E y \in Results : RecordResult(r, g, c, y)
                         \/ \E p \in Payloads : RecordModelRequest(r, g, c, p)
                         \/ \E y \in Responses : RecordModelResponse(r, g, c, y)
        PROVE  DOMAIN modelCall \subseteq DOMAIN modelCall'
    BY <2>3, ZenonT(60) DEF Begin, Recover, Abort, Commit, StartTool, ActionEligible, RecordResult,
                RecordModelRequest, RecordModelResponse, Put
  <2>4. DOMAIN modelCall \subseteq DOMAIN modelCall' \/ Asked(x)'
    BY <1>1, <2>2, <2>3, Zenon DEF Next, FinishTool, FinishToolUnderLease
  <2> QED  BY <2>1, <2>4 DEF Asked, Retired
<1>2. ASSUME NEW o \in Operators, ApplyRetention(o)
      PROVE  Asked(x)'
  <2> DEFINE ids == Eligible(plan[o].cutoff)
             grave(r) == [request |-> r, input |-> turn[r].input, status |-> turn[r].status]
  <2>1. /\ tombstone' = tombstone \cup {grave(r) : r \in ids}
        /\ modelCall' = [y \in {z \in DOMAIN modelCall : z[1] \notin ids} |-> modelCall[y]]
    BY <1>2, RetirementStep DEF ApplyRetention, Without
  <2>2. \A r : grave(r).request = r
    OBVIOUS
  <2> HIDE DEF ids, grave
  <2> QED  BY <2>1, <2>2 DEF Asked, Retired
<1> QED  BY <1>1, <1>2

\* Host h has seen that call c was asked, or has asked it itself.
KnownTo(h, c) ==
  \/ c \in DOMAIN job[h].saved
  \/ \E k \in DOMAIN Rounds :
       /\ Rounds[k] = c
       /\ k <= job[h].round
       /\ at[h] = "ask" => k < job[h].round

\* The owner of a turn read the requests after it had fenced the one before it, so
\* it knows of every request there is.
Informed ==
  \A h \in Hosts :
    /\ Took(h) /\ at[h] # "read"
    /\ Pending(job[h].request, job[h].generation)
    => \A c \in Calls : <<job[h].request, c>> \in DOMAIN modelCall => KnownTo(h, c)

\* An owner that is fenced stays fenced.
LEMMA FencedStays ==
  ASSUME TypeOK, TombstonesFinal, HostsTypeOK, OneOwner, [Next]_vars,
         NEW h \in Hosts, Took(h), Pending(job[h].request, job[h].generation)' ,
         job'[h].request = job[h].request, job'[h].generation = job[h].generation
  PROVE  Pending(job[h].request, job[h].generation)
<1> DEFINE r == job[h].request
           g == job[h].generation
<1>1. r \in Begun' /\ turn'[r].status = "pending" /\ turn'[r].generation = g
  BY DEF Pending
<1>2. r \notin Retired
  BY <1>1, TurnLeaves
<1>3. r \in Begun /\ g <= turn[r].generation
  BY <1>2 DEF OneOwner
<1>4. turn[r].generation = g
  BY <1>1, <1>3, GenerationStep
<1>5. turn[r].status = "pending"
  BY <1>1, <1>3, TurnStep
<1> QED  BY <1>3, <1>4, <1>5 DEF Pending

\* A step in which nobody checkpoints a request, and nobody forgets one.
LEMMA InformedStays ==
  ASSUME TypeOK, TombstonesFinal, HostsTypeOK, OneOwner, Informed, [Next]_vars,
         DOMAIN modelCall' \subseteq DOMAIN modelCall,
         \A k \in Hosts : Took(k)' /\ at'[k] # "read" =>
           /\ Took(k) /\ at[k] # "read"
           /\ job'[k].request = job[k].request /\ job'[k].generation = job[k].generation
           /\ \A c \in Calls : KnownTo(k, c) => KnownTo(k, c)'
  PROVE  Informed'
<1> SUFFICES ASSUME NEW k \in Hosts, Took(k)', at'[k] # "read",
                    Pending(job[k].request, job[k].generation)', NEW c \in Calls,
                    <<job'[k].request, c>> \in DOMAIN modelCall'
             PROVE  KnownTo(k, c)'
  BY DEF Informed
<1>1. /\ Took(k) /\ at[k] # "read"
      /\ job'[k].request = job[k].request /\ job'[k].generation = job[k].generation
      /\ KnownTo(k, c) => KnownTo(k, c)'
  OBVIOUS
<1>2. Pending(job[k].request, job[k].generation)
  BY <1>1, FencedStays
<1>3. <<job[k].request, c>> \in DOMAIN modelCall
  BY <1>1
<1>4. KnownTo(k, c)
  BY <1>1, <1>2, <1>3 DEF Informed
<1> QED  BY <1>1, <1>4

LEMMA RoundNumbers == DOMAIN Rounds \subseteq Nat
BY HostAssumption

\* A host that goes on with a round it has asked about, or to the next one, still
\* knows what it knew.
LEMMA KnowledgeStays ==
  ASSUME TypeOK, TombstonesFinal, HostsTypeOK, OneOwner, Informed, [Next]_vars,
         DOMAIN modelCall' \subseteq DOMAIN modelCall,
         NEW h \in Hosts, NEW place, NEW holding, Goes(h, place, holding),
         at[h] \in InRound,
         holding.request = job[h].request, holding.generation = job[h].generation,
         holding.saved = job[h].saved,
         \/ place # "ask" /\ holding.round = job[h].round
         \/ holding.round = job[h].round + 1
  PROVE  Informed'
<1>1. /\ at'[h] = place /\ job'[h] = holding
      /\ \A k \in Hosts : k # h => at'[k] = at[k] /\ job'[k] = job[k]
  BY OthersStay
<1>2. Took(h) /\ at[h] # "read" /\ at[h] # "ask"
  BY DEF Took, InRound
<1>3. job[h].round \in Nat /\ job'[h].round \in Nat
  BY <1>1 DEF HostsTypeOK, Fits, Job
<1>4. ASSUME NEW c \in Calls, KnownTo(h, c)
      PROVE  KnownTo(h, c)'
  <2>1. CASE c \in DOMAIN job[h].saved
    BY <1>1, <2>1 DEF KnownTo
  <2>2. ASSUME NEW k \in DOMAIN Rounds, Rounds[k] = c, k <= job[h].round
        PROVE  KnownTo(h, c)'
    <3>1. k \in Nat
      BY RoundNumbers
    <3>2. k <= job'[h].round /\ (at'[h] = "ask" => k < job'[h].round)
      BY <1>1, <1>3, <2>2, <3>1
    <3> QED  BY <2>2, <3>2 DEF KnownTo
  <2> QED  BY <1>4, <2>1, <2>2 DEF KnownTo
<1>5. ASSUME NEW k \in Hosts, Took(k)', at'[k] # "read"
      PROVE  /\ Took(k) /\ at[k] # "read"
             /\ job'[k].request = job[k].request /\ job'[k].generation = job[k].generation
             /\ \A c \in Calls : KnownTo(k, c) => KnownTo(k, c)'
  <2>1. CASE k = h
    BY <1>1, <1>2, <1>4, <2>1
  <2>2. CASE k # h
    BY <1>1, <1>5, <2>2 DEF Took, KnownTo
  <2> QED  BY <2>1, <2>2
<1> QED  BY <1>5, InformedStays

\* A host that starts, stops, or is about to read.
LEMMA NewcomersKnow ==
  ASSUME TypeOK, TombstonesFinal, HostsTypeOK, OneOwner, Informed, [Next]_vars,
         DOMAIN modelCall' \subseteq DOMAIN modelCall,
         NEW h \in Hosts, NEW place, NEW holding, Goes(h, place, holding),
         place \in {"idle", "recover", "read"}
  PROVE  Informed'
<1>1. /\ at'[h] = place
      /\ \A k \in Hosts : k # h => at'[k] = at[k] /\ job'[k] = job[k]
  BY OthersStay
<1>2. \A k \in Hosts : Took(k)' /\ at'[k] # "read" =>
        /\ Took(k) /\ at[k] # "read"
        /\ job'[k].request = job[k].request /\ job'[k].generation = job[k].generation
        /\ \A c \in Calls : KnownTo(k, c) => KnownTo(k, c)'
  BY <1>1 DEF Took, KnownTo
<1> QED  BY <1>2, InformedStays

\* read: model_calls of the turn as it is after the recovery.
LEMMA ReadersKnow ==
  ASSUME TypeOK, TombstonesFinal, HostsTypeOK, OneOwner, Informed,
         NEW h \in Hosts, ReadModelCalls(h)
  PROVE  Informed'
<1> DEFINE r == job[h].request
           holding == [job[h] EXCEPT !.saved = Saved(r)]
<1>1. Goes(h, "ask", holding) /\ UNCHANGED vars /\ job[h] \in Job
  BY DEF ReadModelCalls, HostsTypeOK, Fits
<1>2. holding.request = r /\ holding.saved = Saved(r)
  BY <1>1 DEF Job
<1>3. /\ at'[h] = "ask" /\ job'[h] = holding
      /\ \A k \in Hosts : k # h => at'[k] = at[k] /\ job'[k] = job[k]
  BY <1>1, OthersStay
<1> HIDE DEF holding
<1>4. modelCall' = modelCall /\ \A q, n : Pending(q, n)' <=> Pending(q, n)
  BY <1>1 DEF vars, journalVars, Pending, Begun
<1>5. ASSUME NEW k \in Hosts, k # h, Took(k)', at'[k] # "read",
             Pending(job[k].request, job[k].generation)', NEW c \in Calls,
             <<job'[k].request, c>> \in DOMAIN modelCall'
      PROVE  KnownTo(k, c)'
  <2>1. Took(k) /\ at[k] # "read" /\ at'[k] = at[k] /\ job'[k] = job[k]
    BY <1>3, <1>5 DEF Took
  <2>2. Pending(job[k].request, job[k].generation)
    BY <1>4, <1>5, <2>1
  <2>3. KnownTo(k, c)
    BY <1>4, <1>5, <2>1, <2>2 DEF Informed
  <2> QED  BY <2>1, <2>3 DEF KnownTo
<1>6. ASSUME NEW c \in Calls, <<job'[h].request, c>> \in DOMAIN modelCall'
      PROVE  KnownTo(h, c)'
  <2>1. c \in DOMAIN Saved(r)
    BY <1>2, <1>3, <1>4, <1>6 DEF Saved
  <2> QED  BY <1>2, <1>3, <2>1 DEF KnownTo
<1> QED  BY <1>5, <1>6 DEF Informed

\* checkpoint: only the owner adds a request, that of the round it is in.
LEMMA CheckpointIsKnown ==
  ASSUME TypeOK, TombstonesFinal, HostsTypeOK, OneOwner, Informed,
         NEW h \in Hosts, Checkpoint(h)
  PROVE  Informed'
<1> DEFINE r == job[h].request
           g == job[h].generation
<1>1. [Next]_vars
  BY WorkIsJournaled DEF Work
<1>2. /\ at[h] = "ask" /\ Took(h) /\ Pending(r, g) /\ job[h].round \in DOMAIN Rounds
      /\ job[h].round \in Nat
  BY DEF Checkpoint, Took, RecordModelRequest, HostsTypeOK, Fits, Job
<1>3. PICK place \in {"dispatch", "commit", "tool"} : Goes(h, place, job[h])
  BY Zenon DEF Checkpoint, AfterResponse
<1>4. /\ at'[h] = place /\ \A k \in Hosts : job'[k] = job[k]
      /\ \A k \in Hosts : k # h => at'[k] = at[k]
  BY <1>3, OthersStay
<1>5. DOMAIN modelCall' \subseteq DOMAIN modelCall \cup {<<r, Call(h)>>}
  BY DEF Checkpoint, RecordModelRequest, Put, vars, journalVars
<1> SUFFICES ASSUME NEW k \in Hosts, Took(k)', at'[k] # "read",
                    Pending(job[k].request, job[k].generation)', NEW c \in Calls,
                    <<job'[k].request, c>> \in DOMAIN modelCall'
             PROVE  KnownTo(k, c)'
  BY DEF Informed
<1>6. Took(k) /\ at[k] # "read"
  BY <1>2, <1>4 DEF Took
<1>7. Pending(job[k].request, job[k].generation)
  BY <1>1, <1>4, <1>6, FencedStays
<1>8. KnownTo(k, c) => KnownTo(k, c)'
  <2>1. \A n \in DOMAIN Rounds : n < job[h].round => n <= job[h].round
    BY <1>2, RoundNumbers
  <2> QED  BY <1>2, <1>4, <2>1 DEF KnownTo
<1>9. CASE <<job[k].request, c>> \in DOMAIN modelCall
  BY <1>6, <1>7, <1>8, <1>9 DEF Informed
<1>10. CASE <<job[k].request, c>> \notin DOMAIN modelCall
  <2>1. job[k].request = r /\ c = Call(h)
    BY <1>4, <1>5, <1>10
  <2>2. job[k].generation = g
    BY <1>2, <1>7, <2>1 DEF Pending
  <2>3. k = h
    <3>1. job[k].request = job[h].request /\ job[k].generation = job[h].generation
      BY <2>1, <2>2
    <3> QED  BY <1>2, <1>6, <3>1, Zenon DEF OneOwner
  <2> QED  BY <1>2, <1>4, <2>1, <2>3 DEF KnownTo, Call
<1> QED  BY <1>9, <1>10

LEMMA HostsStepIsInformed ==
  ASSUME TypeOK, TombstonesFinal, HostsTypeOK, OneOwner, Informed, [HostsNext]_allVars
  PROVE  Informed'
<1>1. [Next]_vars
  BY HostsStepIsJournaled
<1>2. ASSUME NEW h \in Hosts,
             (\E r \in Requests, i \in Inputs : Submit(h, r, i)) \/ RecoverTurn(h) \/ CommitTurn(h)
               \/ Raise(h) \/ Crash(h)
      PROVE  Informed'
  <2>1. modelCall' = modelCall
    <3>1. ASSUME NEW r \in Requests, NEW i \in Inputs, Submit(h, r, i)
          PROVE  modelCall' = modelCall
      BY <3>1, Zenon DEF Submit, Begin, vars, journalVars
    <3>2. RecoverTurn(h) => modelCall' = modelCall
      BY Zenon DEF RecoverTurn, Recover, vars, journalVars
    <3>3. CommitTurn(h) => modelCall' = modelCall
      BY Zenon DEF CommitTurn, Commit, vars, journalVars
    <3>4. Raise(h) \/ Crash(h) => modelCall' = modelCall
      BY Zenon DEF Raise, Crash, vars, journalVars
    <3> QED  BY <1>2, <3>1, <3>2, <3>3, <3>4
  <2>2. \E place \in {"idle", "recover", "read"} : \E holding : Goes(h, place, holding)
    BY <1>2, Zenon DEF Submit, RecoverTurn, CommitTurn, Raise, Crash, Stops
  <2> QED  BY <1>1, <2>1, <2>2, NewcomersKnow
<1>3. ASSUME NEW h \in Hosts,
             Dispatch(h) \/ RecordAnswer(h) \/ JournalIntent(h) \/ Certify(h) \/ Execute(h)
               \/ Finish(h)
      PROVE  Informed'
  <2> DEFINE Same(holding) ==
               /\ holding.request = job[h].request /\ holding.generation = job[h].generation
               /\ holding.saved = job[h].saved
             Goal == \E place, holding :
                       /\ Goes(h, place, holding) /\ Same(holding)
                       /\ \/ place # "ask" /\ holding.round = job[h].round
                          \/ holding.round = job[h].round + 1
  <2>1. job[h] \in Job /\ at[h] \in InRound
    BY <1>3 DEF HostsTypeOK, Fits, Dispatch, RecordAnswer, JournalIntent, Certify, Execute, Finish,
                InRound
  <2>2. modelCall' = modelCall
    BY <1>3, Zenon DEF Dispatch, RecordAnswer, RecordModelResponse, JournalIntent, StartTool, Certify,
                ActionEligible, Execute, Finish, FinishToolUnderLease, RecordResult, vars, journalVars
  <2>3. Same(job[h]) /\ Same(NextRound(h)) /\ NextRound(h).round = job[h].round + 1
    BY <2>1 DEF NextRound, Job
  <2>4. \A y : /\ Same([job[h] EXCEPT !.response = y])
               /\ [job[h] EXCEPT !.response = y].round = job[h].round
    BY <2>1 DEF Job
  <2>5. \A y : /\ Same([job[h] EXCEPT !.lease = y])
               /\ [job[h] EXCEPT !.lease = y].round = job[h].round
    BY <2>1 DEF Job
  <2>6. \A y : /\ Same([job[h] EXCEPT !.result = y])
               /\ [job[h] EXCEPT !.result = y].round = job[h].round
    BY <2>1 DEF Job
  <2> HIDE DEF Same
  <2>7. CASE Dispatch(h) \/ RecordAnswer(h)
    <3>1. \E place \in {"answer", "commit", "tool"} : \E y :
            Goes(h, place, [job[h] EXCEPT !.response = y])
      BY <2>7, Zenon DEF Dispatch, RecordAnswer, AfterResponse
    <3>2. PICK place \in {"answer", "commit", "tool"} : \E y :
            Goes(h, place, [job[h] EXCEPT !.response = y])
      BY <3>1
    <3>3. PICK y : Goes(h, place, [job[h] EXCEPT !.response = y])
      BY <3>2
    <3>4. Goal
      BY <2>4, <3>2, <3>3
    <3> QED  BY <1>1, <2>1, <2>2, <3>4, KnowledgeStays DEF Same
  <2>8. CASE JournalIntent(h) \/ Finish(h)
    <3>1. Goes(h, "certify", job[h]) \/ Goes(h, "ask", NextRound(h))
      BY <2>8 DEF JournalIntent, Finish
    <3>2. Goal
      BY <2>3, <3>1
    <3> QED  BY <1>1, <2>1, <2>2, <3>2, KnowledgeStays DEF Same
  <2>9. CASE Certify(h)
    <3>1. PICK ttl \in Ttls :
            Goes(h, "execute", [job[h] EXCEPT !.lease =
                    NewLease(job[h].request, job[h].generation, Call(h), ttl)])
      BY <2>9 DEF Certify
    <3> DEFINE holding == [job[h] EXCEPT !.lease =
                             NewLease(job[h].request, job[h].generation, Call(h), ttl)]
    <3>2. Goes(h, "execute", holding) /\ Same(holding) /\ holding.round = job[h].round
      BY <2>5, <3>1
    <3> HIDE DEF holding
    <3>3. Goal
      BY <3>2
    <3> QED  BY <1>1, <2>1, <2>2, <3>3, KnowledgeStays DEF Same
  <2>10. CASE Execute(h)
    <3>1. PICK y \in Results : Goes(h, "finish", [job[h] EXCEPT !.result = y])
      BY <2>10 DEF Execute
    <3> DEFINE holding == [job[h] EXCEPT !.result = y]
    <3>2. Goes(h, "finish", holding) /\ Same(holding) /\ holding.round = job[h].round
      BY <2>6, <3>1
    <3> HIDE DEF holding
    <3>3. Goal
      BY <3>2
    <3> QED  BY <1>1, <2>1, <2>2, <3>3, KnowledgeStays DEF Same
  <2> QED  BY <1>3, <2>7, <2>8, <2>9, <2>10
<1>4. ASSUME NEW h \in Hosts, Work(h)
      PROVE  Informed'
  BY <1>2, <1>3, <1>4, ReadersKnow, CheckpointIsKnown DEF Work
<1>5. ASSUME UNCHANGED hostVars, DOMAIN modelCall' \subseteq DOMAIN modelCall
      PROVE  Informed'
  <2>1. \A k \in Hosts : Took(k)' /\ at'[k] # "read" =>
          /\ Took(k) /\ at[k] # "read"
          /\ job'[k].request = job[k].request /\ job'[k].generation = job[k].generation
          /\ \A c \in Calls : KnownTo(k, c) => KnownTo(k, c)'
    BY <1>5 DEF hostVars, Took, KnownTo
  <2> QED  BY <1>1, <1>5, <2>1, InformedStays
<1>6. ASSUME NEW r \in Requests, Reconcile(r) \/ AbandonStale(r)
      PROVE  Informed'
  <2>1. modelCall' = modelCall /\ UNCHANGED hostVars
    BY <1>6, Zenon DEF Reconcile, AbandonStale, FinishTool, RecordResult, RecordModelResponse, Abort
  <2> QED  BY <1>5, <2>1
<1>7. CASE Environment
  <2>1. DOMAIN modelCall' \subseteq DOMAIN modelCall
    <3>1. CASE StoreWrite \/ Tick \/ \E o \in Operators, n \in Times : RetentionPlan(o, n)
      BY <3>1 DEF StoreWrite, Tick, RetentionPlan, journalVars
    <3>2. CASE \E o \in Operators : ApplyRetention(o)
      BY <3>2 DEF ApplyRetention, Without
    <3> QED  BY <1>7, <3>1, <3>2 DEF Environment
  <2> QED  BY <1>5, <1>7, <2>1 DEF Environment
<1>8. CASE UNCHANGED allVars
  <2>1. modelCall' = modelCall /\ UNCHANGED hostVars
    BY <1>8 DEF allVars, hostVars, vars, journalVars
  <2> QED  BY <1>5, <2>1
<1> QED
  BY <1>2, <1>4, <1>6, <1>7, <1>8 DEF HostsNext

\* Only the owner that checkpointed a request sends it to the provider, once.
DispatchesOnce ==
  RetryUnknown \/
    /\ \A x \in Requests \X Calls :
         /\ dispatches[x] \in {0, 1}
         /\ dispatches[x] = 1 => Asked(x)
    /\ \A h \in Hosts :
         at[h] = "dispatch" => dispatches[Intent(h)] = 0 /\ Asked(Intent(h))
    /\ \A h, k \in Hosts :
         at[h] = "dispatch" /\ at[k] = "dispatch" /\ Intent(h) = Intent(k) => h = k

LEMMA DispatcherIsTyped ==
  ASSUME HostsTypeOK, NEW h \in Hosts, at[h] = "dispatch"
  PROVE  Intent(h) \in Requests \X Calls
BY IntentIsTyped DEF HostsTypeOK, Fits, InRound

\* A step in which nobody dispatches, and nobody comes to the point of it.
LEMMA NobodyDispatches ==
  ASSUME TypeOK, TombstonesFinal, HostsTypeOK, DispatchesOnce, [Next]_vars,
         dispatches' = dispatches,
         \A k \in Hosts : at'[k] = "dispatch" => at[k] = "dispatch" /\ Intent(k)' = Intent(k)
  PROVE  DispatchesOnce'
<1> SUFFICES ASSUME ~RetryUnknown
             PROVE  DispatchesOnce'
  BY DEF DispatchesOnce
<1>1. \A x : Asked(x) => Asked(x)'
  BY AskedStays
<1>2. \A x \in Requests \X Calls : dispatches'[x] \in {0, 1} /\ (dispatches'[x] = 1 => Asked(x)')
  BY <1>1 DEF DispatchesOnce
<1>3. ASSUME NEW k \in Hosts, at'[k] = "dispatch"
      PROVE  dispatches'[Intent(k)'] = 0 /\ Asked(Intent(k))'
  <2>1. /\ at[k] = "dispatch" /\ Intent(k)' = Intent(k)
        /\ dispatches[Intent(k)] = 0 /\ Asked(Intent(k))
    BY <1>3 DEF DispatchesOnce
  <2>2. \A x : x = Intent(k) /\ Asked(x)' => Asked(Intent(k))'
    BY <2>1 DEF Asked
  <2> QED  BY <1>1, <2>1, <2>2
<1>4. \A h, k \in Hosts :
        at'[h] = "dispatch" /\ at'[k] = "dispatch" /\ Intent(h)' = Intent(k)' => h = k
  BY DEF DispatchesOnce
<1> QED  BY <1>2, <1>3, <1>4 DEF DispatchesOnce

\* A request goes to the provider only if nobody was known to have sent it: an owner
\* that finds one without a response raises indeterminate_model.
LEMMA CheckpointIsOnce ==
  ASSUME TypeOK, TombstonesFinal, HostsTypeOK, OneOwner, Informed, DispatchesOnce,
         NEW h \in Hosts, Checkpoint(h)
  PROVE  DispatchesOnce'
<1> SUFFICES ASSUME ~RetryUnknown
             PROVE  DispatchesOnce'
  BY DEF DispatchesOnce
<1> DEFINE r == job[h].request
           g == job[h].generation
           x == Intent(h)
<1>1. [Next]_vars /\ dispatches' = dispatches
  BY WorkIsJournaled DEF Work, Checkpoint
<1>2. /\ at[h] = "ask" /\ Took(h) /\ Pending(r, g) /\ job[h].round \in DOMAIN Rounds
      /\ job[h].round \in Nat /\ Call(h) \in Calls /\ x \in Requests \X Calls
      /\ x = <<r, Call(h)>>
  BY IntentIsTyped DEF Checkpoint, Took, RecordModelRequest, HostsTypeOK, Fits, Job, Intent
<1>3. CASE SavedResponse(h) # NoResponse
  <2>1. PICK place \in {"commit", "tool"} : Goes(h, place, job[h])
    BY <1>3, Zenon DEF Checkpoint, AfterResponse
  <2>2. \A k \in Hosts : at'[k] = "dispatch" => at[k] = "dispatch" /\ Intent(k)' = Intent(k)
    BY <2>1, OthersStay DEF Intent, Call
  <2> QED  BY <1>1, <2>2, NobodyDispatches
<1>4. CASE SavedResponse(h) = NoResponse
  <2>1. Call(h) \notin DOMAIN job[h].saved
    BY <1>4 DEF Checkpoint, UnknownOutcome
  <2>2. x \notin DOMAIN modelCall
    <3>1. \A k \in DOMAIN Rounds : Rounds[k] = Call(h) => k = job[h].round
      BY <1>2, HostAssumption DEF Call
    <3>2. ~KnownTo(h, Call(h))
      BY <1>2, <2>1, <3>1 DEF KnownTo
    <3> QED  BY <1>2, <3>2 DEF Informed
  <2>3. ~Asked(x)
    BY <1>1, <1>2, <2>2, TurnLeaves DEF Asked, Pending
  <2>4. x \in DOMAIN modelCall'
    BY <1>2, <2>2 DEF Checkpoint, RecordModelRequest, Put
  <2>5. dispatches[x] = 0 /\ \A k \in Hosts : at[k] = "dispatch" => Intent(k) # x
    BY <1>2, <2>3 DEF DispatchesOnce
  <2>6. /\ Intent(h)' = x
        /\ \A k \in Hosts : k # h => at'[k] = at[k] /\ Intent(k)' = Intent(k)
    <3>1. Goes(h, "dispatch", job[h])
      BY <1>4 DEF Checkpoint
    <3>2. \A k \in Hosts : job'[k] = job[k] /\ (k # h => at'[k] = at[k])
      BY <3>1, OthersStay
    <3> QED  BY <3>2 DEF Intent, Call
  <2>7. \A y : Asked(y) => Asked(y)'
    BY <1>1, AskedStays
  <2>8. \A y \in Requests \X Calls : dispatches'[y] \in {0, 1} /\ (dispatches'[y] = 1 => Asked(y)')
    BY <1>1, <2>7 DEF DispatchesOnce
  <2>9. ASSUME NEW k \in Hosts, at'[k] = "dispatch"
        PROVE  dispatches'[Intent(k)'] = 0 /\ Asked(Intent(k))'
    <3>1. CASE k = h
      <4>1. Intent(k)' \in DOMAIN modelCall'
        BY <2>4, <2>6, <3>1
      <4> QED  BY <1>1, <2>5, <2>6, <3>1, <4>1 DEF Asked
    <3>2. CASE k # h
      <4>1. at[k] = "dispatch" /\ Intent(k)' = Intent(k)
        BY <2>6, <2>9, <3>2
      <4>2. dispatches[Intent(k)] = 0 /\ Asked(Intent(k))
        BY <4>1 DEF DispatchesOnce
      <4>3. \A y : y = Intent(k) /\ Asked(y)' => Asked(Intent(k))'
        BY <4>1 DEF Asked
      <4> QED  BY <1>1, <2>7, <4>1, <4>2, <4>3
    <3> QED  BY <3>1, <3>2
  <2>10. \A j, k \in Hosts :
           at'[j] = "dispatch" /\ at'[k] = "dispatch" /\ Intent(j)' = Intent(k)' => j = k
    BY <2>5, <2>6 DEF DispatchesOnce
  <2> QED  BY <2>8, <2>9, <2>10 DEF DispatchesOnce
<1> QED  BY <1>3, <1>4

LEMMA DispatchIsOnce ==
  ASSUME TypeOK, TombstonesFinal, HostsTypeOK, DispatchesOnce, NEW h \in Hosts, Dispatch(h)
  PROVE  DispatchesOnce'
<1> SUFFICES ASSUME ~RetryUnknown
             PROVE  DispatchesOnce'
  BY DEF DispatchesOnce
<1> DEFINE x == Intent(h)
<1>1. at[h] = "dispatch" /\ x \in Requests \X Calls
  BY DispatcherIsTyped DEF Dispatch
<1>2. /\ dispatches[x] = 0 /\ Asked(x)
      /\ \A k \in Hosts : at[k] = "dispatch" /\ k # h => Intent(k) # x
  BY <1>1 DEF DispatchesOnce
<1>3. dispatches' = [dispatches EXCEPT ![x] = dispatches[x] + 1]
  BY DEF Dispatch
<1>4. /\ dispatches'[x] = 1
      /\ \A y \in Requests \X Calls : y # x => dispatches'[y] = dispatches[y]
  <2> HIDE DEF x
  <2> QED  BY <1>1, <1>2, <1>3 DEF HostsTypeOK
<1>5. \A y : Asked(y) => Asked(y)'
  BY DEF Dispatch, Asked, vars, journalVars, Retired
<1>6. /\ at'[h] # "dispatch"
      /\ \A k \in Hosts : k # h => at'[k] = at[k] /\ Intent(k)' = Intent(k)
  <2>1. PICK y \in Responses : Goes(h, "answer", [job[h] EXCEPT !.response = y])
    BY DEF Dispatch
  <2> QED  BY <2>1, OthersStay
<1>7. ASSUME NEW y \in Requests \X Calls
      PROVE  dispatches'[y] \in {0, 1} /\ (dispatches'[y] = 1 => Asked(y)')
  <2>1. CASE y # x
    BY <1>4, <1>5, <2>1 DEF DispatchesOnce
  <2>2. CASE y = x
    <3>1. Asked(y)
      BY <1>2, <2>2 DEF Asked
    <3> QED  BY <1>4, <1>5, <2>2, <3>1
  <2> QED  BY <2>1, <2>2
<1>8. ASSUME NEW k \in Hosts, at'[k] = "dispatch"
      PROVE  dispatches'[Intent(k)'] = 0 /\ Asked(Intent(k))'
  <2>1. k # h /\ at[k] = "dispatch" /\ Intent(k)' = Intent(k)
    BY <1>6, <1>8
  <2>2. Intent(k) \in Requests \X Calls /\ Intent(k) # x
    BY <1>2, <2>1, DispatcherIsTyped
  <2>3. dispatches[Intent(k)] = 0 /\ Asked(Intent(k))
    BY <2>1 DEF DispatchesOnce
  <2>4. Asked(Intent(k))'
    BY <1>5, <2>1, <2>3 DEF Asked
  <2> QED  BY <1>4, <2>1, <2>2, <2>3, <2>4
<1>9. \A j, k \in Hosts :
        at'[j] = "dispatch" /\ at'[k] = "dispatch" /\ Intent(j)' = Intent(k)' => j = k
  BY <1>6 DEF DispatchesOnce
<1> QED  BY <1>7, <1>8, <1>9 DEF DispatchesOnce

LEMMA HostsStepDispatchesOnce ==
  ASSUME TypeOK, TombstonesFinal, HostsTypeOK, OneOwner, Informed, DispatchesOnce,
         [HostsNext]_allVars
  PROVE  DispatchesOnce'
<1>1. [Next]_vars
  BY HostsStepIsJournaled
<1>2. ASSUME NEW h \in Hosts, NEW place, NEW holding, Goes(h, place, holding), place # "dispatch",
             dispatches' = dispatches
      PROVE  DispatchesOnce'
  <2>1. \A k \in Hosts : at'[k] = "dispatch" => at[k] = "dispatch" /\ Intent(k)' = Intent(k)
    BY <1>2, OthersStay
  <2> QED  BY <1>1, <1>2, <2>1, NobodyDispatches
<1>3. ASSUME NEW h \in Hosts,
             \/ \E r \in Requests, i \in Inputs : Submit(h, r, i)
             \/ RecoverTurn(h) \/ ReadModelCalls(h) \/ RecordAnswer(h) \/ JournalIntent(h)
             \/ Certify(h) \/ Execute(h) \/ Finish(h) \/ CommitTurn(h) \/ Raise(h) \/ Crash(h)
      PROVE  DispatchesOnce'
  <2>1. /\ dispatches' = dispatches
        /\ \E place \in Places \ {"dispatch"} : \E holding : Goes(h, place, holding)
    <3>1. {"idle", "recover", "read", "ask", "commit", "tool", "certify", "execute", "finish"}
            \subseteq Places \ {"dispatch"}
      BY DEF Places, InRound
    <3> QED  BY <1>3, <3>1, Zenon DEF Submit, RecoverTurn, ReadModelCalls, RecordAnswer,
                JournalIntent, Certify, Execute, Finish, CommitTurn, Raise, Crash, Stops,
                AfterResponse
  <2> QED  BY <1>2, <2>1
<1>4. ASSUME NEW h \in Hosts, Work(h)
      PROVE  DispatchesOnce'
  BY <1>3, <1>4, CheckpointIsOnce, DispatchIsOnce DEF Work
<1>5. ASSUME UNCHANGED hostVars
      PROVE  DispatchesOnce'
  <2>1. /\ dispatches' = dispatches
        /\ \A k \in Hosts : at'[k] = at[k] /\ Intent(k)' = Intent(k)
    BY <1>5 DEF hostVars, Intent, Call
  <2> QED  BY <1>1, <2>1, NobodyDispatches
<1> QED
  BY <1>3, <1>4, <1>5 DEF HostsNext, Reconcile, AbandonStale, Environment, allVars

\* Unless retries are authorized, a model call reaches the provider at most once,
\* whoever crashes, takes the turn over, is fenced while it still dispatches, or answers
\* late: who takes over reads the saved requests after its Recover, so what it does not
\* find nobody else can have checkpointed, and nobody else can checkpoint any more. It
\* holds over the control plane as well, whose hosts differ at the tools alone.
THEOREM OneDispatch == HostsSpec => []OneDispatchPerCall
<1> DEFINE Inv == OneOwner /\ Informed /\ DispatchesOnce
<1>1. HostsInit => Inv
  BY DEF HostsInit, OneOwner, Informed, DispatchesOnce, Took
<1>2. HostsTyped /\ TombstonesFinal /\ Inv /\ [HostsNext]_allVars => Inv'
  BY HostsStepIsOwned, HostsStepIsInformed, HostsStepDispatchesOnce DEF HostsTyped
<1>3. HostsTyped /\ Inv => OneDispatchPerCall
  BY DEF HostsTyped, DispatchesOnce, OneDispatchPerCall
<1> QED
  BY <1>1, <1>2, <1>3, HostsAreTyped, HostsUseTheJournal, OneTombstone, PTL DEF HostsSpec

=============================================================================
