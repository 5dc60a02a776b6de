----------------------------- MODULE HarnessRun -----------------------------
(***************************************************************************)
(* Hosts that run turns through the journal: the loop of ResearchAgent.run *)
(* over a RunSession, whose tool step is that of the Go Session.Tool and   *)
(* of RoutedTurn as well, and the same loop over the control plane, whose  *)
(* before_tool is more lenient. A host is a process that may crash between *)
(* any two calls, be replaced by another one that recovers its turn, and   *)
(* go on unaware. Outside the database there are the tools, whose effects  *)
(* no transaction undoes, and the model provider, who charges per request. *)
(*                                                                         *)
(* Abstracted: a round calls one tool at most, and tool and model call of  *)
(* a round share the ID. The payload of a round is a function of the       *)
(* responses and results before it, so a repeated one is the same payload. *)
(***************************************************************************)
EXTENDS TurnJournal

CONSTANTS
  Hosts,
  HttpHosts,       \* the hosts that go through the control plane
  Rounds,          \* call IDs of the rounds: agent-model-1, agent-model-2, ...
  FinalResponses,  \* responses without tool calls
  NoResponse,      \* response_json IS NULL
  NoLease,
  RetryUnknown,    \* unknown_outcome_policy = "retry"
  MaxCrashes       \* bound: crashes

ASSUME HostAssumption ==
  /\ HttpHosts \subseteq Hosts
  /\ Rounds \in Seq(Calls)
  /\ \A i, j \in DOMAIN Rounds : Rounds[i] = Rounds[j] => i = j
  /\ NoResponse \notin Responses
  /\ RetryUnknown \in BOOLEAN
  /\ MaxCrashes \in Nat

VARIABLES
  at,          \* the next call of each host
  job,         \* what each host holds in memory
  effects,     \* how often the tool of a call was executed
  dispatches,  \* how often the request of a call was sent to the provider
  crashes      \* crashes so far

hostVars == <<at, job, effects, dispatches, crashes>>
allVars == <<vars, hostVars>>

NoJob ==
  [request |-> NoRequest, generation |-> 0, round |-> 0, saved |-> << >>,
   response |-> NoResponse, lease |-> NoLease, result |-> NoResult]

Call(h) == Rounds[job[h].round]
Intent(h) == <<job[h].request, Call(h)>>

HostsInit ==
  /\ Init
  /\ at = [h \in Hosts |-> "idle"]
  /\ job = [h \in Hosts |-> NoJob]
  /\ effects = [x \in Requests \X Calls |-> 0]
  /\ dispatches = [x \in Requests \X Calls |-> 0]
  /\ crashes = 0

\* Host h continues at a place, with some of what it holds replaced.
Goes(h, place, holding) ==
  /\ at' = [at EXCEPT ![h] = place]
  /\ job' = [job EXCEPT ![h] = holding]

Stops(h) == Goes(h, "idle", NoJob)

\* model_calls: the saved requests, and for each its response if there is one.
Saved(r) ==
  [c \in {d \in Calls : <<r, d>> \in DOMAIN modelCall} |->
     IF <<r, c>> \in DOMAIN modelResponse THEN modelResponse[<<r, c>>]
                                          ELSE NoResponse]

-----------------------------------------------------------------------------
(* Starting or taking over a turn.                                         *)

StartsAt(r, g) == [NoJob EXCEPT !.request = r, !.generation = g, !.round = 1]

\* begin creates the turn, or finds it unfinished and the host resumes it. A
\* finished turn is replayed or refused and changes nothing.
Submit(h, r, input) ==
  /\ at[h] = "idle"
  /\ \/ Begin(r, input) /\ Goes(h, "read", StartsAt(r, 1))
     \/ /\ r \in Begun
        /\ turn[r].status = "pending"
        /\ turn[r].input = input
        /\ Goes(h, "recover", StartsAt(r, turn[r].generation))
        /\ UNCHANGED vars
  /\ UNCHANGED <<effects, dispatches, crashes>>

RecoverTurn(h) ==
  LET r == job[h].request
      g == job[h].generation
  IN
  /\ at[h] = "recover"
  /\ Recover(r, g)
  /\ Goes(h, "read", StartsAt(r, g + 1))
  /\ UNCHANGED <<effects, dispatches, crashes>>

ReadModelCalls(h) ==
  /\ at[h] = "read"
  /\ job[h].request \in Begun
  /\ Goes(h, "ask", [job[h] EXCEPT !.saved = Saved(job[h].request)])
  /\ UNCHANGED <<vars, effects, dispatches, crashes>>

-----------------------------------------------------------------------------
(* A model round: checkpoint, dispatch, record.                            *)

SavedResponse(h) ==
  IF Call(h) \in DOMAIN job[h].saved THEN job[h].saved[Call(h)] ELSE NoResponse

NeverUnknown(h) == FALSE
\* The provider may have answered a request that has no saved response.
UnknownOutcome(h) ==
  /\ Call(h) \in DOMAIN job[h].saved
  /\ SavedResponse(h) = NoResponse
  /\ ~RetryUnknown

AfterResponse(response) ==
  IF response \in FinalResponses THEN "commit" ELSE "tool"

\* checkpoint_model_request saves a new request or replays a saved one; a saved
\* response is used in place of a dispatch.
Checkpoint(h) ==
  LET r == job[h].request
      g == job[h].generation
  IN
  /\ at[h] = "ask"
  /\ job[h].round \in DOMAIN Rounds
  /\ ~UnknownOutcome(h)
  /\ \/ \E p \in Payloads : RecordModelRequest(r, g, Call(h), p)
     \/ Pending(r, g) /\ Intent(h) \in DOMAIN modelCall /\ UNCHANGED vars
  /\ IF SavedResponse(h) = NoResponse
       THEN Goes(h, "dispatch", job[h])
       ELSE Goes(h, AfterResponse(SavedResponse(h)), job[h])
  /\ UNCHANGED <<effects, dispatches, crashes>>

Dispatch(h) ==
  /\ at[h] = "dispatch"
  /\ \E response \in Responses :
       Goes(h, "answer", [job[h] EXCEPT !.response = response])
  /\ dispatches' = [dispatches EXCEPT ![Intent(h)] = @ + 1]
  /\ UNCHANGED <<vars, effects, crashes>>

RecordAnswer(h) ==
  LET r == job[h].request
      g == job[h].generation
      response == job[h].response
  IN
  /\ at[h] = "answer"
  /\ \/ RecordModelResponse(r, g, Call(h), response)
     \/ /\ Pending(r, g)
        /\ Intent(h) \in DOMAIN modelResponse
        /\ modelResponse[Intent(h)] = response
        /\ UNCHANGED vars
  /\ Goes(h, AfterResponse(response), [job[h] EXCEPT !.response = NoResponse])
  /\ UNCHANGED <<effects, dispatches, crashes>>

-----------------------------------------------------------------------------
(* A tool: journal the intent, certify it, execute, record the result.     *)

NextRound(h) ==
  [job[h] EXCEPT !.round = @ + 1, !.lease = NoLease, !.result = NoResult]

AnyHost(h) == TRUE
\* tool_start says whether it created the intent. A session uses a recorded
\* result and raises indeterminate_tool for an intent it did not create; the
\* control plane's before_tool looks at neither.
IgnoresReplay(h) == h \in HttpHosts

JournalIntent(h) ==
  LET r == job[h].request
      g == job[h].generation
  IN
  /\ at[h] = "tool"
  /\ \/ /\ \E a \in Args : StartTool(r, g, Call(h), a)
        /\ Goes(h, "certify", job[h])
     \/ /\ Pending(r, g)
        /\ Intent(h) \in DOMAIN tool
        /\ \/ /\ IgnoresReplay(h)
              /\ Goes(h, "certify", job[h])
           \/ /\ ~IgnoresReplay(h)
              /\ tool[Intent(h)].status = "completed"
              /\ Goes(h, "ask", NextRound(h))
        /\ UNCHANGED vars
  /\ UNCHANGED <<effects, dispatches, crashes>>

Certify(h) ==
  LET r == job[h].request
      g == job[h].generation
  IN
  /\ at[h] = "certify"
  /\ \E ttl \in Ttls :
       /\ ActionEligible(r, g, Call(h), ttl)
       /\ Goes(h, "execute",
               [job[h] EXCEPT !.lease = NewLease(r, g, Call(h), ttl)])
  /\ UNCHANGED <<effects, dispatches, crashes>>

Execute(h) ==
  /\ at[h] = "execute"
  /\ \E result \in Results :
       Goes(h, "finish", [job[h] EXCEPT !.result = result])
  /\ effects' = [effects EXCEPT ![Intent(h)] = @ + 1]
  /\ UNCHANGED <<vars, dispatches, crashes>>

Finish(h) ==
  LET r == job[h].request
      g == job[h].generation
  IN
  /\ at[h] = "finish"
  /\ \/ FinishToolUnderLease(r, g, Call(h), job[h].result, job[h].lease)
     \/ /\ Pending(r, g)
        /\ tool[Intent(h)].status = "completed"
        /\ tool[Intent(h)].result = job[h].result
        /\ UNCHANGED vars
  /\ Goes(h, "ask", NextRound(h))
  /\ UNCHANGED <<effects, dispatches, crashes>>

CommitTurn(h) ==
  /\ at[h] = "commit"
  /\ \E reply \in Replies : Commit(job[h].request, job[h].generation, reply)
  /\ Stops(h)
  /\ UNCHANGED <<effects, dispatches, crashes>>

-----------------------------------------------------------------------------
(* The end of a run, and everybody else.                                   *)

Work(h) ==
  \/ RecoverTurn(h) \/ ReadModelCalls(h)
  \/ Checkpoint(h) \/ Dispatch(h) \/ RecordAnswer(h)
  \/ JournalIntent(h) \/ Certify(h) \/ Execute(h) \/ Finish(h)
  \/ CommitTurn(h)

\* The engine refuses the next call (fenced, state, stale_context, conflict,
\* indeterminate_tool, a lease that expired), or the loop itself gives up
\* (indeterminate_model, turn_limit). The exception ends the run, not the turn.
Refused(h) == at[h] # "idle" /\ ~ENABLED Work(h)

Raise(h) ==
  /\ Refused(h)
  /\ Stops(h)
  /\ UNCHANGED <<vars, effects, dispatches, crashes>>

\* A crash, a callback's exception, or a transport failure.
Crash(h) ==
  /\ at[h] # "idle"
  /\ crashes < MaxCrashes
  /\ crashes' = crashes + 1
  /\ Stops(h)
  /\ UNCHANGED <<vars, effects, dispatches>>

\* reconcile_tool and record_model_response by an operator who has looked at the
\* turn and asked the tool or the provider.
Reconcile(r) ==
  /\ r \in Begun
  /\ \/ \E c \in Calls, x \in Results : FinishTool(r, turn[r].generation, c, x)
     \/ \E c \in Calls, x \in Responses :
          RecordModelResponse(r, turn[r].generation, c, x)
  /\ UNCHANGED hostVars

\* An operator aborts a turn whose task or scope has changed: it can neither be
\* recovered nor committed.
AbandonStale(r) ==
  /\ r \in Begun
  /\ ~SameRevision(r) \/ ~ValidBasis(r)
  /\ Abort(r, turn[r].generation)
  /\ UNCHANGED hostVars

Environment ==
  /\ \/ StoreWrite
     \/ Tick
     \/ \E o \in Operators, n \in Times : RetentionPlan(o, n)
     \/ \E o \in Operators : ApplyRetention(o)
  /\ UNCHANGED hostVars

HostsNext ==
  \/ \E h \in Hosts, r \in Requests, i \in Inputs : Submit(h, r, i)
  \/ \E h \in Hosts : Work(h)
  \/ \E h \in Hosts : Raise(h)
  \/ \E h \in Hosts : Crash(h)
  \/ \E r \in Requests : Reconcile(r)
  \/ \E r \in Requests : AbandonStale(r)
  \/ Environment

HostsSpec == HostsInit /\ [][HostsNext]_allVars

-----------------------------------------------------------------------------
(* Properties.                                                             *)

\* A journaled tool call is executed at most once, whatever crashes, recoveries,
\* late workers, retries and retirements happen ("no automatic replay of an
\* uncertain tool", docs/HARNESS.md:147).
OneEffectPerIntent == \A x \in Requests \X Calls : effects[x] <= 1

\* Unless retries are authorized, the provider sees each model call once at most:
\* the one who resumes reads the saved requests after it has fenced the other.
OneDispatchPerCall ==
  ~RetryUnknown => \A x \in Requests \X Calls : dispatches[x] <= 1

Attended(r) == \E h \in Hosts : job[h].request = r

\* A tool or the provider may have done what the journal does not know of.
Unanswered(r) ==
  \/ HasStartedTool(r)
  \/ \E c \in Calls :
       <<r, c>> \in DOMAIN modelCall /\ <<r, c>> \notin DOMAIN modelResponse

\* A host's own steps go on unless it crashes. A turn that nobody works on has its
\* open questions answered by an operator, and is then run again; one whose task
\* or scope has changed is abandoned.
Fairness ==
  /\ \A h \in Hosts : WF_allVars(Work(h) \/ Raise(h))
  /\ \A h \in Hosts, r \in Requests :
       WF_allVars(/\ ~Attended(r) /\ ~Unanswered(r)
                  /\ \E i \in Inputs : Submit(h, r, i))
  /\ \A r \in Requests : WF_allVars(~Attended(r) /\ Reconcile(r))
  /\ \A r \in Requests : WF_allVars(AbandonStale(r))

FairSpec == HostsSpec /\ Fairness

\* The agent's max_turns are used up by responses that call a tool.
OutOfRounds(r) ==
  \A k \in DOMAIN Rounds :
    /\ <<r, Rounds[k]>> \in DOMAIN modelResponse
    /\ modelResponse[<<r, Rounds[k]>>] \notin FinalResponses

\* No room for another recovery, revision or message in this instance.
AtBound(r) ==
  \/ turn[r].generation = MaxGeneration
  \/ task[turn[r].input.task].revision = MaxRevision
  \/ nextMessage > MaxMessages


=============================================================================
