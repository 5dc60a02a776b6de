--------------------------- MODULE NativeTransport ---------------------------
(***************************************************************************)
(* The stdio connection of the Python session to the native engine:        *)
(* NativeBackend on one side, serve() of cmpath-native on the other, two   *)
(* pipes, a deadline timer and kill() between them.                        *)
(*                                                                         *)
(* One application uses one backend after another, as "Reopen the database *)
(* and inspect the logical request ID before retrying" tells it to. The    *)
(* database outlives them all. Its effects are the worst case, operations  *)
(* that are not idempotent, such as append and set_fact: only the caller's *)
(* look at the database keeps a retry from doing the work twice.           *)
(*                                                                         *)
(* A KeyboardInterrupt may strike in a call, in the handler of its failure *)
(* or in close(). In the last two it leaves a closed backend whose process *)
(* nobody has waited for. Closing it again waits; a caller that opens the  *)
(* next backend without that leaves the process behind, and what was open  *)
(* then stays in doubt: that it cannot be known is part of the model.      *)
(*                                                                         *)
(* Abstracted: the reader thread, which moves whole lines from the pipe to *)
(* the queue, is one with the queue. An answer that is not a line of JSON  *)
(* within the frame limit is no answer: the reader ends as at the end of   *)
(* the stream. Lines are in the order of their IDs, so a pipe is a set.    *)
(*                                                                         *)
(* A definition set right before another one with the same parameters and  *)
(* no comment of its own is a faulty variant, used only to show that a     *)
(* property notices the fault.                                             *)
(***************************************************************************)
EXTENDS Integers

CONSTANTS
  Requests,     \* logical request IDs
  NoRequest,
  MaxSessions,  \* bound: backends
  MaxCalls      \* bound: calls

ASSUME TransportAssumption ==
  /\ NoRequest \notin Requests
  /\ MaxSessions \in Nat \ {0}
  /\ MaxCalls \in Nat

Sessions == 1..MaxSessions

\* A call, by the ID its frame carries. A line that is no request is garbled.
Call ==
  [id: 1..MaxCalls, op: {"apply", "look", "garbled"}, request: Requests]
NoCall == [id |-> 0, op |-> "none", request |-> NoRequest]

\* An answer: a result, which tells whether the request has been applied, or a
\* coded error.
Answer ==
  [id: 1..MaxCalls, kind: {"result", "error", "foreign"}, found: BOOLEAN]
NoAnswer == [id |-> 0, kind |-> "none", found |-> FALSE]

VARIABLES
  status,   \* what the caller knows of each logical request
  applied,  \* how often the database holds its effect
  session,  \* the backend in use
  place,    \* where its caller is; "abandoned": closed, its process not waited for
  call,     \* the call in progress
  ids,      \* request IDs drawn so far
  armed,    \* the deadline timer of the call is running
  firing,   \* backends whose timer has run out and is about to kill
  child,    \* the native process of each backend
  stdin,    \* lines it has not read
  torn,     \* a line whose end was never written
  running,  \* the call it is executing
  reply,    \* the answer it has not written
  answers,  \* answers that may still be taken from the queue
  left,     \* backends that were replaced while their process was running
  doubtful  \* requests that were open then

history == <<left, doubtful>>
callerVars == <<status, session, place, call, ids, armed, history>>
processVars == <<child, stdin, torn, running, reply>>
vars == <<callerVars, processVars, applied, firing, answers>>

First(S) == {x \in S : \A y \in S : x.id <= y.id}

Live(n) == child[n] \in {"alive", "signalled"}

\* The backend in use takes calls, or is in one.
Open == place \in {"idle", "writing", "waiting", "failing"}

Init ==
  /\ status = [r \in Requests |-> "free"]
  /\ applied = [r \in Requests |-> 0]
  /\ session = 0 /\ place = "closed" /\ call = NoCall /\ ids = 0
  /\ armed = FALSE /\ firing = {}
  /\ child = [n \in Sessions |-> "none"]
  /\ stdin = [n \in Sessions |-> {}]
  /\ torn = [n \in Sessions |-> NoCall]
  /\ running = [n \in Sessions |-> NoCall]
  /\ reply = [n \in Sessions |-> NoAnswer]
  /\ answers = [n \in Sessions |-> {}]
  /\ left = {} /\ doubtful = {}

-----------------------------------------------------------------------------
(* The caller.                                                             *)

\* NativeBackend(...): the process is started; its first call, info, is a call. An
\* interrupt may leave the process without a backend.
Reopen ==
  /\ place \in {"closed", "abandoned"}
  /\ session < MaxSessions
  /\ session' = session + 1
  /\ child' = [child EXCEPT ![session + 1] = "alive"]
  /\ place' \in {"idle", "abandoned"}
  /\ IF place = "abandoned" /\ Live(session)
     THEN /\ left' = left \cup {session}
          /\ doubtful' = doubtful \cup {r \in Requests : status[r] = "unknown"}
     ELSE UNCHANGED history
  /\ UNCHANGED <<status, call, ids, armed, stdin, torn, running, reply, applied,
                 firing, answers>>

\* A request is sent when it is known to have no effect, and looked up when that
\* is unknown.
StartCall(op, r) ==
  /\ place = "idle"
  /\ ids < MaxCalls
  /\ \/ op = "apply" /\ status[r] = "free"
     \/ op = "look" /\ status[r] = "unknown"
  /\ ids' = ids + 1
  /\ call' = [id |-> ids + 1, op |-> op, request |-> r]
  /\ status' = IF op = "apply" THEN [status EXCEPT ![r] = "sent"] ELSE status
  /\ armed' = TRUE
  /\ place' = "writing"
  /\ UNCHANGED <<session, history, processVars, applied, firing, answers>>

\* The frame goes out, right behind what an interrupted write has left.
Write ==
  LET line == IF torn[session] = NoCall THEN call
                                        ELSE [call EXCEPT !.op = "garbled"]
  IN
  /\ place = "writing"
  /\ child[session] # "dead"
  /\ stdin' = [stdin EXCEPT ![session] = @ \cup {line}]
  /\ torn' = [torn EXCEPT ![session] = NoCall]
  /\ place' = "waiting"
  /\ UNCHANGED <<status, session, call, ids, armed, history, child, running, reply,
                 applied, firing, answers>>

AnyAnswer(a) == TRUE
\* The identity check of call().
IsAnswer(a) == a.id = call.id /\ a.kind # "foreign"

Told(a) ==
  CASE call.op = "apply" -> IF a.kind = "result" THEN "done" ELSE "free"
    [] call.op = "look" /\ a.kind = "result" -> IF a.found THEN "done" ELSE "free"
    [] OTHER -> "unknown"

Receive ==
  /\ place = "waiting"
  /\ \E a \in First(answers[session]) :
       /\ IsAnswer(a)
       /\ answers' = [answers EXCEPT ![session] = @ \ {a}]
       /\ status' = [status EXCEPT ![call.request] = Told(a)]
  /\ call' = NoCall
  /\ armed' = FALSE
  /\ place' = "idle"
  /\ UNCHANGED <<session, ids, history, processVars, applied, firing>>

Spared(n) == child[n]
\* _kill: nothing to do for a process that has ended.
Signalled(n) == IF child[n] = "alive" THEN "signalled" ELSE child[n]

\* Whatever goes wrong ends in the same handler: a broken pipe, the end of the
\* stream, no answer in time or another call's answer, which is gone then.
Fail ==
  /\ \/ place = "writing" /\ child[session] = "dead" /\ UNCHANGED answers
     \/ place = "waiting" /\ ~armed /\ UNCHANGED answers
     \/ /\ place = "waiting" /\ child[session] = "dead" /\ answers[session] = {}
        /\ UNCHANGED answers
     \/ /\ place = "waiting"
        /\ \E a \in First(answers[session]) :
             ~IsAnswer(a) /\ answers' = [answers EXCEPT ![session] = @ \ {a}]
  /\ place' = "failing"
  /\ UNCHANGED <<status, session, call, ids, armed, history, processVars, applied, firing>>

\* Nobody takes from the queue of a closed backend any more.
Dropped == [answers EXCEPT ![session] = {}]

\* The handler kills the process and closes the backend.
Kill ==
  /\ place = "failing"
  /\ child' = [child EXCEPT ![session] = Signalled(session)]
  /\ place' = "reaping"
  /\ answers' = Dropped
  /\ UNCHANGED <<status, session, call, ids, armed, history, stdin, torn, running, reply,
                 applied, firing>>

Retried == IF status[call.request] = "sent"
             THEN [status EXCEPT ![call.request] = "free"] ELSE status
\* A call that was not answered leaves the outcome of its request open: it is never
\* retried by itself.
Lost == IF status[call.request] = "sent"
          THEN [status EXCEPT ![call.request] = "unknown"] ELSE status

Unreaped(n) == TRUE
\* wait() has returned.
Reaped(n) == child[n] = "dead"

RaiseTransport ==
  /\ place = "reaping"
  /\ Reaped(session)
  /\ status' = Lost
  /\ call' = NoCall
  /\ armed' = FALSE
  /\ place' = "closed"
  /\ UNCHANGED <<session, ids, history, processVars, applied, firing, answers>>

\* Another exception passes the handler by. Struck before cancel(), the timer runs on.
Escape(to) ==
  /\ status' = Lost
  /\ call' = NoCall
  /\ armed' = FALSE
  /\ firing' \in {firing, firing \cup {session}}
  /\ place' = to
  /\ UNCHANGED <<session, ids, history, stdin, running, reply, applied>>

\* The five seconds of wait() are over, or an interrupt ends it: the backend is closed,
\* and its process may be running.
WaitInVain ==
  /\ place = "reaping"
  /\ Escape("abandoned")
  /\ UNCHANGED <<child, torn, answers>>

\* A KeyboardInterrupt before the handler has closed the backend: it stays open, with
\* part of a line written, its answer still to come or just taken, or its process
\* killed (or not: _kill raises when the process outlives kill()).
Interrupt ==
  /\ \/ /\ place = "writing"
        /\ torn' \in {torn, [torn EXCEPT ![session] =
                             IF @ = NoCall THEN call ELSE [@ EXCEPT !.op = "garbled"]]}
        /\ UNCHANGED <<child, answers>>
     \/ /\ place = "waiting"
        /\ \/ UNCHANGED answers
           \/ \E a \in First(answers[session]) :
                answers' = [answers EXCEPT ![session] = @ \ {a}]
        /\ UNCHANGED <<child, torn>>
     \/ /\ place = "failing"
        /\ child' \in {child, [child EXCEPT ![session] = Signalled(session)]}
        /\ UNCHANGED <<torn, answers>>
  /\ Escape("idle")

\* close(): end of input, kill if that does not help, wait without limit. It may be
\* called again. An interrupt ends the wait: the streams are still drained, which
\* does not wait for the process, at the latest when the next interrupt ends that.
Close ==
  /\ \/ place \in {"idle", "abandoned"} /\ place' = "closing" /\ UNCHANGED child
     \/ /\ place = "closing"
        /\ child' = [child EXCEPT ![session] = Signalled(session)]
        /\ UNCHANGED place
     \/ place = "closing" /\ Reaped(session) /\ place' = "closed" /\ UNCHANGED child
     \/ place = "closing" /\ place' = "abandoned" /\ UNCHANGED child
  /\ answers' = Dropped
  /\ UNCHANGED <<status, session, call, ids, armed, history, stdin, torn, running, reply,
                 applied, firing>>

-----------------------------------------------------------------------------
(* The timer thread. cancel() does not stop a timer that has run out.      *)

RunOut ==
  /\ armed
  /\ armed' = FALSE
  /\ firing' = firing \cup {session}
  /\ UNCHANGED <<status, session, place, call, ids, history, processVars, applied,
                 answers>>

TimerKill(n) ==
  /\ n \in firing
  /\ firing' = firing \ {n}
  /\ child' = [child EXCEPT ![n] = Signalled(n)]
  /\ UNCHANGED <<callerVars, stdin, torn, running, reply, applied, answers>>

-----------------------------------------------------------------------------
(* The native process: serve() executes one request at a time.             *)

\* The next line; or, at the end of the input, a line that lacks its newline,
\* which may have been all but complete. close() ends the input; so does the end of
\* a backend that nobody holds.
Read(n) ==
  /\ child[n] = "alive"
  /\ running[n] = NoCall /\ reply[n] = NoAnswer
  /\ \/ /\ \E c \in First(stdin[n]) :
             /\ running' = [running EXCEPT ![n] = c]
             /\ stdin' = [stdin EXCEPT ![n] = @ \ {c}]
        /\ UNCHANGED torn
     \/ /\ stdin[n] = {} /\ torn[n] # NoCall
        /\ n = session => place \in {"closing", "abandoned"}
        /\ \E op \in {torn[n].op, "garbled"} :
             running' = [running EXCEPT ![n] = [torn[n] EXCEPT !.op = op]]
        /\ torn' = [torn EXCEPT ![n] = NoCall]
        /\ UNCHANGED stdin
  /\ UNCHANGED <<callerVars, child, reply, applied, firing, answers>>

Replies(n, kind, found) ==
  /\ reply' = [reply EXCEPT ![n] =
                 [id |-> running[n].id, kind |-> kind, found |-> found]]
  /\ running' = [running EXCEPT ![n] = NoCall]

\* The operation commits, finds what it looked for, or is refused and rolled back,
\* a panic included. A signal does not stop an instruction under way.
Execute(n) ==
  LET r == running[n].request IN
  /\ Live(n)
  /\ running[n] # NoCall
  /\ \/ /\ running[n].op = "apply"
        /\ applied' = [applied EXCEPT ![r] = @ + 1]
        /\ Replies(n, "result", TRUE)
     \/ /\ running[n].op = "look"
        /\ Replies(n, "result", applied[r] > 0)
        /\ UNCHANGED applied
     \/ /\ running[n].op # "garbled"
        /\ Replies(n, "error", FALSE)
        /\ UNCHANGED applied
     \/ /\ running[n].op = "garbled"
        /\ Replies(n, "foreign", FALSE)
        /\ UNCHANGED applied
  /\ UNCHANGED <<callerVars, child, stdin, torn, firing, answers>>

Respond(n) ==
  /\ child[n] = "alive"
  /\ reply[n] # NoAnswer
  /\ answers' = IF n = session /\ Open THEN [answers EXCEPT ![n] = @ \cup {reply[n]}]
                                      ELSE answers
  /\ reply' = [reply EXCEPT ![n] = NoAnswer]
  /\ UNCHANGED <<callerVars, child, stdin, torn, running, applied, firing>>

\* The end of the input, a crash, or the end of a killed process, which the kernel
\* may put off. What was not committed or not written is lost with it.
Die(n) ==
  /\ Live(n)
  /\ child' = [child EXCEPT ![n] = "dead"]
  /\ stdin' = [stdin EXCEPT ![n] = {}]
  /\ torn' = [torn EXCEPT ![n] = NoCall]
  /\ running' = [running EXCEPT ![n] = NoCall]
  /\ reply' = [reply EXCEPT ![n] = NoAnswer]
  /\ UNCHANGED <<callerVars, applied, firing, answers>>

Next ==
  \/ Reopen
  \/ \E op \in {"apply", "look"}, r \in Requests : StartCall(op, r)
  \/ Write \/ Receive \/ Fail \/ Kill \/ RaiseTransport \/ WaitInVain
  \/ Interrupt \/ Close \/ RunOut
  \/ \E n \in Sessions : TimerKill(n)
  \/ \E n \in Sessions : Read(n) \/ Execute(n) \/ Respond(n) \/ Die(n)

Spec == Init /\ [][Next]_vars

\* The handler and the timer thread run, wait(timeout=5) lets go, and what is killed
\* dies. A process that is not killed owes nothing: it may hang, and so may a write to
\* it.
Fairness ==
  /\ WF_vars(Fail) /\ WF_vars(Kill) /\ WF_vars(RaiseTransport \/ WaitInVain)
  /\ WF_vars(RunOut)
  /\ \A n \in Sessions : WF_vars(TimerKill(n)) /\ WF_vars(child[n] = "signalled" /\ Die(n))

FairSpec == Spec /\ Fairness

-----------------------------------------------------------------------------
(* Types.                                                                  *)

TypeOK ==
  /\ status \in [Requests -> {"free", "sent", "unknown", "done"}]
  /\ applied \in [Requests -> Nat]
  /\ session \in 0..MaxSessions
  /\ place \in {"idle", "writing", "waiting", "failing", "reaping", "closing",
               "abandoned", "closed"}
  /\ call \in Call \cup {NoCall} /\ call.op # "garbled"
  /\ ids \in 0..MaxCalls
  /\ armed \in BOOLEAN /\ firing \subseteq Sessions
  /\ child \in [Sessions -> {"none", "alive", "signalled", "dead"}]
  /\ stdin \in [Sessions -> SUBSET Call]
  /\ torn \in [Sessions -> Call \cup {NoCall}]
  /\ running \in [Sessions -> Call \cup {NoCall}]
  /\ reply \in [Sessions -> Answer \cup {NoAnswer}]
  /\ answers \in [Sessions -> SUBSET Answer]
  /\ left \subseteq Sessions /\ doubtful \subseteq Requests

-----------------------------------------------------------------------------
(* The argument for KnownOutcome.                                          *)

InCall == place \in {"writing", "waiting", "failing", "reaping"}
Held(x, none) == {x} \ {none}

\* What may still be executed, and what may still be taken for an answer.
Unread(n) == Held(torn[n], NoCall) \cup stdin[n] \cup Held(running[n], NoCall)
Given(n) == Held(reply[n], NoAnswer) \cup answers[n]

\* Only the process of the backend in use has anything to do, and those left behind.
Quiet ==
  /\ \A n \in left : n < session
  /\ \A n \in Sessions :
       /\ Live(n) => (n = session /\ place # "closed") \/ n \in left
       /\ child[n] = "none" <=> n > session
       /\ child[n] = "none" => torn[n] = NoCall
       /\ child[n] \in {"none", "dead"}
            => stdin[n] = {} /\ running[n] = NoCall /\ reply[n] = NoAnswer
       /\ answers[n] # {} => n = session /\ Open

\* What those may still do is in doubt.
LeftInDoubt ==
  \A n \in left :
    Live(n) => \A c \in Unread(n) : c.op = "apply" => c.request \in doubtful

\* The call in progress is the last one drawn and the one the caller waits for.
CallInProgress ==
  /\ place # "closed" => session \in Sessions
  /\ InCall => call.id = ids /\ call \in Call
  /\ armed => InCall
  /\ \A r \in Requests :
       status[r] = "sent" <=> InCall /\ call.op = "apply" /\ call.request = r
  /\ InCall /\ call.op = "look" => status[call.request] = "unknown"

\* Both pipes keep the order of the calls.
InOrder ==
  LET n == session IN place # "closed" =>
    /\ \A c \in Unread(n) : c.id <= ids /\ (place = "writing" => c.id < ids)
    /\ \A a \in Given(n) : a.id <= ids /\ (place = "writing" => a.id < ids)
    /\ \A a \in Given(n), c \in Unread(n) : a.id < c.id
    /\ running[n] # NoCall => reply[n] = NoAnswer
    /\ reply[n] # NoAnswer => \A a \in answers[n] : a.id < reply[n].id
    /\ running[n] # NoCall => \A c \in stdin[n] : running[n].id < c.id
    /\ torn[n] # NoCall => \A c \in stdin[n] \cup Held(running[n], NoCall) :
                             c.id < torn[n].id
    /\ \A c, d \in stdin[n] : c.id = d.id => c = d
    /\ \A c \in Unread(n) :
         place = "waiting" /\ c.id = ids /\ c.op # "garbled" => c = call

\* A request that may still be applied is open, and asked for once, or in doubt.
OpenWhileUnread ==
  LET U == Unread(session) \cup (IF place = "writing" THEN {call} ELSE {}) IN
  place # "closed" /\ Live(session) =>
    \A c \in {d \in U : d.op = "apply" /\ d.request \notin doubtful} :
      /\ status[c.request] \in {"sent", "unknown"}
      /\ applied[c.request] = 0
      /\ \A d \in U : d.op = "apply" /\ d.request = c.request => d = c

\* An answer to the call in progress tells what is the case.
TrueAnswers ==
  place = "waiting" /\ call.request \notin doubtful =>
    \A a \in Given(session) : a.id = call.id /\ a.kind # "foreign" =>
      /\ call.op = "apply" => (a.kind = "result" <=> applied[call.request] = 1)
      /\ call.op = "look" /\ a.kind = "result"
           => (a.found <=> applied[call.request] = 1)

-----------------------------------------------------------------------------
(* Properties.                                                             *)

\* A request reported done is applied once, one reported free of effect is not and
\* never will be by a process of an earlier backend, an interrupted call or a late
\* answer (kill, wait and the identity check of NativeBackend.call), unless it was
\* open when the caller left a running process behind.
KnownOutcome ==
  \A r \in Requests \ doubtful :
    /\ applied[r] <= 1
    /\ status[r] = "done" => applied[r] = 1
    /\ status[r] = "free" => applied[r] = 0

Known == [r \in Requests |-> IF r \in doubtful THEN "doubtful" ELSE status[r]]
Outcome == INSTANCE RequestOutcome WITH status <- Known

\* The whole promise, step by step: an effect appears only while its outcome is
\* open, and a look at the database settles it; an open one falls in doubt when the
\* caller replaces an abandoned backend, and never otherwise.
ImplementsOutcome == Outcome!Spec

\* When a call has raised a transport error or close() has returned, the process
\* executes nothing more: two are at work on the database only if the caller was let
\* go from waiting for the first and opened another backend instead of closing again.
OneProcessAtWork ==
  \A n \in Sessions : Live(n) => (n = session /\ place # "closed") \/ n \in left

\* Every call returns or raises by itself, even when the process hangs in the middle
\* of an operation and a write to it is blocked (the deadline timer).
CallReturns ==
  InCall ~> place \in {"idle", "abandoned", "closed"}

\* What a step keeps, and KnownOutcome follows from.
TransportInv ==
  /\ TypeOK /\ Quiet /\ LeftInDoubt /\ CallInProgress /\ InOrder /\ OpenWhileUnread
  /\ TrueAnswers /\ KnownOutcome

=============================================================================
