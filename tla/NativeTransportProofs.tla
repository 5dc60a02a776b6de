------------------------ MODULE NativeTransportProofs ------------------------
(***************************************************************************)
(* Proofs about NativeTransport, for any number of requests, backends and  *)
(* calls. TransportInv is inductive: one lemma per action shows that each  *)
(* of its parts is kept, and the promise of RequestOutcome follows from    *)
(* it, step by step.                                                       *)
(***************************************************************************)
EXTENDS NativeTransport, TLAPS

\* The initial states satisfy it.
LEMMA InitTransportInv == Init => TransportInv
<1> SUFFICES ASSUME Init PROVE TransportInv
  OBVIOUS
<1>1. TypeOK
  <2>1. NoCall.op # "garbled" /\ MaxSessions \in Nat /\ MaxCalls \in Nat
    BY TransportAssumption DEF NoCall
  <2>2. 0 \in 0..MaxSessions /\ 0 \in 0..MaxCalls
    BY <2>1
  <2>3. /\ status \in [Requests -> {"free", "sent", "unknown", "done"}]
        /\ applied \in [Requests -> Nat]
    BY DEF Init
  <2> QED
    BY <2>1, <2>2, <2>3 DEF Init, TypeOK
<1>2. Quiet /\ CallInProgress
  BY TransportAssumption
    DEF Init, Quiet, Open, Live, Sessions, CallInProgress, InCall
<1>3. InOrder /\ OpenWhileUnread /\ TrueAnswers
  BY DEF Init, InOrder, OpenWhileUnread, TrueAnswers
<1>4. KnownOutcome /\ LeftInDoubt
  BY DEF Init, KnownOutcome, LeftInDoubt
<1> QED
  BY <1>1, <1>2, <1>3, <1>4 DEF TransportInv

-----------------------------------------------------------------------------
(* The steps of the caller.                                                *)

\* A new backend: nothing is under way.
LEMMA ReopenKeepsInv ==
  ASSUME TransportInv, Reopen
  PROVE  TransportInv'
<1>1. TypeOK'
  <2>1. session + 1 \in Sessions /\ session + 1 \in 0..MaxSessions
    BY TransportAssumption DEF TransportInv, TypeOK, Reopen, Sessions
  <2>2. place = "abandoned" => session \in Sessions
    BY DEF TransportInv, CallInProgress
  <2>3. left' \subseteq Sessions /\ doubtful' \subseteq Requests
    BY <2>2 DEF TransportInv, TypeOK, Reopen, history
  <2>4. child' \in [Sessions -> {"none", "alive", "signalled", "dead"}]
    BY <2>1 DEF TransportInv, TypeOK, Reopen
  <2> QED
    BY <2>1, <2>3, <2>4 DEF TransportInv, TypeOK, Reopen
<1>2. Quiet'
  <2>1. /\ session \in Nat /\ session' = session + 1 /\ place' # "closed"
        /\ child' = [child EXCEPT ![session'] = "alive"] /\ session' \in Sessions
        /\ place = "abandoned" => session \in Sessions
    BY TransportAssumption DEF TransportInv, TypeOK, Reopen, CallInProgress, Sessions
  <2>2. left \subseteq left' /\ left' \subseteq left \cup {session}
    BY DEF Reopen, history
  <2>3. \A n \in left' : n < session'
    BY <2>1, <2>2 DEF TransportInv, TypeOK, Quiet, Sessions
  <2>4. ASSUME NEW n \in Sessions, Live(n)'
        PROVE  n = session' \/ n \in left'
    <3>1. CASE n = session /\ n # session'
      <4>1. Live(session) /\ place # "closed"
        BY <2>1, <2>4, <3>1 DEF Live, TransportInv, TypeOK, Quiet
      <4> QED
        BY <3>1, <4>1 DEF Reopen
    <3>2. CASE n # session /\ n # session'
      BY <2>1, <2>2, <2>4, <3>2 DEF Live, TransportInv, TypeOK, Quiet
    <3> QED
      BY <3>1, <3>2
  <2>5. ASSUME NEW n \in Sessions
        PROVE  /\ child'[n] = "none" <=> n > session'
               /\ child'[n] = "none" => torn'[n] = NoCall
               /\ child'[n] \in {"none", "dead"}
                    => stdin'[n] = {} /\ running'[n] = NoCall /\ reply'[n] = NoAnswer
               /\ answers'[n] = {}
    BY <2>1 DEF TransportInv, TypeOK, Reopen, Quiet, Open, Sessions
  <2> QED
    BY <2>1, <2>3, <2>4, <2>5 DEF Quiet
<1>3. CallInProgress'
  BY TransportAssumption DEF TransportInv, Reopen, callerVars, history, processVars,
    TypeOK, Quiet, Open, CallInProgress, InCall, Call, NoCall, Sessions
<1>4. InOrder'
  BY TransportAssumption DEF TransportInv, Reopen, callerVars, history, processVars,
    TypeOK, Quiet, Open, CallInProgress, InOrder, InCall, Unread, Given, Held, Call,
    NoCall, Answer, NoAnswer, Sessions
<1>5. OpenWhileUnread'
  BY TransportAssumption DEF TransportInv, Reopen, callerVars, history, processVars,
    TypeOK, Quiet, Open, CallInProgress, InOrder, OpenWhileUnread, InCall, Unread, Held,
    Call, NoCall, Live, Sessions, KnownOutcome
<1>6. TrueAnswers'
  BY DEF Reopen, TrueAnswers
<1>7. KnownOutcome'
  BY TransportAssumption DEF TransportInv, Reopen, callerVars, history, processVars,
    TypeOK, Quiet, Open, CallInProgress, InOrder, OpenWhileUnread, TrueAnswers, InCall,
    Unread, Given, Held, Call, NoCall, Answer, NoAnswer, Live, Sessions, KnownOutcome
<1>8. LeftInDoubt'
  <2> SUFFICES ASSUME NEW n \in left', Live(n)', NEW c \in Unread(n)', c.op = "apply"
               PROVE  c.request \in doubtful'
    BY DEF LeftInDoubt
  <2>1. /\ session \in Nat /\ session' = session + 1
        /\ child' = [child EXCEPT ![session'] = "alive"]
    BY TransportAssumption DEF TransportInv, TypeOK, Reopen
  <2>2. n \in Sessions /\ n < session'
    BY <1>1, <1>2 DEF TypeOK, Quiet
  <2>3. Live(n) /\ c \in Unread(n)
    BY <2>1, <2>2 DEF Live, TransportInv, TypeOK, Sessions, Reopen, Unread
  <2>4. CASE n \in left
    BY <2>3, <2>4 DEF TransportInv, LeftInDoubt, Reopen, history
  <2>5. CASE n \notin left
    <3>1. n = session /\ place = "abandoned"
      BY <2>5 DEF Reopen, history
    <3>2. c.request \in doubtful \/ status[c.request] = "unknown"
      BY <2>3, <3>1 DEF TransportInv, OpenWhileUnread, CallInProgress, InCall, Unread, Held,
        TypeOK, Call
    <3>3. c \in Call
      BY <2>2, <2>3 DEF TransportInv, TypeOK, Unread, Held
    <3> QED
      BY <2>3, <3>1, <3>2, <3>3 DEF Reopen, Call
  <2> QED
    BY <2>4, <2>5
<1> QED
  BY <1>1, <1>2, <1>3, <1>4, <1>5, <1>6, <1>7, <1>8 DEF TransportInv

\* A call is drawn.
LEMMA StartCallKeepsInv ==
  ASSUME TransportInv, NEW op \in {"apply", "look"}, NEW r \in Requests,
         StartCall(op, r)
  PROVE  TransportInv'
<1>1. TypeOK'
  BY TransportAssumption DEF TransportInv, StartCall, callerVars, history, processVars,
    TypeOK, Call, NoCall, Answer, NoAnswer, Sessions
<1>2. Quiet'
  BY TransportAssumption DEF TransportInv, StartCall, callerVars, history, processVars,
    TypeOK, Quiet, Open, Live, Sessions
<1>3. CallInProgress'
  BY TransportAssumption DEF TransportInv, StartCall, callerVars, history, processVars,
    TypeOK, Quiet, Open, CallInProgress, InCall, Call, NoCall, Sessions
<1>4. InOrder'
  BY TransportAssumption DEF TransportInv, StartCall, callerVars, history, processVars,
    TypeOK, Quiet, Open, CallInProgress, InOrder, InCall, Unread, Given, Held, Call,
    NoCall, Answer, NoAnswer, Sessions
<1>5. OpenWhileUnread'
  BY TransportAssumption DEF TransportInv, StartCall, callerVars, history, processVars,
    TypeOK, Quiet, Open, CallInProgress, InOrder, OpenWhileUnread, InCall, Unread, Held,
    Call, NoCall, Live, Sessions, KnownOutcome
<1>6. TrueAnswers'
  BY TransportAssumption DEF TransportInv, StartCall, callerVars, history, processVars,
    TypeOK, Quiet, Open, CallInProgress, InOrder, OpenWhileUnread, TrueAnswers, InCall,
    Unread, Given, Held, Call, NoCall, Answer, NoAnswer, Live, Sessions
<1>7. KnownOutcome'
  BY TransportAssumption DEF TransportInv, StartCall, callerVars, history, processVars,
    TypeOK, Quiet, Open, CallInProgress, InOrder, OpenWhileUnread, TrueAnswers, InCall,
    Unread, Given, Held, Call, NoCall, Answer, NoAnswer, Live, Sessions, KnownOutcome
<1>8. LeftInDoubt'
  BY TransportAssumption DEF TransportInv, StartCall, callerVars, history, processVars,
    TypeOK, Quiet, Open, LeftInDoubt, Live, Unread, Held, Call, Sessions
<1> QED
  BY <1>1, <1>2, <1>3, <1>4, <1>5, <1>6, <1>7, <1>8 DEF TransportInv

\* Its line is behind all others.
LEMMA WriteKeepsInv ==
  ASSUME TransportInv, Write
  PROVE  TransportInv'
<1>1. TypeOK'
  BY TransportAssumption DEF TransportInv, TypeOK, callerVars, history, processVars,
    Write, Call, NoCall, CallInProgress, InCall
<1>2. Quiet'
  BY TransportAssumption DEF TransportInv, TypeOK, callerVars, history, processVars,
    Write, Quiet, Open, Live, CallInProgress, InCall, Sessions
<1>3. CallInProgress'
  BY TransportAssumption DEF TransportInv, Write, callerVars, history, processVars,
    TypeOK, Quiet, Open, CallInProgress, InCall, Call, NoCall, Sessions
<1>4. InOrder'
  BY TransportAssumption DEF TransportInv, TypeOK, callerVars, history, processVars,
    Write, Quiet, Open, CallInProgress, InOrder, InCall, Unread, Given, Held, Call,
    NoCall
<1>5. OpenWhileUnread'
  BY TransportAssumption DEF TransportInv, Write, callerVars, history, processVars,
    TypeOK, Quiet, Open, CallInProgress, InOrder, OpenWhileUnread, InCall, Unread, Held,
    Call, NoCall, Live, Sessions, KnownOutcome
<1>6. TrueAnswers'
  BY TransportAssumption DEF TransportInv, Write, callerVars, history, processVars,
    TypeOK, Quiet, Open, CallInProgress, InOrder, OpenWhileUnread, TrueAnswers, InCall,
    Unread, Given, Held, Call, NoCall, Answer, NoAnswer, Live, Sessions
<1>7. KnownOutcome'
  BY TransportAssumption DEF TransportInv, Write, callerVars, history, processVars,
    TypeOK, Quiet, Open, CallInProgress, InOrder, OpenWhileUnread, TrueAnswers, InCall,
    Unread, Given, Held, Call, NoCall, Answer, NoAnswer, Live, Sessions, KnownOutcome
<1>8. LeftInDoubt'
  BY TransportAssumption DEF TransportInv, Write, callerVars, history, processVars,
    TypeOK, Quiet, Open, LeftInDoubt, Live, Unread, Held, Call, Sessions
<1> QED
  BY <1>1, <1>2, <1>3, <1>4, <1>5, <1>6, <1>7, <1>8 DEF TransportInv

\* What the caller is told is the case.
LEMMA ReceiveKeepsInv ==
  ASSUME TransportInv, Receive
  PROVE  TransportInv'
<1>1. TypeOK'
  <2>1. session \in Sessions /\ call.request \in Requests
    BY DEF TransportInv, Receive, CallInProgress, InCall, Call
  <2>2. status' \in [Requests -> {"free", "sent", "unknown", "done"}]
    BY <2>1, Zenon DEF TransportInv, Receive, TypeOK, Told
  <2>3. answers' \in [Sessions -> SUBSET Answer]
    BY <2>1 DEF TransportInv, Receive, TypeOK
  <2>4. call' = NoCall /\ place' = "idle" /\ armed' = FALSE /\ NoCall.op # "garbled"
    BY DEF Receive, NoCall
  <2> QED
    BY <2>2, <2>3, <2>4 DEF TransportInv, Receive, TypeOK, history, processVars
<1>2. Quiet'
  BY TransportAssumption DEF TransportInv, Receive, callerVars, history, processVars,
    TypeOK, Quiet, Open, Live, Sessions, IsAnswer, Told, First
<1>3. CallInProgress'
  BY TransportAssumption DEF TransportInv, Receive, callerVars, history, processVars,
    TypeOK, Quiet, Open, CallInProgress, InCall, Call, NoCall, Sessions, IsAnswer, Told,
    First
<1>4. InOrder'
  BY TransportAssumption DEF TransportInv, Receive, callerVars, history, processVars,
    TypeOK, Quiet, Open, CallInProgress, InOrder, InCall, Unread, Given, Held, Call,
    NoCall, Answer, NoAnswer, Sessions, IsAnswer, Told, First
<1>5. OpenWhileUnread'
  BY TransportAssumption DEF TransportInv, TypeOK, callerVars, history, processVars,
    Receive, IsAnswer, Told, First, OpenWhileUnread, KnownOutcome, Unread, Held, Quiet,
    Open, CallInProgress, InCall, Call, InOrder, Given
<1>6. TrueAnswers'
  BY TransportAssumption DEF TransportInv, Receive, callerVars, history, processVars,
    TypeOK, Quiet, Open, CallInProgress, InOrder, OpenWhileUnread, TrueAnswers, InCall,
    Unread, Given, Held, Call, NoCall, Answer, NoAnswer, Live, Sessions, IsAnswer, Told,
    First
<1>7. KnownOutcome'
  BY TransportAssumption DEF TransportInv, Receive, callerVars, history, processVars,
    TypeOK, Quiet, Open, CallInProgress, InOrder, OpenWhileUnread, TrueAnswers, InCall,
    Unread, Given, Held, Call, NoCall, Answer, NoAnswer, Live, Sessions, KnownOutcome,
    IsAnswer, Told, First
<1>8. LeftInDoubt'
  BY TransportAssumption DEF TransportInv, Receive, callerVars, history, processVars,
    TypeOK, Quiet, Open, LeftInDoubt, Live, Unread, Held, Call, Sessions, IsAnswer,
    Told, First
<1> QED
  BY <1>1, <1>2, <1>3, <1>4, <1>5, <1>6, <1>7, <1>8 DEF TransportInv

\* A failed call leaves everything where it is.
LEMMA FailKeepsInv ==
  ASSUME TransportInv, Fail
  PROVE  TransportInv'
<1>1. TypeOK'
  <2>1. session \in Sessions
    BY DEF TransportInv, Fail, CallInProgress
  <2>2. answers' \in [Sessions -> SUBSET Answer]
    BY <2>1 DEF TransportInv, Fail, TypeOK
  <2> QED
    BY <2>2 DEF TransportInv, Fail, TypeOK, history, processVars
<1>2. Quiet'
  BY TransportAssumption DEF TransportInv, Fail, callerVars, history, processVars,
    TypeOK, Quiet, Open, Live, Sessions, Signalled, IsAnswer, First
<1>3. CallInProgress'
  BY TransportAssumption DEF TransportInv, Fail, callerVars, history, processVars,
    TypeOK, Quiet, Open, CallInProgress, InCall, Call, NoCall, Sessions, Signalled,
    IsAnswer, First
<1>4. InOrder'
  BY TransportAssumption DEF TransportInv, Fail, callerVars, history, processVars,
    TypeOK, Quiet, Open, CallInProgress, InOrder, InCall, Unread, Given, Held, Call,
    NoCall, Answer, NoAnswer, Sessions, Signalled, IsAnswer, First
<1>5. OpenWhileUnread'
  BY TransportAssumption DEF TransportInv, Fail, callerVars, history, processVars,
    TypeOK, Quiet, Open, CallInProgress, InOrder, OpenWhileUnread, InCall, Unread, Held,
    Call, NoCall, Live, Sessions, KnownOutcome, Signalled, IsAnswer, First
<1>6. TrueAnswers'
  BY TransportAssumption DEF TransportInv, Fail, callerVars, history, processVars,
    TypeOK, Quiet, Open, CallInProgress, InOrder, OpenWhileUnread, TrueAnswers, InCall,
    Unread, Given, Held, Call, NoCall, Answer, NoAnswer, Live, Sessions, Signalled,
    IsAnswer, First
<1>7. KnownOutcome'
  BY TransportAssumption DEF TransportInv, Fail, callerVars, history, processVars,
    TypeOK, Quiet, Open, CallInProgress, InOrder, OpenWhileUnread, TrueAnswers, InCall,
    Unread, Given, Held, Call, NoCall, Answer, NoAnswer, Live, Sessions, KnownOutcome,
    Signalled, IsAnswer, First
<1>8. LeftInDoubt'
  BY TransportAssumption DEF TransportInv, Fail, callerVars, history, processVars,
    TypeOK, Quiet, Open, LeftInDoubt, Live, Unread, Held, Call, Sessions, Signalled,
    IsAnswer, First
<1> QED
  BY <1>1, <1>2, <1>3, <1>4, <1>5, <1>6, <1>7, <1>8 DEF TransportInv

\* The handler kills its process.
LEMMA KillKeepsInv ==
  ASSUME TransportInv, Kill
  PROVE  TransportInv'
<1>1. TypeOK'
  BY TransportAssumption DEF TransportInv, Kill, callerVars, history, processVars,
    TypeOK, Call, NoCall, Answer, NoAnswer, Sessions, CallInProgress, InCall, Signalled,
    Dropped
<1>2. Quiet'
  BY TransportAssumption DEF TransportInv, Kill, callerVars, history, processVars,
    TypeOK, Quiet, Open, Live, Sessions, Signalled, Dropped
<1>3. CallInProgress'
  BY TransportAssumption DEF TransportInv, Kill, callerVars, history, processVars,
    TypeOK, Quiet, Open, CallInProgress, InCall, Call, NoCall, Sessions, Signalled,
    Dropped
<1>4. InOrder'
  BY TransportAssumption DEF TransportInv, Kill, callerVars, history, processVars,
    TypeOK, Quiet, Open, CallInProgress, InOrder, InCall, Unread, Given, Held, Call,
    NoCall, Answer, NoAnswer, Sessions, Signalled, Dropped
<1>5. OpenWhileUnread'
  BY TransportAssumption DEF TransportInv, Kill, callerVars, history, processVars,
    TypeOK, Quiet, Open, CallInProgress, InOrder, OpenWhileUnread, InCall, Unread, Held,
    Call, NoCall, Live, Sessions, KnownOutcome, Signalled, Dropped
<1>6. TrueAnswers'
  BY TransportAssumption DEF TransportInv, Kill, callerVars, history, processVars,
    TypeOK, Quiet, Open, CallInProgress, InOrder, OpenWhileUnread, TrueAnswers, InCall,
    Unread, Given, Held, Call, NoCall, Answer, NoAnswer, Live, Sessions, Signalled,
    Dropped
<1>7. KnownOutcome'
  BY TransportAssumption DEF TransportInv, Kill, callerVars, history, processVars,
    TypeOK, Quiet, Open, CallInProgress, TrueAnswers, InCall, Given, Held, Call,
    KnownOutcome, Signalled, Dropped
<1>8. LeftInDoubt'
  BY TransportAssumption DEF TransportInv, Kill, callerVars, history, processVars,
    TypeOK, Quiet, Open, LeftInDoubt, Live, Unread, Held, Call, Sessions, Signalled,
    Dropped
<1> QED
  BY <1>1, <1>2, <1>3, <1>4, <1>5, <1>6, <1>7, <1>8 DEF TransportInv

\* Its process is gone when the caller learns of it.
LEMMA RaiseTransportKeepsInv ==
  ASSUME TransportInv, RaiseTransport
  PROVE  TransportInv'
<1>1. TypeOK'
  BY TransportAssumption DEF TransportInv, TypeOK, callerVars, history, processVars,
    RaiseTransport, Lost, Dropped, NoCall, CallInProgress, InCall, Call, Reaped
<1>2. Quiet'
  BY TransportAssumption DEF TransportInv, RaiseTransport, callerVars, history,
    processVars, TypeOK, Quiet, Open, Live, Sessions, Lost, Reaped, Dropped
<1>3. CallInProgress'
  <2>1. \A r \in Requests : status[r] = "sent" => r = call.request
    BY DEF TransportInv, CallInProgress
  <2>2. \A r \in Requests : status'[r] # "sent"
    BY <2>1 DEF TransportInv, TypeOK, RaiseTransport, Lost
  <2>3. place' = "closed" /\ armed' = FALSE
    BY DEF RaiseTransport
  <2> QED
    BY <2>2, <2>3 DEF TransportInv, CallInProgress, InCall
<1>4. InOrder'
  BY TransportAssumption DEF TransportInv, RaiseTransport, callerVars, history,
    processVars, TypeOK, Quiet, Open, CallInProgress, InOrder, InCall, Unread, Given,
    Held, Call, NoCall, Answer, NoAnswer, Sessions, Lost, Reaped, Dropped
<1>5. OpenWhileUnread'
  BY TransportAssumption DEF TransportInv, RaiseTransport, callerVars, history,
    processVars, TypeOK, Quiet, Open, CallInProgress, InOrder, OpenWhileUnread, InCall,
    Unread, Held, Call, NoCall, Live, Sessions, KnownOutcome, Lost, Reaped, Dropped
<1>6. TrueAnswers'
  BY TransportAssumption DEF TransportInv, RaiseTransport, callerVars, history,
    processVars, TypeOK, Quiet, Open, CallInProgress, InOrder, OpenWhileUnread,
    TrueAnswers, InCall, Unread, Given, Held, Call, NoCall, Answer, NoAnswer, Live,
    Sessions, Lost, Reaped, Dropped
<1>7. KnownOutcome'
  BY TransportAssumption DEF TransportInv, RaiseTransport, callerVars, history,
    processVars, TypeOK, Quiet, Open, CallInProgress, InOrder, OpenWhileUnread,
    TrueAnswers, InCall, Unread, Given, Held, Call, NoCall, Answer, NoAnswer, Live,
    Sessions, KnownOutcome, Lost, Reaped, Dropped
<1>8. LeftInDoubt'
  BY TransportAssumption DEF TransportInv, RaiseTransport, callerVars, history,
    processVars, TypeOK, Quiet, Open, LeftInDoubt, Live, Unread, Held, Call, Sessions,
    Lost, Reaped
<1> QED
  BY <1>1, <1>2, <1>3, <1>4, <1>5, <1>6, <1>7, <1>8 DEF TransportInv

\* The handler gives up waiting.
LEMMA WaitInVainKeepsInv ==
  ASSUME TransportInv, WaitInVain
  PROVE  TransportInv'
<1>1. TypeOK'
  BY TransportAssumption DEF TransportInv, WaitInVain, callerVars, history, processVars,
    TypeOK, Call, NoCall, Answer, NoAnswer, Sessions, CallInProgress, InCall, Escape,
    Lost
<1>2. Quiet'
  BY TransportAssumption DEF TransportInv, WaitInVain, callerVars, history, processVars,
    TypeOK, Quiet, Open, Live, Sessions, Escape, Lost
<1>3. CallInProgress'
  BY TransportAssumption DEF TransportInv, WaitInVain, callerVars, history, processVars,
    TypeOK, Quiet, Open, CallInProgress, InCall, Call, NoCall, Sessions, Escape, Lost
<1>4. InOrder'
  BY TransportAssumption DEF TransportInv, WaitInVain, callerVars, history, processVars,
    TypeOK, Quiet, Open, CallInProgress, InOrder, InCall, Unread, Given, Held, Call,
    NoCall, Answer, NoAnswer, Sessions, Escape, Lost
<1>5. OpenWhileUnread'
  BY TransportAssumption DEF TransportInv, WaitInVain, callerVars, history, processVars,
    TypeOK, Quiet, Open, CallInProgress, InOrder, OpenWhileUnread, InCall, Unread, Held,
    Call, NoCall, Live, Sessions, KnownOutcome, Escape, Lost
<1>6. TrueAnswers'
  BY TransportAssumption DEF TransportInv, WaitInVain, callerVars, history, processVars,
    TypeOK, Quiet, Open, CallInProgress, InOrder, OpenWhileUnread, TrueAnswers, InCall,
    Unread, Given, Held, Call, NoCall, Answer, NoAnswer, Live, Sessions, Escape, Lost
<1>7. KnownOutcome'
  BY TransportAssumption DEF TransportInv, WaitInVain, callerVars, history, processVars,
    TypeOK, Quiet, Open, CallInProgress, TrueAnswers, InCall, Given, Held, Call,
    KnownOutcome, Escape, Lost
<1>8. LeftInDoubt'
  BY TransportAssumption DEF TransportInv, WaitInVain, callerVars, history, processVars,
    TypeOK, Quiet, Open, LeftInDoubt, Live, Unread, Held, Call, Sessions, Escape, Lost
<1> QED
  BY <1>1, <1>2, <1>3, <1>4, <1>5, <1>6, <1>7, <1>8 DEF TransportInv

\* An interrupted call leaves its request unknown and its line, or part of it, behind.
LEMMA InterruptKeepsInv ==
  ASSUME TransportInv, Interrupt
  PROVE  TransportInv'
<1>1. TypeOK'
  <2>1. session \in Sessions /\ call.request \in Requests /\ call \in Call
    BY DEF TransportInv, Interrupt, CallInProgress, InCall, Call
  <2>2. status' \in [Requests -> {"free", "sent", "unknown", "done"}]
    BY <2>1 DEF TransportInv, Interrupt, Escape, TypeOK, Lost
  <2>3. answers' \in [Sessions -> SUBSET Answer]
    BY <2>1 DEF TransportInv, Interrupt, TypeOK
  <2>4. torn' \in [Sessions -> Call \cup {NoCall}]
    <3>1. torn[session] \in Call \cup {NoCall}
      BY <2>1 DEF TransportInv, TypeOK
    <3>2. torn[session] # NoCall => [torn[session] EXCEPT !.op = "garbled"] \in Call
      BY <3>1 DEF Call
    <3> QED
      BY <2>1, <3>1, <3>2 DEF TransportInv, Interrupt, TypeOK
  <2>5. child' \in [Sessions -> {"none", "alive", "signalled", "dead"}]
    BY <2>1 DEF TransportInv, Interrupt, TypeOK, Signalled
  <2>6. firing' \subseteq Sessions
    BY <2>1 DEF TransportInv, Interrupt, Escape, TypeOK
  <2>7. /\ call' = NoCall /\ place' = "idle" /\ armed' = FALSE /\ NoCall.op # "garbled"
        /\ UNCHANGED <<session, ids, history, stdin, running, reply, applied>>
    BY DEF Interrupt, Escape, NoCall
  <2> QED
    BY <2>2, <2>3, <2>4, <2>5, <2>6, <2>7 DEF TransportInv, TypeOK, history
<1>2. Quiet'
  BY TransportAssumption DEF TransportInv, Interrupt, callerVars, history, processVars,
    TypeOK, Quiet, Open, Live, Sessions, Lost, First, Escape, Signalled
<1>3. CallInProgress'
  <2>1. \A r \in Requests : status[r] = "sent" => r = call.request
    BY DEF TransportInv, CallInProgress
  <2>2. status' = Lost /\ place' = "idle" /\ armed' = FALSE /\ session' = session
    BY DEF Interrupt, Escape
  <2>3. \A r \in Requests : status'[r] # "sent"
    BY <2>1, <2>2 DEF TransportInv, TypeOK, Lost
  <2>4. session \in Sessions
    BY DEF TransportInv, Interrupt, CallInProgress
  <2> QED
    BY <2>2, <2>3, <2>4 DEF CallInProgress, InCall
<1>4. InOrder'
  BY TransportAssumption DEF TransportInv, TypeOK, callerVars, history, processVars,
    Interrupt, Lost, First, Quiet, Open, CallInProgress, InOrder, Unread, Given, Held,
    InCall, Call, NoCall, Escape
<1>5. OpenWhileUnread'
  BY TransportAssumption DEF TransportInv, Interrupt, callerVars, history, processVars,
    TypeOK, Quiet, Open, CallInProgress, InOrder, OpenWhileUnread, InCall, Unread, Held,
    Call, NoCall, Live, Sessions, KnownOutcome, Lost, First, Escape, Signalled
<1>6. TrueAnswers'
  BY TransportAssumption DEF TransportInv, Interrupt, callerVars, history, processVars,
    TypeOK, Quiet, Open, CallInProgress, InOrder, OpenWhileUnread, TrueAnswers, InCall,
    Unread, Given, Held, Call, NoCall, Answer, NoAnswer, Live, Sessions, Lost, First,
    Escape
<1>7. KnownOutcome'
  BY TransportAssumption DEF TransportInv, Interrupt, callerVars, history, processVars,
    TypeOK, Quiet, Open, CallInProgress, InOrder, OpenWhileUnread, TrueAnswers, InCall,
    Unread, Given, Held, Call, NoCall, Answer, NoAnswer, Live, Sessions, KnownOutcome,
    Lost, First, Escape
<1>8. LeftInDoubt'
  BY TransportAssumption DEF TransportInv, Interrupt, callerVars, history, processVars,
    TypeOK, Quiet, Open, LeftInDoubt, Live, Unread, Held, Call, Sessions, Escape, Lost,
    First
<1> QED
  BY <1>1, <1>2, <1>3, <1>4, <1>5, <1>6, <1>7, <1>8 DEF TransportInv

\* Closing waits for the process.
LEMMA CloseKeepsInv ==
  ASSUME TransportInv, Close
  PROVE  TransportInv'
<1>1. TypeOK'
  BY TransportAssumption DEF TransportInv, TypeOK, callerVars, history, processVars,
    Close, Dropped, Quiet, Open, CallInProgress, Reaped, Signalled
<1>2. Quiet'
  BY TransportAssumption DEF TransportInv, Close, callerVars, history, processVars,
    TypeOK, Quiet, Open, Live, Sessions, Dropped, Reaped, Signalled
<1>3. CallInProgress'
  BY TransportAssumption DEF TransportInv, Close, callerVars, history, processVars,
    TypeOK, Quiet, Open, CallInProgress, InCall, Call, NoCall, Sessions, Dropped,
    Reaped, Signalled
<1>4. InOrder'
  BY TransportAssumption DEF TransportInv, Close, callerVars, history, processVars,
    TypeOK, Quiet, Open, CallInProgress, InOrder, InCall, Unread, Given, Held, Call,
    NoCall, Answer, NoAnswer, Sessions, Dropped, Reaped, Signalled
<1>5. OpenWhileUnread'
  BY TransportAssumption DEF TransportInv, Close, callerVars, history, processVars,
    TypeOK, Quiet, Open, CallInProgress, InOrder, OpenWhileUnread, InCall, Unread, Held,
    Call, NoCall, Live, Sessions, KnownOutcome, Dropped, Reaped, Signalled
<1>6. TrueAnswers'
  BY TransportAssumption DEF TransportInv, Close, callerVars, history, processVars,
    TypeOK, Quiet, Open, CallInProgress, InOrder, OpenWhileUnread, TrueAnswers, InCall,
    Unread, Given, Held, Call, NoCall, Answer, NoAnswer, Live, Sessions, Dropped,
    Reaped, Signalled
<1>7. KnownOutcome'
  BY TransportAssumption DEF TransportInv, Close, callerVars, history, processVars,
    TypeOK, Quiet, Open, CallInProgress, InOrder, OpenWhileUnread, TrueAnswers, InCall,
    Unread, Given, Held, Call, NoCall, Answer, NoAnswer, Live, Sessions, KnownOutcome,
    Dropped, Reaped, Signalled
<1>8. LeftInDoubt'
  BY TransportAssumption DEF TransportInv, Close, callerVars, history, processVars,
    TypeOK, Quiet, Open, LeftInDoubt, Live, Unread, Held, Call, Sessions, Dropped,
    Reaped, Signalled
<1> QED
  BY <1>1, <1>2, <1>3, <1>4, <1>5, <1>6, <1>7, <1>8 DEF TransportInv

-----------------------------------------------------------------------------
(* The timer and the native process.                                       *)

\* The timer runs out.
LEMMA RunOutKeepsInv ==
  ASSUME TransportInv, RunOut
  PROVE  TransportInv'
<1>1. TypeOK'
  <2>1. session \in Sessions
    BY DEF TransportInv, RunOut, CallInProgress, InCall
  <2>2. armed' \in BOOLEAN
    BY DEF RunOut
  <2>3. firing' \subseteq Sessions
    BY <2>1 DEF TransportInv, RunOut, TypeOK
  <2> QED
    BY <2>2, <2>3 DEF TransportInv, RunOut, TypeOK, history, processVars
<1>2. Quiet'
  BY TransportAssumption DEF TransportInv, RunOut, callerVars, history, processVars,
    TypeOK, Quiet, Open, Live, Sessions
<1>3. CallInProgress'
  BY TransportAssumption DEF TransportInv, RunOut, callerVars, history, processVars,
    TypeOK, Quiet, Open, CallInProgress, InCall, Call, NoCall, Sessions
<1>4. InOrder'
  BY TransportAssumption DEF TransportInv, RunOut, callerVars, history, processVars,
    TypeOK, Quiet, Open, CallInProgress, InOrder, InCall, Unread, Given, Held, Call,
    NoCall, Answer, NoAnswer, Sessions
<1>5. OpenWhileUnread'
  BY TransportAssumption DEF TransportInv, RunOut, callerVars, history, processVars,
    TypeOK, Quiet, Open, CallInProgress, InOrder, OpenWhileUnread, InCall, Unread, Held,
    Call, NoCall, Live, Sessions, KnownOutcome
<1>6. TrueAnswers'
  BY TransportAssumption DEF TransportInv, RunOut, callerVars, history, processVars,
    TypeOK, Quiet, Open, CallInProgress, InOrder, OpenWhileUnread, TrueAnswers, InCall,
    Unread, Given, Held, Call, NoCall, Answer, NoAnswer, Live, Sessions
<1>7. KnownOutcome'
  BY TransportAssumption DEF TransportInv, RunOut, callerVars, history, processVars,
    TypeOK, Quiet, Open, CallInProgress, InOrder, OpenWhileUnread, TrueAnswers, InCall,
    Unread, Given, Held, Call, NoCall, Answer, NoAnswer, Live, Sessions, KnownOutcome
<1>8. LeftInDoubt'
  BY TransportAssumption DEF TransportInv, RunOut, callerVars, history, processVars,
    TypeOK, Quiet, Open, LeftInDoubt, Live, Unread, Held, Call, Sessions
<1> QED
  BY <1>1, <1>2, <1>3, <1>4, <1>5, <1>6, <1>7, <1>8 DEF TransportInv

\* A late timer kills a process that is gone, or one whose call has failed.
LEMMA TimerKillKeepsInv ==
  ASSUME TransportInv, NEW n \in Sessions, TimerKill(n)
  PROVE  TransportInv'
<1>1. TypeOK'
  BY TransportAssumption DEF TransportInv, TimerKill, callerVars, history, processVars,
    TypeOK, Call, NoCall, Answer, NoAnswer, Sessions, Signalled
<1>2. Quiet'
  BY TransportAssumption DEF TransportInv, TimerKill, callerVars, history, processVars,
    TypeOK, Quiet, Open, Live, Sessions, Signalled
<1>3. CallInProgress'
  BY TransportAssumption DEF TransportInv, TimerKill, callerVars, history, processVars,
    TypeOK, Quiet, Open, CallInProgress, InCall, Call, NoCall, Sessions, Signalled
<1>4. InOrder'
  BY TransportAssumption DEF TransportInv, TimerKill, callerVars, history, processVars,
    TypeOK, Quiet, Open, CallInProgress, InOrder, InCall, Unread, Given, Held, Call,
    NoCall, Answer, NoAnswer, Sessions, Signalled
<1>5. OpenWhileUnread'
  BY TransportAssumption DEF TransportInv, TimerKill, callerVars, history, processVars,
    TypeOK, Quiet, Open, CallInProgress, InOrder, OpenWhileUnread, InCall, Unread, Held,
    Call, NoCall, Live, Sessions, KnownOutcome, Signalled
<1>6. TrueAnswers'
  BY TransportAssumption DEF TransportInv, TimerKill, callerVars, history, processVars,
    TypeOK, Quiet, Open, CallInProgress, InOrder, OpenWhileUnread, TrueAnswers, InCall,
    Unread, Given, Held, Call, NoCall, Answer, NoAnswer, Live, Sessions, Signalled
<1>7. KnownOutcome'
  BY TransportAssumption DEF TransportInv, TimerKill, callerVars, history, processVars,
    TypeOK, Quiet, Open, CallInProgress, InOrder, OpenWhileUnread, TrueAnswers, InCall,
    Unread, Given, Held, Call, NoCall, Answer, NoAnswer, Live, Sessions, KnownOutcome,
    Signalled
<1>8. LeftInDoubt'
  BY TransportAssumption DEF TransportInv, TimerKill, callerVars, history, processVars,
    TypeOK, Quiet, Open, LeftInDoubt, Live, Unread, Held, Call, Sessions, Signalled
<1> QED
  BY <1>1, <1>2, <1>3, <1>4, <1>5, <1>6, <1>7, <1>8 DEF TransportInv

\* A process left behind moves nothing in the pipes of the backend in use, and what it
\* applies is in doubt.
LEMMA PipesApart ==
  ASSUME TransportInv, UNCHANGED callerVars, child'[session] = child[session],
         stdin'[session] = stdin[session], torn'[session] = torn[session],
         running'[session] = running[session], reply'[session] = reply[session],
         answers'[session] = answers[session],
         \A r \in Requests \ doubtful : applied'[r] = applied[r]
  PROVE  InOrder' /\ OpenWhileUnread' /\ TrueAnswers'
<1>1. /\ Unread(session)' = Unread(session) /\ Given(session)' = Given(session)
      /\ Live(session)' = Live(session) /\ session' = session
  BY DEF callerVars, Unread, Given, Live
<1>2. InOrder'
  BY <1>1 DEF TransportInv, InOrder, callerVars
<1>3. OpenWhileUnread'
  <2>1. place # "closed" => Unread(session) \subseteq Call \cup {NoCall}
    BY DEF TransportInv, TypeOK, CallInProgress, Unread, Held
  <2>2. \A c \in Call \cup {NoCall} : c.op = "apply" => c.request \in Requests
    BY DEF Call, NoCall
  <2>3. place = "writing" => call \in Call
    BY DEF TransportInv, CallInProgress, InCall
  <2> QED
    BY <1>1, <2>1, <2>2, <2>3 DEF TransportInv, OpenWhileUnread, callerVars, history
<1>4. TrueAnswers'
  <2>1. place = "waiting" => call.request \in Requests
    BY DEF TransportInv, CallInProgress, InCall, Call
  <2> QED
    BY <1>1, <2>1 DEF TransportInv, TrueAnswers, callerVars, history
<1> QED
  BY <1>2, <1>3, <1>4

\* An effect that is not in doubt appears through the backend in use, and is open.
LEMMA EffectIsOpen ==
  ASSUME TransportInv, NEW n \in Sessions, Live(n), NEW c \in Unread(n), c.op = "apply",
         c.request \notin doubtful
  PROVE  /\ n = session /\ place # "closed"
         /\ status[c.request] \in {"sent", "unknown"} /\ applied[c.request] = 0
<1>1. n = session /\ place # "closed"
  BY DEF TransportInv, Quiet, LeftInDoubt
<1> QED
  BY <1>1 DEF TransportInv, OpenWhileUnread

\* The process reads its next line, or at the end what was torn.
LEMMA ReadKeepsInv ==
  ASSUME TransportInv, NEW n \in Sessions, Read(n)
  PROVE  TransportInv'
<1>1. TypeOK'
  BY TransportAssumption DEF TransportInv, TypeOK, callerVars, history, processVars,
    Read, First, Call
<1>2. Quiet'
  <2>1. /\ child[n] = "alive" /\ UNCHANGED <<callerVars, child, reply, answers>>
        /\ \A m \in Sessions \ {n} :
             UNCHANGED <<stdin[m], torn[m], running[m]>>
    BY DEF Read, TransportInv, TypeOK
  <2> QED
    BY <2>1 DEF TransportInv, Quiet, Live, Open, callerVars, history
<1>3. CallInProgress'
  BY TransportAssumption DEF TransportInv, Read, callerVars, history, processVars,
    TypeOK, Quiet, Open, CallInProgress, InCall, Call, NoCall, Sessions, First
<1>4. ASSUME n = session PROVE InOrder'
  <2>1. /\ n = session /\ place # "closed" /\ UNCHANGED callerVars
        /\ running[n] = NoCall /\ reply[n] = NoAnswer
        /\ reply' = reply /\ answers' = answers
    BY <1>4 DEF TransportInv, TypeOK, Read, Quiet, Live
  <2>2. Given(n)' = Given(n)
    BY <2>1 DEF Given
  <2>3. CASE \E c \in First(stdin[n]) :
               /\ running' = [running EXCEPT ![n] = c]
               /\ stdin' = [stdin EXCEPT ![n] = @ \ {c}]
               /\ UNCHANGED torn
    <3>1. PICK c \in stdin[n] :
            /\ running' = [running EXCEPT ![n] = c]
            /\ stdin' = [stdin EXCEPT ![n] = @ \ {c}]
            /\ \A d \in stdin[n] : c.id <= d.id
      BY <2>3 DEF First
    <3>2. /\ torn' = torn /\ running'[n] = c /\ stdin'[n] = stdin[n] \ {c}
          /\ c \in Unread(n) /\ c \in Call /\ stdin[n] \subseteq Call
      BY <2>3, <3>1 DEF TransportInv, TypeOK, Unread
    <3>3. Unread(n)' \subseteq Unread(n)
      BY <3>2 DEF Unread, Held
    <3>4. \A d \in stdin'[n] : c.id < d.id
      BY <2>1, <3>1, <3>2 DEF TransportInv, InOrder, Call
    <3>5. torn'[n] # NoCall =>
            \A e \in stdin'[n] \cup Held(running'[n], NoCall) : e.id < torn'[n].id
      BY <2>1, <3>2 DEF TransportInv, InOrder, Held
    <3> QED
      BY <2>1, <2>2, <3>2, <3>3, <3>4, <3>5 DEF TransportInv, InOrder, callerVars
  <2>4. CASE /\ stdin[n] = {} /\ torn[n] # NoCall /\ place \in {"closing", "abandoned"}
             /\ \E op \in {torn[n].op, "garbled"} :
                  running' = [running EXCEPT ![n] = [torn[n] EXCEPT !.op = op]]
             /\ torn' = [torn EXCEPT ![n] = NoCall]
             /\ UNCHANGED stdin
    <3>1. torn[n] \in Call
      BY <2>4 DEF TransportInv, TypeOK
    <3>2. torn'[n] = NoCall /\ stdin'[n] = {} /\ place' # "waiting" /\ place' # "writing"
      BY <2>1, <2>4 DEF TransportInv, TypeOK, callerVars
    <3>3. running'[n].id = torn[n].id
      BY <2>4, <3>1 DEF TransportInv, TypeOK, Call
    <3>4. torn[n] \in Unread(n) /\ \A c \in Unread(n)' : c.id = torn[n].id
      BY <2>4, <3>2, <3>3 DEF Unread, Held
    <3> QED
      BY <2>1, <2>2, <3>2, <3>4 DEF TransportInv, InOrder, callerVars
  <2> QED
    BY <1>4, <2>3, <2>4 DEF Read
<1>5. OpenWhileUnread'
  <2>1. UNCHANGED <<callerVars, child, applied>>
    BY DEF Read
  <2>2. ASSUME NEW c \in Unread(n)', c.op = "apply"
        PROVE  c \in Unread(n)
    <3>1. CASE \E d \in First(stdin[n]) :
                 /\ running' = [running EXCEPT ![n] = d]
                 /\ stdin' = [stdin EXCEPT ![n] = @ \ {d}]
                 /\ UNCHANGED torn
      BY <2>2, <3>1 DEF TransportInv, TypeOK, First, Unread, Held
    <3>2. CASE /\ torn[n] # NoCall
               /\ \E op \in {torn[n].op, "garbled"} :
                    running' = [running EXCEPT ![n] = [torn[n] EXCEPT !.op = op]]
               /\ torn' = [torn EXCEPT ![n] = NoCall]
               /\ UNCHANGED stdin
      <4>1. torn[n] \in Call
        BY <3>2 DEF TransportInv, TypeOK
      <4>2. \A op \in {torn[n].op, "garbled"} :
              [torn[n] EXCEPT !.op = op].op = "apply" => [torn[n] EXCEPT !.op = op] = torn[n]
        BY <4>1 DEF Call
      <4>3. PICK op \in {torn[n].op, "garbled"} :
              running' = [running EXCEPT ![n] = [torn[n] EXCEPT !.op = op]]
        BY <3>2
      <4>4. running'[n] = [torn[n] EXCEPT !.op = op] /\ torn'[n] = NoCall /\ stdin' = stdin
        BY <3>2, <4>3 DEF TransportInv, TypeOK
      <4> QED
        BY <2>2, <3>2, <4>2, <4>4 DEF Unread, Held
    <3> QED
      BY <3>1, <3>2 DEF Read
  <2>3. CASE n = session
    BY <2>1, <2>2, <2>3 DEF TransportInv, OpenWhileUnread, Live, callerVars, history
  <2>4. CASE n # session
    <3>1. place # "closed" => Unread(session)' = Unread(session)
      BY <2>1, <2>4 DEF Read, TransportInv, TypeOK, CallInProgress, Unread, callerVars
    <3> QED
      BY <2>1, <3>1 DEF TransportInv, OpenWhileUnread, Live, callerVars, history
  <2> QED
    BY <2>3, <2>4
<1>6. TrueAnswers'
  BY TransportAssumption DEF TransportInv, Read, callerVars, history, processVars,
    TypeOK, Quiet, Open, CallInProgress, InOrder, OpenWhileUnread, TrueAnswers, InCall,
    Unread, Given, Held, Call, NoCall, Answer, NoAnswer, Live, Sessions, First
<1>7. KnownOutcome'
  BY TransportAssumption DEF TransportInv, Read, callerVars, history, processVars,
    TypeOK, Quiet, Open, CallInProgress, InOrder, OpenWhileUnread, TrueAnswers, InCall,
    Unread, Given, Held, Call, NoCall, Answer, NoAnswer, Live, Sessions, KnownOutcome,
    First
<1>8. LeftInDoubt'
  <2>1. Unread(n)' \subseteq Unread(n) \cup {c \in Call : \E d \in Unread(n) :
                                  c.op \in {d.op, "garbled"} /\ c.request = d.request}
    BY <1>1 DEF TransportInv, TypeOK, Read, First, Unread, Held, Call
  <2>2. \A m \in Sessions \ {n} : Unread(m)' = Unread(m)
    BY DEF TransportInv, TypeOK, Read, Unread
  <2>3. \A m \in left : m \in Sessions
    BY DEF TransportInv, TypeOK
  <2>4. left' = left /\ doubtful' = doubtful /\ \A m \in Sessions : Live(m)' = Live(m)
    BY DEF Read, callerVars, history, Live
  <2> QED
    BY <2>1, <2>2, <2>3, <2>4 DEF TransportInv, LeftInDoubt
<1>9. ASSUME n # session PROVE InOrder'
  <2>1. n \in left /\ session \in Sessions
    BY TransportAssumption, <1>9 DEF Read, Live, TransportInv, TypeOK, Quiet, Sessions
  <2>2. /\ stdin'[session] = stdin[session] /\ torn'[session] = torn[session]
        /\ running'[session] = running[session]
    BY <1>9, <2>1 DEF Read, TransportInv, TypeOK
  <2> QED
    BY <2>2, PipesApart DEF Read
<1> QED
  BY <1>1, <1>2, <1>3, <1>4, <1>5, <1>6, <1>7, <1>8, <1>9 DEF TransportInv

\* It executes what it has read: the request was open and asked for once, so its effect
\* is the first, and the answer tells of it.
LEMMA ExecuteKeepsInv ==
  ASSUME TransportInv, NEW n \in Sessions, Execute(n)
  PROVE  TransportInv'
<1>1. TypeOK'
  <2>1. running[n] \in Call
    BY DEF TransportInv, TypeOK, Execute
  <2>2. reply' \in [Sessions -> Answer \cup {NoAnswer}]
    <3>1. PICK kind \in {"result", "error", "foreign"},
               found \in {TRUE, FALSE, applied[running[n].request] > 0} :
            Replies(n, kind, found)
      BY Zenon DEF Execute
    <3>0. (applied[running[n].request] > 0) \in BOOLEAN
      OBVIOUS
    <3>2. found \in BOOLEAN
      BY <3>0, <3>1
    <3> DEFINE a == [id |-> running[n].id, kind |-> kind, found |-> found]
    <3>3. a \in Answer /\ reply' = [reply EXCEPT ![n] = a]
      BY <2>1, <3>1, <3>2 DEF Call, Answer, Replies
    <3> HIDE DEF a
    <3> QED
      BY <3>3 DEF TransportInv, TypeOK
  <2>3. running' \in [Sessions -> Call \cup {NoCall}]
    BY DEF TransportInv, TypeOK, Execute, Replies
  <2>4. applied' \in [Requests -> Nat]
    <3>1. running[n].request \in Requests
      BY <2>1 DEF Call
    <3>2. applied' = applied \/ applied' = [applied EXCEPT ![running[n].request] = @ + 1]
      BY DEF Execute
    <3> QED
      BY <3>1, <3>2 DEF TransportInv, TypeOK
  <2> QED
    BY <2>2, <2>3, <2>4 DEF TransportInv, Execute, TypeOK, callerVars, history
<1>2. Quiet'
  <2>1. /\ Live(n) /\ UNCHANGED <<callerVars, child, stdin, torn, answers>>
        /\ \A m \in Sessions \ {n} : running'[m] = running[m] /\ reply'[m] = reply[m]
    BY DEF Execute, Replies, TransportInv, TypeOK
  <2> QED
    BY <2>1 DEF TransportInv, Quiet, Live, Open, callerVars, history
<1>3. CallInProgress'
  BY TransportAssumption DEF TransportInv, Execute, callerVars, history, processVars,
    TypeOK, Quiet, Open, CallInProgress, InCall, Call, NoCall, Sessions, Replies, Live
<1>4. ASSUME n = session PROVE InOrder'
  BY <1>4, TransportAssumption DEF TransportInv, Execute, callerVars, history, processVars,
    TypeOK, Quiet, Open, CallInProgress, InOrder, InCall, Unread, Given, Held, Call,
    NoCall, Answer, NoAnswer, Sessions, Replies, Live
<1>5. ASSUME n = session PROVE OpenWhileUnread'
  <2> DEFINE U == Unread(n) \cup (IF place = "writing" THEN {call} ELSE {})
  <2>1. /\ n = session /\ place # "closed" /\ Live(n)
        /\ running[n] \in Call /\ running[n] # NoCall
    BY <1>5 DEF TransportInv, TypeOK, Execute, Quiet, Live
  <2>2. /\ running' = [running EXCEPT ![n] = NoCall]
        /\ UNCHANGED <<callerVars, child, stdin, torn>>
    BY DEF Execute, Replies
  <2>3. /\ running'[n] = NoCall /\ Unread(n)' \subseteq Unread(n)
        /\ U' \subseteq U /\ running[n] \in U
    BY <2>1, <2>2 DEF TransportInv, TypeOK, Unread, Held, callerVars
  <2>4. U \subseteq Call /\ \A c \in U' : c # running[n]
    BY <2>1, <2>2, <2>3 DEF TransportInv, TypeOK, InOrder, CallInProgress, InCall,
      Unread, Held, Call, NoCall, callerVars
  <2>5. \A c \in {d \in U : d.op = "apply" /\ d.request \notin doubtful} :
          /\ status[c.request] \in {"sent", "unknown"}
          /\ applied[c.request] = 0
          /\ \A d \in U : d.op = "apply" /\ d.request = c.request => d = c
    BY <2>1 DEF TransportInv, OpenWhileUnread
  <2>6. \/ applied' = applied
        \/ /\ running[n].op = "apply"
           /\ applied' = [applied EXCEPT ![running[n].request] = @ + 1]
    BY DEF Execute
  <2>7. U' = (Unread(session) \cup (IF place = "writing" THEN {call} ELSE {}))'
    BY <2>1, <2>2 DEF callerVars
  <2> HIDE DEF U
  <2>8. ASSUME NEW c \in U', c.op = "apply", c.request \notin doubtful
        PROVE  applied'[c.request] = 0
    <3>1. c \in U /\ c # running[n] /\ applied[c.request] = 0
      BY <2>3, <2>4, <2>5, <2>8
    <3>2. c.request \in Requests
      BY <2>4, <3>1 DEF Call
    <3>3. running[n].op = "apply" => running[n].request # c.request
      BY <2>3, <2>5, <2>8, <3>1
    <3> QED
      BY <2>6, <3>1, <3>2, <3>3 DEF TransportInv, TypeOK
  <2>9. status' = status /\ doubtful' = doubtful
    BY <2>2 DEF callerVars, history
  <2> QED
    BY <2>3, <2>5, <2>7, <2>8, <2>9 DEF OpenWhileUnread
<1>6. ASSUME n = session PROVE TrueAnswers'
  <2>1. /\ n = session /\ place # "closed" /\ Live(n)
        /\ running[n] \in Call /\ running[n] # NoCall
        /\ reply \in [Sessions -> Answer \cup {NoAnswer}]
    BY <1>6 DEF TransportInv, TypeOK, Execute, Quiet, Live
  <2> SUFFICES ASSUME place = "waiting", call.request \notin doubtful,
                      NEW a \in Given(n)', a.id = call.id, a.kind # "foreign"
               PROVE  /\ call.op = "apply"
                           => (a.kind = "result" <=> applied'[call.request] = 1)
                      /\ call.op = "look" /\ a.kind = "result"
                           => (a.found <=> applied'[call.request] = 1)
    <3>1. n = session' /\ call' = call /\ place' = place /\ doubtful' = doubtful
      BY <2>1 DEF Execute, callerVars, history
    <3> QED
      BY <3>1 DEF TrueAnswers
  <2>2. /\ running[n] \in Unread(n) /\ reply[n] = NoAnswer
        /\ call \in Call /\ call.id = ids
    BY <2>1 DEF TransportInv, Unread, Held, CallInProgress, InCall, InOrder
  <2>3. \A b \in Given(n) : b.id < running[n].id /\ running[n].id <= ids
    BY <2>1, <2>2 DEF TransportInv, InOrder
  <2>4. \A b \in Given(n) : b.id # call.id
    BY <2>1, <2>2, <2>3 DEF Call, TransportInv, TypeOK, Given, Held, Answer
  <2>5. Given(n)' \subseteq Given(n) \cup {reply'[n]}
    BY <2>2 DEF Given, Held, Execute, Replies
  <2>6. a = reply'[n]
    BY <2>2, <2>4, <2>5
  <2> DEFINE r == running[n].request
  <2>7. /\ a.id = running[n].id
        /\ \/ /\ running[n].op = "apply" /\ a.kind = "result"
              /\ applied' = [applied EXCEPT ![r] = @ + 1]
           \/ /\ running[n].op = "look" /\ a.kind = "result"
              /\ a.found <=> applied[r] > 0
              /\ applied' = applied
           \/ /\ running[n].op # "garbled" /\ a.kind = "error"
              /\ applied' = applied
    <3> DEFINE f == applied[r] > 0
    <3>1. f \in BOOLEAN
      OBVIOUS
    <3> HIDE DEF f
    <3>2. \A found \in BOOLEAN, kind \in {"result", "error", "foreign"} :
            Replies(n, kind, found)
              => a.id = running[n].id /\ a.kind = kind /\ a.found = found
      BY <2>1, <2>6 DEF Replies
    <3>3. \/ /\ running[n].op = "apply" /\ applied' = [applied EXCEPT ![r] = @ + 1]
             /\ Replies(n, "result", TRUE)
          \/ running[n].op = "look" /\ Replies(n, "result", f) /\ applied' = applied
          \/ running[n].op # "garbled" /\ Replies(n, "error", FALSE) /\ applied' = applied
          \/ running[n].op = "garbled" /\ Replies(n, "foreign", FALSE)
      BY Zenon DEF Execute, f
    <3>4. \/ /\ running[n].op = "apply" /\ applied' = [applied EXCEPT ![r] = @ + 1]
             /\ a.id = running[n].id /\ a.kind = "result"
          \/ /\ running[n].op = "look" /\ applied' = applied
             /\ a.id = running[n].id /\ a.kind = "result" /\ a.found = f
          \/ /\ running[n].op # "garbled" /\ applied' = applied
             /\ a.id = running[n].id /\ a.kind = "error"
      <4> HIDE DEF r
      <4> QED
        BY <3>1, <3>2, <3>3
    <3>5. a.found = f => (a.found <=> applied[r] > 0)
      BY Zenon DEF f
    <3> QED
      BY <3>4, <3>5
  <2>8. running[n] = call
    BY <2>1, <2>2, <2>7 DEF TransportInv, InOrder
  <2>9. /\ r = call.request /\ call.request \in Requests
        /\ applied[call.request] \in Nat /\ applied[call.request] <= 1
        /\ call.op = "apply" => applied[call.request] = 0
    BY <2>1, <2>2, <2>8 DEF Call, TransportInv, TypeOK, KnownOutcome, OpenWhileUnread
  <2> HIDE DEF r
  <2> QED
    BY <2>7, <2>8, <2>9 DEF TransportInv, TypeOK
<1>7. KnownOutcome'
  <2>1. running[n] \in Unread(n) /\ running[n] \in Call
    BY DEF Execute, TransportInv, TypeOK, Unread, Held
  <2>2. \/ applied' = applied
        \/ /\ running[n].op = "apply"
           /\ applied' = [applied EXCEPT ![running[n].request] = @ + 1]
    BY DEF Execute
  <2>3. /\ running[n].op = "apply" /\ running[n].request \notin doubtful
        => /\ status[running[n].request] \in {"sent", "unknown"}
           /\ applied[running[n].request] = 0
    BY <2>1, EffectIsOpen DEF Execute
  <2>4. status' = status /\ doubtful' = doubtful
    BY DEF Execute, callerVars, history
  <2> QED
    BY <2>1, <2>2, <2>3, <2>4 DEF TransportInv, TypeOK, KnownOutcome, Call
<1>8. LeftInDoubt'
  BY TransportAssumption DEF TransportInv, Execute, callerVars, history, TypeOK,
    LeftInDoubt, Live, Unread, Held, Sessions, Replies
<1>9. ASSUME n # session PROVE InOrder' /\ OpenWhileUnread' /\ TrueAnswers'
  <2>1. n \in left /\ session \in Sessions
    BY TransportAssumption, <1>9 DEF Execute, Live, TransportInv, TypeOK, Quiet, Sessions
  <2>2. running'[session] = running[session] /\ reply'[session] = reply[session]
    BY <1>9, <2>1 DEF Execute, Replies, TransportInv, TypeOK
  <2>3. running[n] \in Unread(n) /\ running[n] \in Call
    BY DEF Execute, TransportInv, TypeOK, Unread, Held
  <2>4. running[n].op = "apply" => running[n].request \in doubtful
    BY <2>3, <1>9, EffectIsOpen DEF Execute
  <2>5. \A r \in Requests \ doubtful : applied'[r] = applied[r]
    BY <2>3, <2>4 DEF Execute, TransportInv, TypeOK
  <2> QED
    BY <2>2, <2>5, PipesApart DEF Execute
<1> QED
  BY <1>1, <1>2, <1>3, <1>4, <1>5, <1>6, <1>7, <1>8, <1>9 DEF TransportInv

\* Its answers come in the order of the calls.
LEMMA RespondKeepsInv ==
  ASSUME TransportInv, NEW n \in Sessions, Respond(n)
  PROVE  TransportInv'
<1>1. TypeOK'
  BY TransportAssumption DEF TransportInv, Respond, callerVars, history, processVars,
    TypeOK, Call, NoCall, Answer, NoAnswer, Sessions
<1>2. Quiet'
  BY TransportAssumption DEF TransportInv, Respond, callerVars, history, processVars,
    TypeOK, Quiet, Open, Live, Sessions
<1>3. CallInProgress'
  BY TransportAssumption DEF TransportInv, Respond, callerVars, history, processVars,
    TypeOK, Quiet, Open, CallInProgress, InCall, Call, NoCall, Sessions
<1>4. InOrder'
  <2>1. CASE n = session
    BY <2>1, TransportAssumption DEF TransportInv, TypeOK, callerVars, history,
      Respond, Quiet, Open, CallInProgress, InOrder, Unread, Given, Held, Live, NoAnswer
  <2>2. CASE n # session
    <3>1. n \in left /\ session \in Sessions
      BY TransportAssumption, <2>2 DEF Respond, Live, TransportInv, TypeOK, Quiet, Sessions
    <3>2. reply'[session] = reply[session] /\ answers'[session] = answers[session]
      BY <2>2, <3>1 DEF Respond, TransportInv, TypeOK
    <3> QED
      BY <3>2, PipesApart DEF Respond
  <2> QED
    BY <2>1, <2>2
<1>5. OpenWhileUnread'
  BY TransportAssumption DEF TransportInv, Respond, callerVars, history, processVars,
    TypeOK, Quiet, Open, CallInProgress, InOrder, OpenWhileUnread, InCall, Unread, Held,
    Call, NoCall, Live, Sessions, KnownOutcome
<1>6. TrueAnswers'
  BY TransportAssumption DEF TransportInv, Respond, callerVars, history, processVars,
    TypeOK, Quiet, Open, CallInProgress, InOrder, OpenWhileUnread, TrueAnswers, InCall,
    Unread, Given, Held, Call, NoCall, Answer, NoAnswer, Live, Sessions
<1>7. KnownOutcome'
  BY TransportAssumption DEF TransportInv, Respond, callerVars, history, processVars,
    TypeOK, Quiet, Open, CallInProgress, InOrder, OpenWhileUnread, TrueAnswers, InCall,
    Unread, Given, Held, Call, NoCall, Answer, NoAnswer, Live, Sessions, KnownOutcome
<1>8. LeftInDoubt'
  BY TransportAssumption DEF TransportInv, Respond, callerVars, history, processVars,
    TypeOK, Quiet, Open, LeftInDoubt, Live, Unread, Held, Call, Sessions
<1> QED
  BY <1>1, <1>2, <1>3, <1>4, <1>5, <1>6, <1>7, <1>8 DEF TransportInv

\* A process that dies drops what it has not done.
LEMMA DieKeepsInv ==
  ASSUME TransportInv, NEW n \in Sessions, Die(n)
  PROVE  TransportInv'
<1>1. TypeOK'
  BY TransportAssumption DEF TransportInv, TypeOK, callerVars, history, processVars,
    Die, Quiet, Open
<1>2. Quiet'
  BY TransportAssumption DEF TransportInv, Die, callerVars, history, processVars,
    TypeOK, Quiet, Open, Live, Sessions
<1>3. CallInProgress'
  BY TransportAssumption DEF TransportInv, Die, callerVars, history, processVars,
    TypeOK, Quiet, Open, CallInProgress, InCall, Call, NoCall, Sessions
<1>4. InOrder'
  BY TransportAssumption DEF TransportInv, TypeOK, callerVars, history, processVars,
    Die, Quiet, Open, CallInProgress, InOrder, Unread, Given, Held, Live
<1>5. OpenWhileUnread'
  BY TransportAssumption DEF TransportInv, Die, callerVars, history, processVars,
    TypeOK, Quiet, Open, CallInProgress, InOrder, OpenWhileUnread, InCall, Unread, Held,
    Call, NoCall, Live, Sessions, KnownOutcome
<1>6. TrueAnswers'
  BY TransportAssumption DEF TransportInv, Die, callerVars, history, processVars,
    TypeOK, Quiet, Open, CallInProgress, InOrder, OpenWhileUnread, TrueAnswers, InCall,
    Unread, Given, Held, Call, NoCall, Answer, NoAnswer, Live, Sessions
<1>7. KnownOutcome'
  BY TransportAssumption DEF TransportInv, Die, callerVars, history, processVars,
    TypeOK, Quiet, Open, CallInProgress, InOrder, OpenWhileUnread, TrueAnswers, InCall,
    Unread, Given, Held, Call, NoCall, Answer, NoAnswer, Live, Sessions, KnownOutcome
<1>8. LeftInDoubt'
  BY TransportAssumption DEF TransportInv, Die, callerVars, history, processVars,
    TypeOK, Quiet, Open, LeftInDoubt, Live, Unread, Held, Call, Sessions
<1> QED
  BY <1>1, <1>2, <1>3, <1>4, <1>5, <1>6, <1>7, <1>8 DEF TransportInv

-----------------------------------------------------------------------------
(* The invariant.                                                          *)

\* Every step keeps it.
LEMMA StepKeepsInv == TransportInv /\ [Next]_vars => TransportInv'
<1> SUFFICES ASSUME TransportInv, [Next]_vars PROVE TransportInv'
  OBVIOUS
<1>1. CASE UNCHANGED vars
  BY <1>1 DEF vars, callerVars, history, processVars, TransportInv, TypeOK, Quiet, Open,
    Live, LeftInDoubt, CallInProgress, InCall, InOrder, Unread, Given, OpenWhileUnread,
    TrueAnswers, KnownOutcome
<1>2. CASE \E op \in {"apply", "look"}, r \in Requests : StartCall(op, r)
  BY <1>2, StartCallKeepsInv
<1>3. CASE \E n \in Sessions : TimerKill(n) \/ Read(n) \/ Execute(n) \/ Respond(n) \/ Die(n)
  BY <1>3, TimerKillKeepsInv, ReadKeepsInv, ExecuteKeepsInv, RespondKeepsInv, DieKeepsInv
<1>4. CASE Reopen \/ Write \/ Receive \/ Fail \/ Kill \/ RaiseTransport \/ WaitInVain
             \/ Interrupt \/ Close \/ RunOut
  BY <1>4, ReopenKeepsInv, WriteKeepsInv, ReceiveKeepsInv, FailKeepsInv, KillKeepsInv,
    RaiseTransportKeepsInv, WaitInVainKeepsInv, InterruptKeepsInv, CloseKeepsInv,
    RunOutKeepsInv
<1> QED
  BY <1>1, <1>2, <1>3, <1>4 DEF Next

\* The types, the order of the pipes, and what may still be executed or answered.
THEOREM TransportInvariant == Spec => []TransportInv
BY InitTransportInv, StepKeepsInv, PTL DEF Spec

\* What the caller of a logical request is told is the case and stays the case, through
\* failed and interrupted calls and late answers, unless the request was open when the
\* caller left a running process behind (NativeBackend.call).
THEOREM OutcomesAreKnown == Spec => []KnownOutcome
<1>1. TransportInv => KnownOutcome
  BY DEF TransportInv
<1> QED
  BY <1>1, TransportInvariant, PTL

\* A process does nothing to the database once the transport error is raised or close()
\* has returned. One that the caller left unwaited for, and replaced, may.
THEOREM OneProcessWorks == Spec => []OneProcessAtWork
<1>1. TransportInv => OneProcessAtWork
  BY DEF TransportInv, Quiet, OneProcessAtWork
<1> QED
  BY <1>1, TransportInvariant, PTL

-----------------------------------------------------------------------------
(* The refinement.                                                         *)

\* What is known of a request changes with its status, unless it is in doubt.
LEMMA KnownChange ==
  ASSUME TypeOK, NEW r \in Requests, NEW x, status' = [status EXCEPT ![r] = x],
         UNCHANGED doubtful
  PROVE  /\ r \in doubtful => Known' = Known
         /\ r \notin doubtful => Known[r] = status[r] /\ Known' = [Known EXCEPT ![r] = x]
BY DEF TypeOK, Known

\* An answer settles what it is about.
LEMMA ReceiveSettles ==
  ASSUME TransportInv, Receive
  PROVE  \/ UNCHANGED <<Known, applied>>
         \/ \E r \in Requests : Outcome!Settle(r)
<1> DEFINE r == call.request
<1>1. /\ place = "waiting" /\ call \in Call /\ call.op \in {"apply", "look"}
      /\ r \in Requests /\ applied[r] \in Nat /\ UNCHANGED <<applied, doubtful>>
      /\ status \in [Requests -> {"free", "sent", "unknown", "done"}]
  BY DEF TransportInv, TypeOK, Receive, CallInProgress, InCall, Call, history
<1>2. status[r] = IF call.op = "apply" THEN "sent" ELSE "unknown"
  BY <1>1 DEF TransportInv, CallInProgress, InCall
<1>3. PICK a \in Given(session) :
        /\ a.id = call.id /\ a.kind # "foreign"
        /\ status' = [status EXCEPT ![r] = Told(a)]
  BY DEF Receive, IsAnswer, First, Given
<1> HIDE DEF r
<1>4. /\ r \in doubtful => Known' = Known
      /\ r \notin doubtful => Known[r] = status[r] /\ Known' = [Known EXCEPT ![r] = Told(a)]
  BY <1>1, <1>3, KnownChange DEF TransportInv
<1>5. CASE r \notin doubtful
  <2>1. /\ applied[r] <= 1
        /\ call.op = "apply" => (a.kind = "result" <=> applied[r] = 1)
        /\ call.op = "look" /\ a.kind = "result" => (a.found <=> applied[r] = 1)
    BY <1>1, <1>3, <1>5 DEF TransportInv, TrueAnswers, KnownOutcome, r
  <2>2. Told(a) = IF call.op = "look" /\ a.kind # "result" THEN "unknown"
                  ELSE IF applied[r] = 1 THEN "done" ELSE "free"
    BY <1>1, <2>1 DEF Told
  <2>3. CASE call.op = "look" /\ a.kind # "result"
    <3>1. [Known EXCEPT ![r] = "unknown"] = Known
      BY <1>1, <1>2, <1>4, <1>5, <2>3 DEF Known
    <3> QED
      BY <1>1, <1>4, <1>5, <2>2, <2>3, <3>1
  <2>4. CASE ~(call.op = "look" /\ a.kind # "result")
    <3>1. Outcome!Settle(r)
      BY <1>1, <1>2, <1>4, <1>5, <2>2, <2>4 DEF Outcome!Settle
    <3> QED
      BY <1>1, <3>1
  <2> QED
    BY <2>3, <2>4
<1> QED
  BY <1>1, <1>4, <1>5

\* A call that is not answered loses its outcome, if it could have one.
LEMMA LostLoses ==
  ASSUME TransportInv, InCall, status' = Lost, UNCHANGED <<applied, doubtful>>
  PROVE  \/ UNCHANGED <<Known, applied>>
         \/ \E r \in Requests : Outcome!Lose(r)
<1>1. call.request \in Requests
  BY DEF TransportInv, CallInProgress, Call
<1>2. CASE status[call.request] = "sent"
  <2>1. status' = [status EXCEPT ![call.request] = "unknown"]
    BY <1>2 DEF Lost
  <2>2. CASE call.request \in doubtful
    BY <1>1, <2>1, <2>2, KnownChange DEF TransportInv
  <2>3. CASE call.request \notin doubtful
    <3>1. Outcome!Lose(call.request)
      BY <1>1, <1>2, <2>1, <2>3, KnownChange DEF TransportInv, Outcome!Lose
    <3> QED
      BY <1>1, <3>1
  <2> QED
    BY <2>2, <2>3
<1>3. CASE status[call.request] # "sent"
  BY <1>3 DEF Lost, Known
<1> QED
  BY <1>2, <1>3

\* An effect appears while its outcome is open, or in doubt.
LEMMA ExecuteApplies ==
  ASSUME TransportInv, NEW n \in Sessions, Execute(n)
  PROVE  \/ UNCHANGED <<Known, applied>>
         \/ \E r \in Requests : Outcome!Apply(r) \/ Outcome!Drift(r)
<1>1. UNCHANGED Known
  BY DEF Execute, callerVars, history, Known
<1>2. CASE UNCHANGED applied
  BY <1>1, <1>2
<1>3. CASE /\ running[n].op = "apply"
           /\ applied' = [applied EXCEPT ![running[n].request] = @ + 1]
  <2> DEFINE r == running[n].request
  <2>1. running[n] \in Unread(n) /\ r \in Requests
    BY DEF TransportInv, TypeOK, Execute, Unread, Held, Call
  <2>2. CASE r \in doubtful
    <3>1. Outcome!Drift(r)
      BY <1>1, <1>3, <2>1, <2>2 DEF Outcome!Drift, Known
    <3> QED
      BY <2>1, <3>1
  <2>3. CASE r \notin doubtful
    <3>1. status[r] \in {"sent", "unknown"} /\ applied[r] = 0
      BY <1>3, <2>1, <2>3, EffectIsOpen DEF Execute
    <3>2. applied' = [applied EXCEPT ![r] = 1] /\ Known[r] = status[r]
      BY <1>3, <2>1, <2>3, <3>1 DEF TransportInv, TypeOK, Known
    <3>3. Outcome!Apply(r)
      BY <1>1, <3>1, <3>2 DEF Outcome!Apply
    <3> QED
      BY <2>1, <3>3
  <2> QED
    BY <2>2, <2>3
<1> QED
  BY <1>2, <1>3 DEF Execute

\* Leaving a running process behind puts in doubt what is open then.
LEMMA ReopenForfeits ==
  ASSUME TransportInv, Reopen
  PROVE  UNCHANGED <<Known, applied>> \/ Outcome!Forfeit
<1>1. CASE UNCHANGED history
  BY <1>1 DEF Reopen, history, Known
<1>2. CASE doubtful' = doubtful \cup {r \in Requests : status[r] = "unknown"}
  <2>1. UNCHANGED <<status, applied>>
    BY DEF Reopen
  <2>2. Known' = [r \in Requests |-> IF Known[r] = "unknown" THEN "doubtful" ELSE Known[r]]
    <3> SUFFICES ASSUME NEW r \in Requests
                 PROVE  Known'[r] = IF Known[r] = "unknown" THEN "doubtful" ELSE Known[r]
      BY DEF Known
    <3> QED
      BY <1>2, <2>1 DEF Known
  <2> QED
    BY <2>1, <2>2 DEF Outcome!Forfeit
<1> QED
  BY <1>1, <1>2 DEF Reopen

\* Every step is one of the promise, or none.
LEMMA StepKeepsPromise ==
  TransportInv /\ [Next]_vars => [Outcome!Next]_<<Known, applied>>
<1> SUFFICES ASSUME TransportInv, [Next]_vars, ~UNCHANGED <<Known, applied>>
             PROVE  Outcome!Next
  OBVIOUS
<1>1. ASSUME NEW op \in {"apply", "look"}, NEW r \in Requests, StartCall(op, r)
      PROVE  Outcome!Next
  <2>1. UNCHANGED <<doubtful, applied>>
    BY <1>1 DEF StartCall, history
  <2>2. CASE op = "look"
    BY <1>1, <2>1, <2>2 DEF StartCall, Known
  <2>3. CASE op = "apply"
    <3>1. status[r] = "free" /\ status' = [status EXCEPT ![r] = "sent"]
      BY <1>1, <2>3 DEF StartCall
    <3>2. r \notin doubtful => Outcome!Send(r)
      BY <2>1, <3>1, KnownChange DEF TransportInv, Outcome!Send
    <3> QED
      BY <2>1, <3>1, <3>2, KnownChange DEF TransportInv, Outcome!Next
  <2> QED
    BY <2>2, <2>3
<1>2. CASE Receive
  BY <1>2, ReceiveSettles DEF Outcome!Next
<1>3. CASE RaiseTransport \/ WaitInVain \/ Interrupt
  <2>1. InCall /\ status' = Lost /\ UNCHANGED <<applied, doubtful>>
    BY <1>3 DEF RaiseTransport, WaitInVain, Interrupt, Escape, InCall, history
  <2> QED
    BY <2>1, LostLoses DEF Outcome!Next
<1>4. ASSUME NEW n \in Sessions, Execute(n)
      PROVE  Outcome!Next
  BY <1>4, ExecuteApplies DEF Outcome!Next
<1>5. CASE Reopen
  BY <1>5, ReopenForfeits DEF Outcome!Next
<1>6. CASE Write \/ Fail \/ Kill \/ Close \/ RunOut \/ UNCHANGED vars
  BY <1>6 DEF Write, Fail, Kill, Close, RunOut, vars, callerVars, history, Known
<1>7. CASE \E n \in Sessions : TimerKill(n) \/ Read(n) \/ Respond(n) \/ Die(n)
  BY <1>7 DEF TimerKill, Read, Respond, Die, callerVars, history, Known
<1> QED
  BY <1>1, <1>2, <1>3, <1>4, <1>5, <1>6, <1>7 DEF Next

\* The transport keeps what its error codes promise: an effect appears only while its
\* outcome is open, an answer or a look settles it, and no request has two, unless it
\* was open when its caller left a running process behind.
THEOREM TransportImplementsOutcome == Spec => ImplementsOutcome
<1>1. Init => Outcome!Init
  BY DEF Init, Outcome!Init, Known
<1> QED
  BY <1>1, StepKeepsPromise, TransportInvariant, PTL DEF Spec, ImplementsOutcome, Outcome!Spec

=============================================================================
