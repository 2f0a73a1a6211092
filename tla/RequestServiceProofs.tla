------------------------ MODULE RequestServiceProofs ------------------------
(***************************************************************************)
(* Proofs, for any set of requests, that the control channel leaves no     *)
(* request behind: the type invariant, NoOrphan and OutcomeIsFinal of      *)
(* RequestService.                                                         *)
(***************************************************************************)
EXTENDS RequestService, TLAPS

\* The worker's flags follow its phase; it holds nothing once it has let go
\* of the device.
Lifecycle ==
  /\ is_alive <=> phase \in {"running", "stopping", "released"}
  /\ rx_open <=> phase # "exited"
  /\ phase \notin {"running", "stopping"} => held = {}

\* NoOrphan, for submissions that are still to look at is_alive after their
\* push as well: those may find the channel drained, but then the worker is
\* dead and they will see it.
Pending ==
  \A r \in Requests :
    client[r] \in {"recheck", "done"} /\ handle[r] = Unset =>
      \/ r \in held
      \/ InChan(r) /\ phase \in {"running", "stopping", "released", "draining"}
      \/ client[r] = "recheck" /\ ~is_alive

IInv == TypeOK /\ Lifecycle /\ Pending

-----------------------------------------------------------------------------
\* fulfill keeps the handles well-typed, settles those it is given and leaves
\* the others alone.
LEMMA FulfillFacts ==
  ASSUME NEW h \in [Requests -> Outcomes \cup {Unset}], NEW S, NEW o \in Outcomes
  PROVE  /\ Fulfill(h, S, o) \in [Requests -> Outcomes \cup {Unset}]
         /\ \A r \in Requests : r \in S => Fulfill(h, S, o)[r] # Unset
         /\ \A r \in Requests : r \notin S => Fulfill(h, S, o)[r] = h[r]
         /\ \A r \in Requests : h[r] # Unset => Fulfill(h, S, o)[r] = h[r]
  BY DEF Fulfill, Outcomes, Failures, Unset

\* The outcomes a handle is failed with when the connection ends.
LEMMA EndingOutcomes == "disconnected" \in Outcomes /\ "control_lost" \in Outcomes
  BY DEF Outcomes, Failures

\* A message stays in the channel when another is pushed, ...
LEMMA PushKeeps ==
  ASSUME NEW s \in Seq(Messages), NEW m \in Messages
  PROVE  /\ \A i \in 1..Len(s) : i \in 1..Len(Append(s, m)) /\ Append(s, m)[i] = s[i]
         /\ Len(s) + 1 \in 1..Len(Append(s, m)) /\ Append(s, m)[Len(s) + 1] = m
         /\ Append(s, m) \in Seq(Messages)
  OBVIOUS

\* ... and when one is taken, unless it is the one.
LEMMA TakeKeeps ==
  ASSUME NEW s \in Seq(Messages), s # <<>>
  PROVE  /\ Tail(s) \in Seq(Messages)
         /\ Head(s) \in Messages
         /\ \A i \in 1..Len(s) : s[i] = Head(s) \/ \E j \in 1..Len(Tail(s)) : Tail(s)[j] = s[i]
<1>1. Tail(s) \in Seq(Messages) /\ Head(s) \in Messages /\ Len(Tail(s)) = Len(s) - 1 /\ Len(s) \in Nat
  OBVIOUS
<1>2. ASSUME NEW i \in 1..Len(s), s[i] # Head(s)
      PROVE  \E j \in 1..Len(Tail(s)) : Tail(s)[j] = s[i]
  <2>1. i # 1
    BY <1>2
  <2>2. i - 1 \in 1..Len(Tail(s)) /\ Tail(s)[i - 1] = s[i]
    BY <1>1, <2>1
  <2> QED
    BY <2>2
<1> QED
  BY <1>1, <1>2

-----------------------------------------------------------------------------
\* Nothing is submitted when the worker starts.
LEMMA InitInv == Init => IInv
<1> SUFFICES ASSUME Init PROVE IInv
  OBVIOUS
<1>1. TypeOK
  <2>1. client \in [Requests -> {"idle", "push", "recheck", "done"}] /\ chan \in Seq(Messages)
    BY DEF Init, PortInit
  <2>2. handle \in [Requests -> Outcomes \cup {Unset}] /\ held \subseteq Requests
    BY DEF Init, PortInit
  <2>3. rx_open \in BOOLEAN /\ is_alive \in BOOLEAN /\ should_die \in BOOLEAN
    BY DEF Init, PortInit
  <2> QED
    BY <2>1, <2>2, <2>3 DEF Init, PortInit, TypeOK, PortTypeOK, Phases
<1>2. Lifecycle
  BY DEF Init, PortInit, Lifecycle
<1>3. Pending
  BY DEF Init, PortInit, Pending
<1> QED
  BY <1>1, <1>2, <1>3 DEF IInv

\* Each step of a caller, of the owner and of the worker keeps the invariant.
LEMMA StepInv == IInv /\ [Next]_vars => IInv'
<1> SUFFICES ASSUME IInv, [Next]_vars PROVE IInv'
  OBVIOUS
<1> USE DEF IInv, TypeOK, PortTypeOK, Lifecycle
<1>1. ASSUME NEW r \in Requests, SendCheck(r), UNCHANGED <<held, phase>> PROVE IInv'
  <2>1. CASE is_alive
    BY <1>1, <2>1 DEF SendCheck, Pending, InChan
  <2>2. CASE ~is_alive
    <3>0. handle' = Fulfill(handle, {r}, "disconnected")
      BY <1>1, <2>2 DEF SendCheck
    <3>1. /\ handle' \in [Requests -> Outcomes \cup {Unset}]
          /\ handle'[r] # Unset
          /\ \A q \in Requests : q # r => handle'[q] = handle[q]
      BY <3>0, FulfillFacts, EndingOutcomes
    <3> QED
      BY <1>1, <2>2, <3>1 DEF SendCheck, Pending, InChan
  <2> QED
    BY <2>1, <2>2
<1>2. ASSUME NEW r \in Requests, SendPush(r), UNCHANGED <<held, phase>> PROVE IInv'
  <2>1. CASE rx_open
    <3>1. r \in Messages
      BY DEF Messages
    <3>2. chan' = Append(chan, r) /\ client' = [client EXCEPT ![r] = "recheck"] /\ handle' = handle
      BY <1>2, <2>1 DEF SendPush
    <3>3. chan' \in Seq(Messages) /\ InChan(r)' /\ \A q \in Requests : InChan(q) => InChan(q)'
      BY <3>1, <3>2, PushKeeps DEF InChan
    <3>4. TypeOK' /\ Lifecycle'
      BY <1>2, <3>2, <3>3 DEF SendPush
    <3>5. Pending'
      BY <1>2, <3>2, <3>3 DEF SendPush, Pending, Phases
    <3> QED
      BY <3>4, <3>5
  <2>2. CASE ~rx_open
    <3>0. handle' = Fulfill(handle, {r}, "disconnected")
      BY <1>2, <2>2 DEF SendPush
    <3>1. /\ handle' \in [Requests -> Outcomes \cup {Unset}]
          /\ handle'[r] # Unset
          /\ \A q \in Requests : q # r => handle'[q] = handle[q]
      BY <3>0, FulfillFacts, EndingOutcomes
    <3> QED
      BY <1>2, <2>2, <3>1 DEF SendPush, Pending, InChan
  <2> QED
    BY <2>1, <2>2
<1>3. ASSUME NEW r \in Requests, SendRecheck(r), UNCHANGED <<held, phase>> PROVE IInv'
  <2>1. CASE is_alive
    BY <1>3, <2>1 DEF SendRecheck, Pending, InChan
  <2>2. CASE ~is_alive
    <3>0. handle' = Fulfill(handle, {r}, "disconnected")
      BY <1>3, <2>2 DEF SendRecheck
    <3>1. /\ handle' \in [Requests -> Outcomes \cup {Unset}]
          /\ handle'[r] # Unset
          /\ \A q \in Requests : q # r => handle'[q] = handle[q]
      BY <3>0, FulfillFacts, EndingOutcomes
    <3> QED
      BY <1>3, <2>2, <3>1 DEF SendRecheck, Pending, InChan
  <2> QED
    BY <2>1, <2>2
<1>4. ASSUME Disconnect \/ Join(phase = "exited"), UNCHANGED <<held, phase>> PROVE IInv'
  <2>1. CASE DisconnectPush
    <3>1. Shutdown \in Messages
      BY DEF Messages
    <3>2. chan' \in Seq(Messages) /\ \A q \in Requests : InChan(q) => InChan(q)'
      BY <2>1, <3>1, PushKeeps DEF DisconnectPush, InChan
    <3> QED
      BY <1>4, <2>1, <3>2 DEF DisconnectPush, Pending
  <2>2. CASE DisconnectCheck \/ RequestStop \/ Join(phase = "exited")
    <3>1. UNCHANGED <<client, chan, rx_open, is_alive, handle, held, phase>>
      BY <1>4, <2>2 DEF DisconnectCheck, RequestStop, Join
    <3>2. owner' \in {"connected", "push", "wait", "join", "joined"} /\ should_die' \in BOOLEAN
      BY <2>2 DEF DisconnectCheck, RequestStop, Join
    <3> QED
      BY <3>1, <3>2 DEF Pending, InChan
  <2> QED
    BY <1>4, <2>1, <2>2 DEF Disconnect
<1>5. CASE Take
  <2>1. Tail(chan) \in Seq(Messages) /\ Head(chan) \in Messages
    BY <1>5, TakeKeeps DEF Take
  <2>2. \A q \in Requests : InChan(q) => q = Head(chan) \/ InChan(q)'
    BY <1>5, TakeKeeps DEF Take, InChan
  <2>3. TypeOK' /\ Lifecycle'
    BY <1>5, <2>1 DEF Take, Messages, Phases
  <2>4. Pending'
    BY <1>5, <2>2, ShutdownAssumption DEF Take, Pending, Phases
  <2> QED
    BY <2>3, <2>4
<1>6. ASSUME NEW r \in Requests, Answer(r) PROVE IInv'
  <2>1. /\ handle' \in [Requests -> Outcomes \cup {Unset}]
        /\ handle'[r] # Unset
        /\ \A q \in Requests : q # r => handle'[q] = handle[q]
    BY <1>6, FulfillFacts DEF Answer
  <2> QED
    BY <1>6, <2>1 DEF Answer, Pending, InChan
<1>7. CASE Stop \/ HasDied \/ DrainEnd \/ DropReceiver
  <2>0. UNCHANGED <<client, owner, chan, should_die, handle, held>>
    BY <1>7 DEF Stop, HasDied, DrainEnd, DropReceiver, portVars
  <2>1. TypeOK'
    BY <1>7, <2>0 DEF Stop, HasDied, DrainEnd, DropReceiver, Phases, portVars
  <2>3. Lifecycle'
    BY <1>7, <2>0 DEF Stop, HasDied, DrainEnd, DropReceiver, Phases, portVars
  <2>2. Pending'
    BY <1>7 DEF Stop, HasDied, DrainEnd, DropReceiver, Pending, Phases, portVars, InChan
  <2> QED
    BY <2>1, <2>2, <2>3
<1>8. CASE FailHeld
  <2>1. /\ handle' \in [Requests -> Outcomes \cup {Unset}]
        /\ \A q \in Requests : q \in held => handle'[q] # Unset
        /\ \A q \in Requests : q \notin held => handle'[q] = handle[q]
    BY <1>8, FulfillFacts DEF FailHeld, Outcomes, Failures
  <2> QED
    BY <1>8, <2>1 DEF FailHeld, Pending, InChan, Phases
<1>9. CASE Drain
  <2>1. Tail(chan) \in Seq(Messages) /\ Head(chan) \in Messages
    BY <1>9, TakeKeeps DEF Drain
  <2>2. \A q \in Requests : InChan(q) => q = Head(chan) \/ InChan(q)'
    BY <1>9, TakeKeeps DEF Drain, InChan
  <2>3. /\ handle' \in [Requests -> Outcomes \cup {Unset}]
        /\ \A q \in Requests : q = Head(chan) => handle'[q] # Unset
        /\ \A q \in Requests : q # Head(chan) => handle'[q] = handle[q]
    BY <1>9, FulfillFacts DEF Drain, Outcomes, Failures
  <2> QED
    BY <1>9, <2>1, <2>2, <2>3 DEF Drain, Pending
<1>10. CASE UNCHANGED vars
  BY <1>10 DEF vars, portVars, Pending, InChan
<1> QED
  BY <1>1, <1>2, <1>3, <1>4, <1>5, <1>6, <1>7, <1>8, <1>9, <1>10
     DEF Next, Submit, Worker, Terminated

-----------------------------------------------------------------------------
\* The inductive invariant holds throughout.
LEMMA Invariant == Spec => []IInv
  BY InitInv, StepInv, PTL DEF Spec

\* The variables of the control channel keep their types.
THEOREM TypeCorrect == Spec => []TypeOK
<1>1. IInv => TypeOK
  BY DEF IInv
<1> QED
  BY <1>1, Invariant, PTL

\* No handle of a submission that returned is left without someone who will
\* settle it, whatever the number of requests and the moment of the shutdown
\* (ControlPort::send against Runner::shutdown).
THEOREM NobodyIsOrphaned == Spec => []NoOrphan
<1>1. IInv => NoOrphan
  BY DEF IInv, Lifecycle, Pending, NoOrphan, TypeOK, Phases
<1> QED
  BY <1>1, Invariant, PTL

\* A handle keeps the first outcome recorded in it (the OnceLock of
\* ResponseHandle), whoever fulfils it again.
THEOREM OutcomesAreFinal == Spec => OutcomeIsFinal
<1>1. ASSUME IInv, [Next]_vars
      PROVE  [\A r \in Requests : handle[r] # Unset => handle'[r] = handle[r]]_vars
  <2>1. handle \in [Requests -> Outcomes \cup {Unset}]
    BY <1>1 DEF IInv, TypeOK, PortTypeOK
  <2>2. handle' = handle \/ \E S, o : handle' = Fulfill(handle, S, o)
    BY <1>1 DEF Next, vars, portVars, Submit, SendCheck, SendPush, SendRecheck, Disconnect,
                DisconnectCheck, DisconnectPush, RequestStop, Join, Worker, Take, Answer, Stop,
                FailHeld, HasDied, Drain, DrainEnd, DropReceiver, Terminated
  <2> QED
    BY <2>1, <2>2 DEF Fulfill
<1> QED
  BY <1>1, Invariant, PTL DEF Spec, OutcomeIsFinal
=============================================================================
