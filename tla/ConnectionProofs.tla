-------------------------- MODULE ConnectionProofs --------------------------
(***************************************************************************)
(* Theorems about Connection for every number of sockets and calls: first  *)
(* for every application (Careful or not) and every fault, then what it    *)
(* promises to a careful application whose server does not close or refuse *)
(* in a handshake.                                                         *)
(***************************************************************************)
EXTENDS Connection, FiniteSetTheorems, TLAPS

(* What Settle returns is a table of results again.                        *)
LEMMA SettleType ==
  ASSUME TypeOK, NEW resolved, NEW rejected
  PROVE  Settle(resolved, rejected) \in [Calls -> Results]
BY DEF TypeOK, Settle, Results

(* Unbinding only removes listeners.                                       *)
LEMMA WithoutBoundType ==
  ASSUME NEW listeners, NEW s
  PROVE  WithoutBound(listeners, s) \subseteq listeners
BY DEF WithoutBound

(* A call that takes a free number keeps the table of calls well typed.    *)
LEMMA MakeCallType ==
  ASSUME TypeOK, NEW p \in Calls, NEW k \in Kinds, NEW r \in Results,
         MakeCall(p, k, r)
  PROVE  callKind' \in [Calls -> Kinds] /\ callResult' \in [Calls -> Results]
BY DEF TypeOK, MakeCall

(* An uncaught exception keeps the types.                                  *)
LEMMA CrashType == ASSUME TypeOK, Crash PROVE TypeOK'
BY DEF TypeOK, Crash, selfVars, timerVars, boundVars, listenVars, callVars

(* A new socket, and listeners of others that are well typed.              *)
LEMMA CreateSocketType ==
  ASSUME NEW p \in 0 .. MaxCalls, NEW s \in Sockets,
         NEW rs0 \in [Sockets -> ReadyStates],
         NEW onOpen0 \in [Sockets -> 0 .. MaxCalls],
         NEW openWaiters0 \in [Sockets -> SUBSET Calls],
         NEW onError0 \in [Sockets -> 0 .. MaxCalls],
         NEW forwards0 \in SUBSET Sockets,
         NEW onClose0 \in [Sockets -> SUBSET Listener],
         CreateSocket(p, s, rs0, onOpen0, openWaiters0, onError0, forwards0, onClose0)
  PROVE  /\ ws' \in 0 .. MaxSockets
         /\ rs' \in [Sockets -> ReadyStates]
         /\ onOpen' \in [Sockets -> 0 .. MaxCalls]
         /\ openWaiters' \in [Sockets -> SUBSET Calls]
         /\ onError' \in [Sockets -> 0 .. MaxCalls]
         /\ forwards' \in SUBSET Sockets
         /\ onClose' \in [Sockets -> SUBSET Listener]
         /\ errorBound' \in 0 .. MaxSockets
         /\ closeBound' \in Bound
<1>1. {[kind |-> "before", p |-> p]} \in SUBSET Listener
  BY DEF Listener, CloseKinds
<1>2. s \in 0 .. MaxSockets
  BY SizeAssumption DEF Sockets
<1>3. [on |-> s, kind |-> "before"] \in Bound
  BY <1>2 DEF Bound
<1>4. "CONNECTING" \in ReadyStates
  BY DEF ReadyStates
<1>5. onOpen' \in [Sockets -> 0 .. MaxCalls] /\ onError' \in [Sockets -> 0 .. MaxCalls]
  BY DEF CreateSocket
<1>6. onClose' \in [Sockets -> SUBSET Listener]
  BY <1>1 DEF CreateSocket
<1>7. rs' \in [Sockets -> ReadyStates] /\ openWaiters' \in [Sockets -> SUBSET Calls]
  BY <1>4 DEF CreateSocket
<1> QED
  BY <1>1, <1>2, <1>3, <1>5, <1>6, <1>7 DEF CreateSocket

(* A call of connect that creates a socket, or does not, keeps the types.  *)
LEMMA StartConnectType ==
  ASSUME TypeOK, NEW p \in Calls, NEW k \in Kinds, StartConnect(p, k),
         retry' \in Nat, strays' \in Nat
  PROVE  TypeOK'
<1>1. "resolved" \in Results /\ "pending" \in Results
  BY DEF Results
<1>2. p \in 0 .. MaxCalls
  BY SizeAssumption DEF Calls
<1>3. timer' \in BOOLEAN /\ UNCHANGED <<isReady, announced, subs, crashed>>
  BY DEF StartConnect, ClearTimer
<1>4. CASE State = "OPEN" /\ MakeCall(p, k, "resolved")
             /\ UNCHANGED <<ws, boundVars, rs, listenVars>>
  BY <1>1, <1>3, <1>4, MakeCallType DEF TypeOK, boundVars, listenVars
<1>5. CASE /\ State = "CONNECTING"
           /\ openWaiters' = [openWaiters EXCEPT ![ws] = @ \cup {p}]
           /\ MakeCall(p, k, "pending")
           /\ UNCHANGED <<ws, boundVars, rs, onOpen, onError, forwards, onClose>>
  <2>1. openWaiters' \in [Sockets -> SUBSET Calls]
    BY <1>5 DEF TypeOK
  <2> QED
    BY <1>1, <1>3, <1>5, <2>1, MakeCallType DEF TypeOK, boundVars
<1>6. ASSUME NEW s \in Sockets, MakeCall(p, k, "pending"),
             CreateSocket(p, s, rs, onOpen, openWaiters, onError, forwards, onClose)
      PROVE  TypeOK'
  BY <1>1, <1>2, <1>3, <1>6, MakeCallType, CreateSocketType DEF TypeOK
<1> QED
  BY <1>4, <1>5, <1>6 DEF StartConnect

(* Closing the socket keeps the types.                                     *)
LEMMA CloseSocketType ==
  ASSUME TypeOK, ws # 0, NEW p \in Calls, NEW k \in {"destroy", "uninit"},
         CloseSocket(p, k)
  PROVE  /\ onClose' \in [Sockets -> SUBSET Listener]
         /\ closeBound' \in Bound
         /\ rs' \in [Sockets -> ReadyStates]
<1>1. ws \in Sockets
  BY DEF TypeOK, Sockets
<1>2. [kind |-> k, p |-> p] \in Listener
  BY SizeAssumption DEF Listener, CloseKinds, Calls
<1>3. WithoutBound(onClose[ws], ws) \in SUBSET Listener
  BY <1>1, WithoutBoundType DEF TypeOK
<1>4. Nowhere \in Bound
  BY SizeAssumption DEF Nowhere, Bound
<1>5. {"CLOSING", "ABORTING"} \subseteq ReadyStates
  BY DEF ReadyStates
<1> QED
  BY <1>1, <1>2, <1>3, <1>4, <1>5 DEF CloseSocket, TypeOK

(* Arming the timer of the next retry keeps the types.                     *)
LEMMA ArmTimerType ==
  ASSUME TypeOK, ArmTimer
  PROVE  retry' \in Nat /\ timer' \in BOOLEAN /\ strays' \in Nat
BY SizeAssumption DEF ArmTimer, TypeOK

(* A close event, whatever an error event before it has left.              *)
LEMMA CloseEventType ==
  ASSUME TypeOK, NEW s \in Sockets,
         NEW onClose0 \in [Sockets -> SUBSET Listener],
         NEW onError0 \in [Sockets -> 0 .. MaxCalls],
         NEW errorBound0 \in 0 .. MaxSockets,
         NEW closeBound0 \in Bound,
         NEW failed,
         CloseEvent(s, onClose0, onError0, errorBound0, closeBound0, failed)
  PROVE  TypeOK'
<1> DEFINE L == onClose0[s]
           Of(kinds) == {l \in L : l.kind \in kinds}
           settled == Settle(Callers(Of({"destroy", "resolve"})),
                        failed \cup Callers(Of({"uninit", "reject"}))
                               \cup Callers(SubsOn(s)))
           closed == [rs EXCEPT ![s] = "CLOSED"]
           fired == [onClose0 EXCEPT ![s] = {}]
           Nullified == ws = 0 \/ Of({"destroy", "uninit"}) # {}
           onErrorLeft == [onError0 EXCEPT ![s] = 0,
                             ![ws] = IF errorBound0 = ws THEN 0 ELSE @]
           onOpenLeft == [onOpen EXCEPT ![s] = 0, ![ws] = 0]
           waitersLeft == [openWaiters EXCEPT ![s] = {}, ![ws] = {}]
<1>1. closed \in [Sockets -> ReadyStates]
  BY DEF TypeOK, ReadyStates
<1>2. fired \in [Sockets -> SUBSET Listener]
  OBVIOUS
<1>3. settled \in [Calls -> Results]
  BY SettleType
<1>4. 0 \in 0 .. MaxCalls /\ 0 \in 0 .. MaxSockets
  BY SizeAssumption
<1>5. /\ [onError0 EXCEPT ![s] = 0] \in [Sockets -> 0 .. MaxCalls]
      /\ [onOpen EXCEPT ![s] = 0] \in [Sockets -> 0 .. MaxCalls]
      /\ [openWaiters EXCEPT ![s] = {}] \in [Sockets -> SUBSET Calls]
  BY <1>4 DEF TypeOK
<1>6. /\ onErrorLeft \in [Sockets -> 0 .. MaxCalls]
      /\ onOpenLeft \in [Sockets -> 0 .. MaxCalls]
      /\ waitersLeft \in [Sockets -> SUBSET Calls]
  BY <1>4 DEF TypeOK
<1>7. /\ WithoutRequests(s) \in SUBSET Sub
      /\ forwards \ {s} \in SUBSET Sockets
  BY DEF TypeOK, WithoutRequests
<1>8. CASE /\ IF Of({"destroy", "uninit"}) # {}
              THEN ws' = 0 /\ NotReady
              ELSE UNCHANGED <<ws, isReady>>
           /\ IF Of({"destroy"}) # {} THEN EmitDisconnected
              ELSE UNCHANGED announced
           /\ rs' = closed
           /\ onOpen' = [onOpen EXCEPT ![s] = 0]
           /\ openWaiters' = [openWaiters EXCEPT ![s] = {}]
           /\ onClose' = fired
           /\ onError' = [onError0 EXCEPT ![s] = 0]
           /\ forwards' = forwards \ {s}
           /\ errorBound' = errorBound0
           /\ closeBound' = closeBound0
           /\ subs' = WithoutRequests(s)
           /\ callResult' = settled
           /\ UNCHANGED <<timerVars, callKind, crashed>>
  <2>1. ws' \in 0 .. MaxSockets /\ isReady' \in BOOLEAN
        /\ announced' \in {"none", "connected", "disconnected"}
    BY <1>4, <1>8 DEF TypeOK, NotReady, EmitDisconnected
  <2>2. timer' \in BOOLEAN /\ strays' \in Nat /\ retry' \in Nat
        /\ crashed' \in BOOLEAN /\ callKind' \in [Calls -> Kinds]
    BY <1>8 DEF TypeOK, timerVars
  <2> HIDE DEF closed, fired, settled
  <2> QED
    BY <1>1, <1>2, <1>3, <1>5, <1>7, <1>8, <2>1, <2>2 DEF TypeOK
<1>9. ASSUME NEW l \in Of({"before"}), NEW t \in Sockets,
             CreateSocket(l.p, t, closed, onOpenLeft, waitersLeft, onErrorLeft,
                          forwards \ {s}, fired),
             NotReady, timer' = FALSE, subs' = WithoutRequests(s),
             callResult' = settled,
             UNCHANGED <<announced, retry, strays, callKind, crashed>>
      PROVE  TypeOK'
  <2>1. l.p \in 0 .. MaxCalls
    BY DEF Listener
  <2>2. isReady' \in BOOLEAN /\ timer' \in BOOLEAN
    BY <1>9 DEF NotReady
  <2> HIDE DEF closed, fired, settled, onOpenLeft, waitersLeft, onErrorLeft, Of
  <2>3. /\ ws' \in 0 .. MaxSockets
        /\ rs' \in [Sockets -> ReadyStates]
        /\ onOpen' \in [Sockets -> 0 .. MaxCalls]
        /\ openWaiters' \in [Sockets -> SUBSET Calls]
        /\ onError' \in [Sockets -> 0 .. MaxCalls]
        /\ forwards' \in SUBSET Sockets
        /\ onClose' \in [Sockets -> SUBSET Listener]
        /\ errorBound' \in 0 .. MaxSockets
        /\ closeBound' \in Bound
    BY <1>1, <1>2, <1>6, <1>7, <1>9, <2>1, CreateSocketType
  <2> QED
    BY <1>3, <1>7, <1>9, <2>2, <2>3 DEF TypeOK
<1>10. CASE /\ ws' = 0
            /\ NotReady
            /\ EmitDisconnected
            /\ ArmTimer
            /\ rs' = closed
            /\ onClose' = fired
            /\ onOpen' = onOpenLeft
            /\ openWaiters' = waitersLeft
            /\ onError' = onErrorLeft
            /\ forwards' = forwards \ {s}
            /\ errorBound' = 0
            /\ closeBound' = closeBound0
            /\ subs' = WithoutRequests(s)
            /\ callResult' = settled
            /\ UNCHANGED <<callKind, crashed>>
  <2>1. isReady' \in BOOLEAN /\ announced' \in {"none", "connected", "disconnected"}
    BY <1>10 DEF NotReady, EmitDisconnected
  <2> HIDE DEF closed, fired, settled, onOpenLeft, waitersLeft, onErrorLeft
  <2> QED
    BY <1>1, <1>2, <1>3, <1>4, <1>6, <1>7, <1>10, <2>1, ArmTimerType DEF TypeOK
<1> QED
  BY <1>8, <1>9, <1>10, CrashType DEF CloseEvent

-----------------------------------------------------------------------------
(* Type correctness, action by action                                      *)

(* disconnect() keeps the types.                                           *)
LEMMA DisconnectType == ASSUME TypeOK, NEW p \in Calls, Disconnect(p) PROVE TypeOK'
<1>1. "resolved" \in Results /\ "pending" \in Results /\ "disconnect" \in Kinds
  BY DEF Results, Kinds
<1>2. callKind' \in [Calls -> Kinds] /\ callResult' \in [Calls -> Results]
  BY <1>1, MakeCallType DEF Disconnect
<1>3. /\ UNCHANGED <<selfVars, strays, errorBound, onOpen, openWaiters, onError,
                     forwards, subs, crashed>>
      /\ timer' = FALSE /\ retry' = 0
  BY DEF Disconnect, ClearTimer
<1>4. CASE UNCHANGED <<closeBound, rs, onClose>>
  BY <1>2, <1>3, <1>4 DEF TypeOK, selfVars
<1>5. CASE /\ State = "CLOSING"
           /\ onClose' = [onClose EXCEPT ![ws] =
                            @ \cup {[kind |-> "resolve", p |-> p]}]
           /\ UNCHANGED <<closeBound, rs>>
  <2>1. [kind |-> "resolve", p |-> p] \in Listener
    BY SizeAssumption DEF Listener, CloseKinds, Calls
  <2>2. onClose' \in [Sockets -> SUBSET Listener]
    BY <1>5, <2>1 DEF TypeOK
  <2> QED
    BY <1>2, <1>3, <1>5, <2>2 DEF TypeOK, selfVars
<1>6. CASE State \in {"CONNECTING", "OPEN"} /\ CloseSocket(p, "destroy")
  <2>1. ws # 0
    BY <1>6 DEF State
  <2> QED
    BY <1>2, <1>3, <1>6, <2>1, CloseSocketType DEF TypeOK, selfVars
<1> QED
  BY <1>4, <1>5, <1>6 DEF Disconnect

(* The open event of a socket keeps the types.                             *)
LEMMA SocketOpensType == ASSUME TypeOK, NEW s \in Sockets, SocketOpens(s) PROVE TypeOK'
<1> DEFINE p == onOpen[s]
<1>1. /\ rs' \in [Sockets -> ReadyStates]
      /\ onOpen' \in [Sockets -> 0 .. MaxCalls]
      /\ openWaiters' \in [Sockets -> SUBSET Calls]
  BY SizeAssumption DEF SocketOpens, TypeOK, ReadyStates
<1>2. callResult' \in [Calls -> Results]
  BY SettleType DEF SocketOpens
<1>3. UNCHANGED <<selfVars, timerVars, closeBound, forwards, onClose, callKind, crashed>>
  BY DEF SocketOpens
<1>4. CASE UNCHANGED <<errorBound, onError, subs>>
  BY <1>1, <1>2, <1>3, <1>4 DEF TypeOK, selfVars, timerVars
<1>5. CASE /\ p # 0 /\ ws # 0
           /\ onError' = IF errorBound = ws
                         THEN [onError EXCEPT ![ws] = 0] ELSE onError
           /\ errorBound' = 0
           /\ subs' = subs \cup {SubscribeOn(p)}
  <2>1. p \in Calls /\ ws \in Sockets
    BY <1>5 DEF TypeOK, Calls, Sockets
  <2>2. SubscribeOn(p) \in Sub
    BY <2>1 DEF SubscribeOn, Sub, SubStates
  <2>3. onError' \in [Sockets -> 0 .. MaxCalls] /\ errorBound' \in 0 .. MaxSockets
    <3>1. CASE errorBound = ws
      BY <1>5, <2>1, <3>1, SizeAssumption DEF TypeOK
    <3> QED
      BY <1>5, <3>1, SizeAssumption DEF TypeOK
  <2> QED
    BY <1>1, <1>2, <1>3, <1>5, <2>2, <2>3 DEF TypeOK, selfVars, timerVars
<1> QED
  BY <1>4, <1>5 DEF SocketOpens

(* The reaction to the answer of subscribe keeps the types.                *)
LEMMA SubscribedType == ASSUME TypeOK, NEW q \in subs, Subscribed(q) PROVE TypeOK'
<1>1. callResult' \in [Calls -> Results]
  BY SettleType DEF Subscribed
<1>2. UNCHANGED <<ws, timer, strays, errorBound, rs, onOpen, openWaiters,
                  onError, callKind, crashed>>
  BY DEF Subscribed
<1>3. CASE /\ subs' = subs \ {q}
           /\ UNCHANGED <<isReady, announced, retry, closeBound, forwards, onClose>>
  BY <1>1, <1>2, <1>3 DEF TypeOK
<1>4. CASE /\ ws # 0 /\ Rebind /\ ResetRetry /\ ForwardErrors
           /\ isReady' = TRUE /\ announced' = "connected"
           /\ subs' = Released(subs \ {q})
  <2>1. ws \in Sockets
    BY <1>4 DEF TypeOK, Sockets
  <2>2. [kind |-> "after", p |-> 0] \in Listener
    BY SizeAssumption DEF Listener, CloseKinds
  <2>3. WithoutBound(onClose[ws], ws) \in SUBSET Listener
    BY <2>1, WithoutBoundType DEF TypeOK
  <2>4. onClose' \in [Sockets -> SUBSET Listener] /\ closeBound' \in Bound
    BY <1>4, <2>1, <2>2, <2>3 DEF Rebind, TypeOK, Bound
  <2>5. subs' \in SUBSET Sub
    <3>1. \A r \in Sub : WithState(r, "timed") \in Sub
      BY DEF Sub, SubStates, WithState
    <3> QED
      BY <1>4, <3>1 DEF Released, TypeOK
  <2>6. retry' \in Nat /\ forwards' \in SUBSET Sockets
    BY <1>4, <2>1 DEF ResetRetry, ForwardErrors, TypeOK
  <2> QED
    BY <1>1, <1>2, <1>4, <2>4, <2>5, <2>6 DEF TypeOK
<1> QED
  BY <1>3, <1>4 DEF Subscribed

(* The reaction to a refused subscribe keeps the types.                    *)
LEMMA NotInitializedType ==
  ASSUME TypeOK, NEW q \in subs, NotInitialized(q) PROVE TypeOK'
<1>1. callResult' \in [Calls -> Results]
  BY SettleType DEF NotInitialized, TypeOK
<1>2. /\ subs' = subs \ {q}
      /\ UNCHANGED <<selfVars, timerVars, errorBound, onOpen, openWaiters, onError,
                     forwards, callKind, crashed>>
  BY DEF NotInitialized
<1>3. q.p \in Calls
  BY DEF TypeOK, Sub
<1>4. CASE UNCHANGED <<closeBound, rs, onClose>>
  BY <1>1, <1>2, <1>4 DEF TypeOK, selfVars, timerVars
<1>5. CASE /\ onClose' = [onClose EXCEPT ![ws] =
                            @ \cup {[kind |-> "reject", p |-> q.p]}]
           /\ UNCHANGED <<closeBound, rs>>
  <2>1. [kind |-> "reject", p |-> q.p] \in Listener
    BY <1>3, SizeAssumption DEF Listener, CloseKinds, Calls
  <2>2. onClose' \in [Sockets -> SUBSET Listener]
    BY <1>5, <2>1 DEF TypeOK
  <2> QED
    BY <1>1, <1>2, <1>5, <2>2 DEF TypeOK, selfVars, timerVars
<1>6. CASE State \in {"CONNECTING", "OPEN"} /\ CloseSocket(q.p, "uninit")
  <2>1. ws # 0
    BY <1>6 DEF State
  <2> QED
    BY <1>1, <1>2, <1>3, <1>6, <2>1, CloseSocketType DEF TypeOK, selfVars, timerVars
<1> QED
  BY <1>4, <1>5, <1>6 DEF NotInitialized

(* A socket that cannot connect keeps the types.                           *)
LEMMA SocketFailsType ==
  ASSUME TypeOK, NEW s \in Sockets, SocketFails(s) PROVE TypeOK'
<1> DEFINE onClose0 == IF ws = 0 THEN onClose
                       ELSE [onClose EXCEPT ![ws] = WithoutBound(@, ws)]
           onError0 == [onError EXCEPT ![s] = 0]
<1>1. onClose0 \in [Sockets -> SUBSET Listener]
  BY WithoutBoundType DEF TypeOK, Sockets
<1>2. onError0 \in [Sockets -> 0 .. MaxCalls]
  BY SizeAssumption DEF TypeOK
<1>3. 0 \in 0 .. MaxSockets /\ Nowhere \in Bound
  BY SizeAssumption DEF Nowhere, Bound
<1>4. CASE CloseEvent(s, onClose0, onError0, 0, Nowhere, {onError[s]})
  <2> HIDE DEF onClose0, onError0
  <2> QED
    BY <1>1, <1>2, <1>3, <1>4, CloseEventType
<1> QED
  BY <1>4, CrashType DEF SocketFails

(* Every variable has its type.                                            *)
THEOREM TypeCorrect == Spec => []TypeOK
<1>1. Init => TypeOK
  <2> SUFFICES ASSUME Init PROVE TypeOK
    OBVIOUS
  <2>1. 0 \in 0 .. MaxSockets /\ 0 \in 0 .. MaxCalls /\ 0 \in Nat
    BY SizeAssumption
  <2>2. /\ ws \in 0 .. MaxSockets /\ errorBound \in 0 .. MaxSockets
        /\ retry \in Nat /\ strays \in Nat
    BY <2>1 DEF Init
  <2>3. /\ isReady \in BOOLEAN /\ timer \in BOOLEAN /\ crashed \in BOOLEAN
        /\ announced \in {"none", "connected", "disconnected"}
    BY DEF Init
  <2>4. closeBound \in Bound
    BY <2>1 DEF Init, Nowhere, Bound
  <2>5. /\ rs \in [Sockets -> ReadyStates]
        /\ callKind \in [Calls -> Kinds]
        /\ callResult \in [Calls -> Results]
    BY DEF Init, ReadyStates, Kinds, Results
  <2>6. onOpen \in [Sockets -> 0 .. MaxCalls] /\ onError \in [Sockets -> 0 .. MaxCalls]
    BY <2>1 DEF Init
  <2>7. /\ openWaiters \in [Sockets -> SUBSET Calls]
        /\ onClose \in [Sockets -> SUBSET Listener]
    BY DEF Init
  <2>8. forwards \in SUBSET Sockets /\ subs \in SUBSET Sub
    BY DEF Init
  <2> QED
    BY <2>2, <2>3, <2>4, <2>5, <2>6, <2>7, <2>8 DEF TypeOK
<1>2. TypeOK /\ [Next]_vars => TypeOK'
  <2> SUFFICES ASSUME TypeOK, [Next]_vars PROVE TypeOK'
    OBVIOUS
  <2>1. ASSUME NEW p \in Calls, Connect(p) PROVE TypeOK'
    BY <2>1, StartConnectType DEF Connect, TypeOK, Kinds
  <2>2. ASSUME NEW p \in Calls, Disconnect(p) PROVE TypeOK'
    BY <2>2, DisconnectType
  <2>3. ASSUME NEW p \in Calls, RetryAfterFailure(p) PROVE TypeOK'
    <3>1. callResult' \in [Calls -> Results]
      BY <2>3 DEF RetryAfterFailure, TypeOK, Results
    <3> QED
      BY <2>3, <3>1, ArmTimerType
      DEF RetryAfterFailure, TypeOK, selfVars, boundVars, listenVars
  <2>4. ASSUME NEW p \in Calls, TimerFires(p) PROVE TypeOK'
    <3>1. strays' \in Nat /\ retry' \in Nat
      BY <2>4 DEF TimerFires, TypeOK
    <3> QED
      BY <2>4, <3>1, StartConnectType DEF TimerFires, Kinds
  <2>5. ASSUME NEW s \in Sockets, SocketOpens(s) PROVE TypeOK'
    BY <2>5, SocketOpensType
  <2>6. ASSUME NEW s \in Sockets, CloseFrame(s) PROVE TypeOK'
    BY <2>6 DEF CloseFrame, TypeOK, ReadyStates, selfVars, timerVars, boundVars,
                listenVars, callVars
  <2>7. ASSUME NEW s \in Sockets, SocketCloses(s) PROVE TypeOK'
    BY <2>7, CloseEventType DEF SocketCloses, TypeOK
  <2>8. ASSUME NEW s \in Sockets, SocketFails(s) PROVE TypeOK'
    BY <2>8, SocketFailsType
  <2>9. ASSUME NEW q \in subs, NEW st \in {"answered", "empty"},
               SubscribeAnswer(q, st)
        PROVE  TypeOK'
    <3>1. WithState(q, st) \in Sub
      BY DEF TypeOK, WithState, Sub, SubStates
    <3> QED
      BY <2>9, <3>1 DEF SubscribeAnswer, TypeOK, selfVars, timerVars, boundVars,
                        listenVars, callVars
  <2>10. ASSUME NEW q \in subs, SubscribeRefused(q) \/ SubscribeTimeout(q)
         PROVE  TypeOK'
    BY <2>10, SettleType DEF SubscribeRefused, SubscribeTimeout, TypeOK, selfVars,
                             timerVars, boundVars, listenVars
  <2>11. ASSUME NEW q \in subs, Subscribed(q) PROVE TypeOK'
    BY <2>11, SubscribedType
  <2>12. ASSUME NEW q \in subs, NotInitialized(q) PROVE TypeOK'
    BY <2>12, NotInitializedType
  <2>13. CASE UNCHANGED vars
    BY <2>13 DEF vars, TypeOK, selfVars, timerVars, boundVars, listenVars, callVars
  <2> QED
    BY <2>1, <2>2, <2>3, <2>4, <2>5, <2>6, <2>7, <2>8, <2>9, <2>10, <2>11, <2>12,
       <2>13 DEF Next
<1> QED
  BY <1>1, <1>2, PTL DEF Spec

-----------------------------------------------------------------------------
(* The event connected                                                     *)

(* The connection is ready only after it has announced connected, and it   *)
(* announces disconnected only when it is no longer ready: whatever        *)
(* listeners a socket has when it closes.                                  *)
THEOREM ReadyIsAnnounced == Spec => []ReadyWasAnnounced
<1>1. Init => ReadyWasAnnounced
  BY DEF Init, ReadyWasAnnounced
<1>2. ReadyWasAnnounced /\ [Next]_vars => ReadyWasAnnounced'
  <2> SUFFICES ASSUME ReadyWasAnnounced, [Next]_vars PROVE ReadyWasAnnounced'
    OBVIOUS
  <2> USE DEF ReadyWasAnnounced
  <2>1. ASSUME NEW p \in Calls, Connect(p) \/ TimerFires(p)
        PROVE  ReadyWasAnnounced'
    BY <2>1 DEF Connect, TimerFires, StartConnect
  <2>2. ASSUME NEW p \in Calls, Disconnect(p) \/ RetryAfterFailure(p)
        PROVE  ReadyWasAnnounced'
    BY <2>2 DEF Disconnect, RetryAfterFailure, selfVars
  <2>3. ASSUME NEW s \in Sockets, SocketOpens(s) \/ CloseFrame(s)
        PROVE  ReadyWasAnnounced'
    BY <2>3 DEF SocketOpens, CloseFrame, selfVars
  <2>4. CASE Crash
    BY <2>4 DEF Crash, selfVars
  <2>5. ASSUME NEW s \in Sockets, NEW onClose0, NEW onError0, NEW errorBound0,
               NEW closeBound0, NEW failed,
               CloseEvent(s, onClose0, onError0, errorBound0, closeBound0, failed)
        PROVE  ReadyWasAnnounced'
    <3>1. \/ isReady' = FALSE
          \/ UNCHANGED <<isReady, announced>>
          \/ Crash
      <4> DEFINE Of(kinds) == {l \in onClose0[s] : l.kind \in kinds}
      <4>1. Of({"destroy"}) # {} => Of({"destroy", "uninit"}) # {}
        OBVIOUS
      <4> QED
        BY <2>5, <4>1 DEF CloseEvent, NotReady
    <3> QED
      BY <3>1, <2>4
  <2>6. ASSUME NEW s \in Sockets, SocketCloses(s) \/ SocketFails(s)
        PROVE  ReadyWasAnnounced'
    BY <2>4, <2>5, <2>6 DEF SocketCloses, SocketFails
  <2>7. ASSUME NEW q \in subs, NEW st \in {"answered", "empty"},
               SubscribeAnswer(q, st) \/ SubscribeRefused(q) \/ SubscribeTimeout(q)
        PROVE  ReadyWasAnnounced'
    BY <2>7 DEF SubscribeAnswer, SubscribeRefused, SubscribeTimeout, selfVars
  <2>8. ASSUME NEW q \in subs, Subscribed(q) \/ NotInitialized(q)
        PROVE  ReadyWasAnnounced'
    BY <2>8 DEF Subscribed, NotInitialized, selfVars
  <2>9. CASE UNCHANGED vars
    BY <2>9 DEF vars, selfVars
  <2> QED
    BY <2>1, <2>2, <2>3, <2>6, <2>7, <2>8, <2>9 DEF Next
<1> QED
  BY <1>1, <1>2, PTL DEF Spec

-----------------------------------------------------------------------------
(* Requests and the sockets they wait on                                   *)

(* A number that is taken for a new socket has no request waiting on it,   *)
(* so setting it to CONNECTING takes no request's socket away.             *)
LEMMA CreateSocketKeepsRequests ==
  ASSUME TypeOK, RequestsHaveSocket, NEW p, NEW t \in Sockets, FreeSocket(t),
         NEW rs0 \in [Sockets -> ReadyStates],
         NEW onOpen0, NEW openWaiters0, NEW onError0, NEW forwards0, NEW onClose0,
         CreateSocket(p, t, rs0, onOpen0, openWaiters0, onError0, forwards0, onClose0),
         subs' \in SUBSET subs,
         \A q \in subs' : rs0[q.on] = rs[q.on]
  PROVE  RequestsHaveSocket'
<1>1. \A q \in subs' : q.on \in Sockets /\ q.on # t
  BY DEF TypeOK, Sub, FreeSocket
<1>2. rs' = [rs0 EXCEPT ![t] = "CONNECTING"]
  BY DEF CreateSocket
<1>3. \A q \in subs' : rs'[q.on] = rs[q.on]
  BY <1>1, <1>2
<1> QED
  BY <1>3 DEF RequestsHaveSocket

(* What connect() does keeps the sockets of the requests.                  *)
LEMMA StartConnectKeepsRequests ==
  ASSUME TypeOK, RequestsHaveSocket, NEW p \in Calls, NEW k, StartConnect(p, k)
  PROVE  RequestsHaveSocket'
<1>1. UNCHANGED subs
  BY DEF StartConnect
<1>2. CASE UNCHANGED rs
  BY <1>1, <1>2 DEF RequestsHaveSocket
<1>3. ASSUME NEW s \in Sockets, IsNextSocket(s),
             CreateSocket(p, s, rs, onOpen, openWaiters, onError, forwards, onClose)
      PROVE  RequestsHaveSocket'
  <2>1. FreeSocket(s)
    BY <1>3 DEF IsNextSocket, IsNext
  <2>2. rs \in [Sockets -> ReadyStates]
    BY DEF TypeOK
  <2> QED
    BY <1>1, <1>3, <2>1, <2>2, CreateSocketKeepsRequests
<1> QED
  BY <1>2, <1>3 DEF StartConnect

(* Closing a socket that opens or is open takes no answer away.            *)
LEMMA CloseSocketKeepsRequests ==
  ASSUME TypeOK, RequestsHaveSocket, NEW p, NEW k,
         State \in {"CONNECTING", "OPEN"}, CloseSocket(p, k), subs' \in SUBSET subs
  PROVE  RequestsHaveSocket'
<1>1. ws \in Sockets /\ rs[ws] \in {"CONNECTING", "OPEN"}
  BY DEF State, ReadyState, TypeOK, Sockets
<1>2. rs' = [rs EXCEPT ![ws] = IF @ = "OPEN" THEN "CLOSING" ELSE "ABORTING"]
  BY DEF CloseSocket
<1>3. ASSUME NEW q \in subs', q.st \in {"sent", "timed"}
      PROVE  rs'[q.on] \in {"OPEN", "CLOSING"}
  <2>1. q \in subs /\ q.on \in Sockets /\ rs[q.on] \in {"OPEN", "CLOSING"}
    BY <1>3 DEF RequestsHaveSocket, TypeOK, Sub
  <2>2. CASE q.on = ws
    BY <1>1, <1>2, <2>1, <2>2 DEF TypeOK
  <2>3. CASE q.on # ws
    BY <1>1, <1>2, <2>1, <2>3 DEF TypeOK
  <2> QED
    BY <2>2, <2>3
<1> QED
  BY <1>3 DEF RequestsHaveSocket

(* What the close event does keeps the sockets of the requests.            *)
LEMMA CloseEventKeepsRequests ==
  ASSUME TypeOK, RequestsHaveSocket, NEW s \in Sockets,
         NEW onClose0, NEW onError0, NEW errorBound0, NEW closeBound0, NEW failed,
         CloseEvent(s, onClose0, onError0, errorBound0, closeBound0, failed)
  PROVE  RequestsHaveSocket'
<1> DEFINE closed == [rs EXCEPT ![s] = "CLOSED"]
<1>1. closed \in [Sockets -> ReadyStates]
  BY DEF TypeOK, ReadyStates
<1>2. ASSUME NEW q \in WithoutRequests(s) PROVE q \in subs /\ closed[q.on] = rs[q.on]
  BY DEF WithoutRequests, SubsOn, TypeOK, Sub
<1>3. CASE Crash
  BY <1>3 DEF Crash, RequestsHaveSocket
<1>4. CASE rs' = closed /\ subs' = WithoutRequests(s)
  BY <1>2, <1>4 DEF RequestsHaveSocket
<1>5. ASSUME NEW p, NEW t \in Sockets, IsNextSocket(t),
             NEW onOpen0, NEW waiters0, NEW onError1, NEW forwards0, NEW onClose1,
             CreateSocket(p, t, closed, onOpen0, waiters0, onError1, forwards0,
                          onClose1),
             subs' = WithoutRequests(s)
      PROVE  RequestsHaveSocket'
  <2> HIDE DEF closed
  <2>1. FreeSocket(t)
    BY <1>5 DEF IsNextSocket, IsNext
  <2>2. subs' \in SUBSET subs /\ \A q \in subs' : closed[q.on] = rs[q.on]
    BY <1>2, <1>5
  <2> QED
    BY <1>1, <1>5, <2>1, <2>2, CreateSocketKeepsRequests
<1> QED
  BY <1>3, <1>4, <1>5 DEF CloseEvent

(* Every subscribe request that has been sent waits on a socket whose      *)
(* close event is still to come: it is answered, times out or is rejected  *)
(* with the socket, and is never left on a socket that is gone.            *)
THEOREM RequestsKeepSocket == Spec => []RequestsHaveSocket
<1>1. Init => RequestsHaveSocket
  BY DEF Init, RequestsHaveSocket
<1>2. TypeOK /\ RequestsHaveSocket /\ [Next]_vars => RequestsHaveSocket'
  <2> SUFFICES ASSUME TypeOK, RequestsHaveSocket, [Next]_vars
               PROVE  RequestsHaveSocket'
    OBVIOUS
  <2>1. ASSUME NEW p \in Calls, Connect(p) \/ TimerFires(p)
        PROVE  RequestsHaveSocket'
    BY <2>1, StartConnectKeepsRequests DEF Connect, TimerFires
  <2>2. ASSUME NEW p \in Calls, RetryAfterFailure(p) PROVE RequestsHaveSocket'
    BY <2>2 DEF RetryAfterFailure, RequestsHaveSocket
  <2>3. ASSUME NEW p \in Calls, Disconnect(p) PROVE RequestsHaveSocket'
    <3>1. UNCHANGED subs
      BY <2>3 DEF Disconnect
    <3>2. CASE UNCHANGED rs
      BY <3>1, <3>2 DEF RequestsHaveSocket
    <3> QED
      BY <2>3, <3>1, <3>2, CloseSocketKeepsRequests DEF Disconnect
  <2>4. ASSUME NEW s \in Sockets, SocketOpens(s) PROVE RequestsHaveSocket'
    <3>1. rs' = [rs EXCEPT ![s] = "OPEN"] /\ rs[s] = "CONNECTING"
      BY <2>4 DEF SocketOpens
    <3>2. ASSUME NEW q \in subs, q.st \in {"sent", "timed"}
          PROVE  rs'[q.on] \in {"OPEN", "CLOSING"}
      BY <3>1, <3>2 DEF RequestsHaveSocket, TypeOK, Sub
    <3>3. ASSUME NEW p, SubscribeOn(p).st \in {"sent", "timed"}
          PROVE  rs'[SubscribeOn(p).on] \in {"OPEN", "CLOSING"}
      BY <3>3 DEF SubscribeOn
    <3>4. subs' \subseteq subs \cup {SubscribeOn(onOpen[s])}
      BY <2>4 DEF SocketOpens
    <3> QED
      BY <3>2, <3>3, <3>4 DEF RequestsHaveSocket
  <2>5. ASSUME NEW s \in Sockets, CloseFrame(s) PROVE RequestsHaveSocket'
    BY <2>5 DEF CloseFrame, RequestsHaveSocket, TypeOK, Sub
  <2>6. ASSUME NEW s \in Sockets, SocketCloses(s) \/ SocketFails(s)
        PROVE  RequestsHaveSocket'
    <3>1. CASE Crash
      BY <3>1 DEF Crash, RequestsHaveSocket
    <3> QED
      BY <2>6, <3>1, CloseEventKeepsRequests DEF SocketCloses, SocketFails
  <2>7. ASSUME NEW q \in subs, NEW st \in {"answered", "empty"},
               SubscribeAnswer(q, st)
        PROVE  RequestsHaveSocket'
    <3>1. WithState(q, st).st \notin {"sent", "timed"}
      BY DEF WithState
    <3>2. UNCHANGED rs /\ subs' = (subs \ {q}) \cup {WithState(q, st)}
      BY <2>7 DEF SubscribeAnswer
    <3> QED
      BY <3>1, <3>2 DEF RequestsHaveSocket
  <2>8. ASSUME NEW q \in subs, SubscribeRefused(q) \/ SubscribeTimeout(q)
        PROVE  RequestsHaveSocket'
    BY <2>8 DEF SubscribeRefused, SubscribeTimeout, RequestsHaveSocket
  <2>9. ASSUME NEW q \in subs, Subscribed(q) PROVE RequestsHaveSocket'
    <3>1. UNCHANGED rs
      BY <2>9 DEF Subscribed
    <3>2. subs' = subs \ {q} \/ subs' = Released(subs \ {q})
      BY <2>9 DEF Subscribed
    <3>3. ASSUME NEW r \in subs', r.st \in {"sent", "timed"}
          PROVE  rs[r.on] \in {"OPEN", "CLOSING"}
      <4>1. PICK u \in subs : u.st \in {"sent", "timed"} /\ u.on = r.on
        <5>1. CASE subs' = subs \ {q}
          BY <3>3, <5>1
        <5>2. CASE subs' = Released(subs \ {q})
          BY <3>3, <5>2 DEF Released, WithState
        <5> QED
          BY <3>2, <5>1, <5>2
      <4> QED
        BY <4>1 DEF RequestsHaveSocket
    <3> QED
      BY <3>1, <3>3 DEF RequestsHaveSocket
  <2>10. ASSUME NEW q \in subs, NotInitialized(q) PROVE RequestsHaveSocket'
    <3>1. subs' \in SUBSET subs
      BY <2>10 DEF NotInitialized
    <3>2. CASE UNCHANGED rs
      BY <3>1, <3>2 DEF RequestsHaveSocket
    <3> QED
      BY <2>10, <3>1, <3>2, CloseSocketKeepsRequests DEF NotInitialized
  <2>11. CASE UNCHANGED vars
    BY <2>11 DEF vars, RequestsHaveSocket
  <2> QED
    BY <2>1, <2>2, <2>3, <2>4, <2>5, <2>6, <2>7, <2>8, <2>9, <2>10, <2>11 DEF Next
<1> QED
  BY <1>1, <1>2, TypeCorrect, PTL DEF Spec

-----------------------------------------------------------------------------
(* The promise of disconnect()                                             *)

(* A disconnect() whose promise is pending, and a listener that settles it.*)
Unsettled(p) == callKind[p] = "disconnect" /\ callResult[p] = "pending"
Settler(p, l) == l.p = p /\ l.kind \in {"destroy", "resolve"}

(* What Settle leaves pending was pending, and it was told nothing.        *)
LEMMA SettlePending ==
  ASSUME TypeOK, NEW resolved, NEW rejected, NEW p \in Calls,
         Settle(resolved, rejected)[p] = "pending"
  PROVE  callResult[p] = "pending" /\ p \notin resolved /\ p \notin rejected
BY DEF Settle, TypeOK

(* removeListener(..., _onUnexpectedCloseBound) takes no listener away     *)
(* that settles a disconnect().                                            *)
LEMMA WithoutBoundKeeps ==
  ASSUME TypeOK, NEW listeners, NEW s, NEW l \in listeners, NEW p, Settler(p, l)
  PROVE  l \in WithoutBound(listeners, s)
BY DEF TypeOK, Bound, WithoutBound, Settler

(* A step that settles no other way and lets every listener of a living    *)
(* socket that settles a disconnect() stay.                                *)
LEMMA KeepsSettlers ==
  ASSUME DisconnectNotLost,
         \A p \in Calls : Unsettled(p)' => Unsettled(p),
         \A p \in Calls, s \in Sockets : \A l \in onClose[s] :
           Unsettled(p)' /\ rs[s] \in Live /\ Settler(p, l) =>
             rs'[s] \in Live /\ l \in onClose'[s]
  PROVE  DisconnectNotLost'
<1> SUFFICES ASSUME NEW p \in Calls, Unsettled(p)'
             PROVE  \E s \in LiveSockets' : \E l \in onClose'[s] : Settler(p, l)
  BY DEF DisconnectNotLost, Unsettled, Settler
<1>1. PICK s \in LiveSockets : \E l \in onClose[s] : Settler(p, l)
  BY DEF DisconnectNotLost, Unsettled, Settler
<1>2. s \in Sockets /\ rs[s] \in Live
  BY DEF LiveSockets
<1>3. PICK l \in onClose[s] : Settler(p, l)
  BY <1>1
<1>4. s \in LiveSockets' /\ l \in onClose'[s]
  BY <1>2, <1>3 DEF LiveSockets
<1> QED
  BY <1>3, <1>4

(* What connect() does keeps a listener for every disconnect().            *)
LEMMA StartConnectKeepsSettlers ==
  ASSUME TypeOK, DisconnectNotLost, NEW p \in Calls, NEW k \in {"connect", "retry"},
         StartConnect(p, k)
  PROVE  DisconnectNotLost'
<1>1. \A c \in Calls : Unsettled(c)' => Unsettled(c)
  BY DEF StartConnect, MakeCall, Unsettled, TypeOK
<1>2. CASE UNCHANGED <<rs, onClose>>
  BY <1>1, <1>2, KeepsSettlers
<1>3. ASSUME NEW s \in Sockets, IsNextSocket(s),
             CreateSocket(p, s, rs, onOpen, openWaiters, onError, forwards, onClose)
      PROVE  DisconnectNotLost'
  <2>1. rs[s] \notin Live
    BY <1>3 DEF IsNextSocket, IsNext, FreeSocket
  <2>2. \A t \in Sockets \ {s} : rs'[t] = rs[t] /\ onClose'[t] = onClose[t]
    BY <1>3 DEF CreateSocket, TypeOK
  <2> QED
    BY <1>1, <2>1, <2>2, KeepsSettlers
<1> QED
  BY <1>2, <1>3 DEF StartConnect, listenVars

(* Closing the current socket only adds a listener of its close event.     *)
LEMMA CloseSocketSettlers ==
  ASSUME TypeOK, ws \in Sockets, NEW p, NEW k, CloseSocket(p, k)
  PROVE  /\ \A c \in Calls, s \in Sockets : \A l \in onClose[s] :
              rs[s] \in Live /\ Settler(c, l) => rs'[s] \in Live /\ l \in onClose'[s]
         /\ rs'[ws] \in Live
         /\ [kind |-> k, p |-> p] \in onClose'[ws]
<1>1. /\ rs'[ws] \in Live
      /\ onClose'[ws] = WithoutBound(onClose[ws], ws) \cup {[kind |-> k, p |-> p]}
  BY DEF CloseSocket, TypeOK, Live
<1>2. \A s \in Sockets \ {ws} : rs'[s] = rs[s] /\ onClose'[s] = onClose[s]
  BY DEF CloseSocket, TypeOK
<1>3. \A c \in Calls : \A l \in onClose[ws] : Settler(c, l) => l \in onClose'[ws]
  BY <1>1, WithoutBoundKeeps
<1> QED
  BY <1>1, <1>2, <1>3

(* A further disconnect() keeps a listener for every earlier one.          *)
LEMMA DisconnectKeepsSettlers ==
  ASSUME TypeOK, DisconnectNotLost, NEW p \in Calls, Disconnect(p)
  PROVE  DisconnectNotLost'
<1>1. \A c \in Calls \ {p} : callKind'[c] = callKind[c] /\ callResult'[c] = callResult[c]
  BY DEF Disconnect, MakeCall, TypeOK
<1>2. CASE State = "CLOSED" /\ UNCHANGED <<closeBound, rs, onClose>>
  <2>1. callResult'[p] = "resolved"
    BY <1>2 DEF Disconnect, MakeCall, TypeOK
  <2>2. \A c \in Calls : Unsettled(c)' => Unsettled(c)
    BY <1>1, <2>1 DEF Unsettled
  <2> QED
    BY <1>2, <2>2, KeepsSettlers
<1>3. ASSUME ws \in Sockets, rs'[ws] \in Live,
             NEW l0 \in onClose'[ws], Settler(p, l0),
             \A c \in Calls, s \in Sockets : \A l \in onClose[s] :
               rs[s] \in Live /\ Settler(c, l) => rs'[s] \in Live /\ l \in onClose'[s]
      PROVE  DisconnectNotLost'
  <2> SUFFICES ASSUME NEW c \in Calls, Unsettled(c)'
               PROVE  \E s \in LiveSockets' : \E l \in onClose'[s] : Settler(c, l)
    BY DEF DisconnectNotLost, Unsettled, Settler
  <2>1. CASE c = p
    BY <1>3, <2>1 DEF LiveSockets
  <2>2. CASE c # p
    <3>1. Unsettled(c)
      BY <1>1, <2>2 DEF Unsettled
    <3>2. PICK s \in LiveSockets : \E l \in onClose[s] : Settler(c, l)
      BY <3>1 DEF DisconnectNotLost, Unsettled, Settler
    <3>3. s \in Sockets /\ rs[s] \in Live
      BY DEF LiveSockets
    <3>4. PICK l \in onClose[s] : Settler(c, l)
      BY <3>2
    <3>5. s \in LiveSockets' /\ l \in onClose'[s]
      BY <1>3, <3>3, <3>4 DEF LiveSockets
    <3> QED
      BY <3>4, <3>5
  <2> QED
    BY <2>1, <2>2
<1>4. CASE /\ State = "CLOSING"
           /\ onClose' = [onClose EXCEPT ![ws] =
                            @ \cup {[kind |-> "resolve", p |-> p]}]
           /\ UNCHANGED <<closeBound, rs>>
  <2>1. ws \in Sockets /\ rs[ws] \in Live
    BY <1>4 DEF State, ReadyState, TypeOK, Sockets, Live
  <2>2. /\ [kind |-> "resolve", p |-> p] \in onClose'[ws]
        /\ \A s \in Sockets : onClose[s] \subseteq onClose'[s]
    BY <1>4, <2>1 DEF TypeOK
  <2>3. Settler(p, [kind |-> "resolve", p |-> p])
    BY DEF Settler
  <2> QED
    BY <1>3, <1>4, <2>1, <2>2, <2>3
<1>5. CASE State \in {"CONNECTING", "OPEN"} /\ CloseSocket(p, "destroy")
  <2>1. ws \in Sockets
    BY <1>5 DEF State, TypeOK, Sockets
  <2>2. Settler(p, [kind |-> "destroy", p |-> p])
    BY DEF Settler
  <2> QED
    BY <1>3, <1>5, <2>1, <2>2, CloseSocketSettlers
<1> QED
  BY <1>2, <1>4, <1>5 DEF Disconnect

(* A close event settles the disconnect() calls its listeners name, and    *)
(* the listeners of the other sockets stay.                                *)
LEMMA CloseEventKeepsSettlers ==
  ASSUME TypeOK, DisconnectNotLost, NEW s \in Sockets,
         NEW onClose0 \in [Sockets -> SUBSET Listener],
         NEW onError0, NEW errorBound0, NEW closeBound0, NEW failed,
         \A c \in Calls, t \in Sockets : \A l \in onClose[t] :
           Settler(c, l) => l \in onClose0[t],
         CloseEvent(s, onClose0, onError0, errorBound0, closeBound0, failed)
  PROVE  DisconnectNotLost'
<1> DEFINE Of(kinds) == {l \in onClose0[s] : l.kind \in kinds}
           resolved == Callers(Of({"destroy", "resolve"}))
           rejected == failed \cup Callers(Of({"uninit", "reject"}))
                              \cup Callers(SubsOn(s))
           closed == [rs EXCEPT ![s] = "CLOSED"]
           fired == [onClose0 EXCEPT ![s] = {}]
<1>1. CASE Crash
  <2>1. UNCHANGED <<rs, onClose, callKind, callResult>>
    BY <1>1 DEF Crash, listenVars, callVars
  <2> QED
    BY <2>1 DEF DisconnectNotLost, LiveSockets
<1>2. ASSUME callResult' = Settle(resolved, rejected), UNCHANGED callKind,
             \A t \in Sockets \ {s} : rs[t] \in Live =>
               rs'[t] = closed[t] /\ onClose'[t] = fired[t]
      PROVE  DisconnectNotLost'
  <2>1. ASSUME NEW c \in Calls, Unsettled(c)'
        PROVE  Unsettled(c) /\ c \notin resolved
    <3> HIDE DEF resolved, rejected
    <3>1. callResult[c] = "pending" /\ c \notin resolved
      BY <1>2, <2>1, SettlePending DEF Unsettled
    <3> QED
      BY <1>2, <2>1, <3>1 DEF Unsettled
  <2>2. ASSUME NEW c \in Calls, NEW t \in Sockets, NEW l \in onClose[t],
               Unsettled(c)', rs[t] \in Live, Settler(c, l)
        PROVE  rs'[t] \in Live /\ l \in onClose'[t]
    <3>1. l \in onClose0[t]
      BY <2>2
    <3>2. t # s
      <4> SUFFICES ASSUME t = s PROVE FALSE
        OBVIOUS
      <4>1. l \in Of({"destroy", "resolve"})
        BY <2>2, <3>1 DEF Settler
      <4>2. c \in resolved
        BY <2>2, <4>1 DEF Callers, Settler
      <4> QED
        BY <2>1, <2>2, <4>2
    <3>3. closed[t] = rs[t] /\ fired[t] = onClose0[t]
      BY <3>2 DEF TypeOK
    <3> QED
      BY <1>2, <2>2, <3>1, <3>2, <3>3
  <2> HIDE DEF resolved
  <2> QED
    BY <2>1, <2>2, KeepsSettlers
<1>3. CASE rs' = closed /\ onClose' = fired /\ UNCHANGED callKind
             /\ callResult' = Settle(resolved, rejected)
  <2> HIDE DEF resolved, rejected, closed, fired
  <2> QED
    BY <1>2, <1>3
<1>4. ASSUME NEW p, NEW t \in Sockets, IsNextSocket(t),
             NEW onOpen0, NEW waiters0, NEW onError1, NEW forwards0,
             CreateSocket(p, t, closed, onOpen0, waiters0, onError1, forwards0, fired),
             UNCHANGED callKind, callResult' = Settle(resolved, rejected)
      PROVE  DisconnectNotLost'
  <2>1. rs[t] \notin Live
    BY <1>4 DEF IsNextSocket, IsNext, FreeSocket
  <2>2. closed \in [Sockets -> ReadyStates] /\ fired \in [Sockets -> SUBSET Listener]
    BY DEF TypeOK, ReadyStates
  <2> HIDE DEF resolved, rejected, closed, fired
  <2>3. \A u \in Sockets \ {t} : rs'[u] = closed[u] /\ onClose'[u] = fired[u]
    BY <1>4, <2>2 DEF CreateSocket
  <2> QED
    BY <1>2, <1>4, <2>1, <2>3
<1> QED
  BY <1>1, <1>3, <1>4 DEF CloseEvent

(* The promise of disconnect() is never lost, whatever the application     *)
(* calls and whatever fails: as long as it is pending, a socket whose      *)
(* close event is still to come holds the listener that resolves it.       *)
THEOREM DisconnectSettles == Spec => []DisconnectNotLost
<1>1. Init => DisconnectNotLost
  BY DEF Init, DisconnectNotLost
<1>2. TypeOK /\ DisconnectNotLost /\ [Next]_vars => DisconnectNotLost'
  <2> SUFFICES ASSUME TypeOK, DisconnectNotLost, [Next]_vars
               PROVE  DisconnectNotLost'
    OBVIOUS
  <2>1. ASSUME NEW p \in Calls, Connect(p) \/ TimerFires(p)
        PROVE  DisconnectNotLost'
    BY <2>1, StartConnectKeepsSettlers DEF Connect, TimerFires
  <2>2. ASSUME NEW p \in Calls, Disconnect(p) PROVE DisconnectNotLost'
    BY <2>2, DisconnectKeepsSettlers
  <2>3. ASSUME NEW p \in Calls, RetryAfterFailure(p) PROVE DisconnectNotLost'
    <3>1. \A c \in Calls : Unsettled(c)' => Unsettled(c)
      BY <2>3 DEF RetryAfterFailure, Unsettled, TypeOK
    <3> QED
      BY <2>3, <3>1, KeepsSettlers DEF RetryAfterFailure, listenVars
  <2>4. ASSUME NEW s \in Sockets, SocketOpens(s) PROVE DisconnectNotLost'
    <3>1. \A c \in Calls : Unsettled(c)' => Unsettled(c)
      BY <2>4, SettlePending DEF SocketOpens, Unsettled
    <3>2. UNCHANGED onClose /\ \A t \in Sockets : rs[t] \in Live => rs'[t] \in Live
      BY <2>4 DEF SocketOpens, TypeOK, Live
    <3> QED
      BY <3>1, <3>2, KeepsSettlers
  <2>5. ASSUME NEW s \in Sockets, CloseFrame(s) PROVE DisconnectNotLost'
    <3>1. \A c \in Calls : Unsettled(c)' => Unsettled(c)
      BY <2>5 DEF CloseFrame, Unsettled, callVars
    <3>2. UNCHANGED onClose /\ \A t \in Sockets : rs[t] \in Live => rs'[t] \in Live
      BY <2>5 DEF CloseFrame, TypeOK, Live, listenVars
    <3> QED
      BY <3>1, <3>2, KeepsSettlers
  <2>6. ASSUME NEW s \in Sockets, SocketCloses(s) PROVE DisconnectNotLost'
    BY <2>6, CloseEventKeepsSettlers DEF SocketCloses, TypeOK
  <2>7. ASSUME NEW s \in Sockets, SocketFails(s) PROVE DisconnectNotLost'
    <3> DEFINE onClose0 == IF ws = 0 THEN onClose
                           ELSE [onClose EXCEPT ![ws] = WithoutBound(@, ws)]
    <3>1. CASE Crash
      <4>1. UNCHANGED <<rs, onClose, callKind, callResult>>
        BY <3>1 DEF Crash, listenVars, callVars
      <4> QED
        BY <4>1 DEF DisconnectNotLost, LiveSockets
    <3>2. CASE CloseEvent(s, onClose0, [onError EXCEPT ![s] = 0], 0, Nowhere,
                          {onError[s]})
      <4>1. onClose0 \in [Sockets -> SUBSET Listener]
        BY WithoutBoundType DEF TypeOK, Sockets
      <4>2. \A c \in Calls, t \in Sockets : \A l \in onClose[t] :
              Settler(c, l) => l \in onClose0[t]
        BY WithoutBoundKeeps DEF TypeOK, Sockets
      <4> HIDE DEF onClose0
      <4> QED
        BY <3>2, <4>1, <4>2, CloseEventKeepsSettlers
    <3> QED
      BY <2>7, <3>1, <3>2 DEF SocketFails
  <2>8. ASSUME NEW q \in subs, NEW st \in {"answered", "empty"},
               SubscribeAnswer(q, st)
        PROVE  DisconnectNotLost'
    <3>1. UNCHANGED <<rs, onClose, callKind, callResult>>
      BY <2>8 DEF SubscribeAnswer, listenVars, callVars
    <3> QED
      BY <3>1 DEF DisconnectNotLost, LiveSockets
  <2>9. ASSUME NEW q \in subs, SubscribeRefused(q) \/ SubscribeTimeout(q)
        PROVE  DisconnectNotLost'
    <3>1. \A c \in Calls : Unsettled(c)' => Unsettled(c)
      BY <2>9, SettlePending DEF SubscribeRefused, SubscribeTimeout, Unsettled
    <3> QED
      BY <2>9, <3>1, KeepsSettlers DEF SubscribeRefused, SubscribeTimeout, listenVars
  <2>10. ASSUME NEW q \in subs, Subscribed(q) PROVE DisconnectNotLost'
    <3>1. \A c \in Calls : Unsettled(c)' => Unsettled(c)
      BY <2>10, SettlePending DEF Subscribed, Unsettled
    <3>2. \A c \in Calls, t \in Sockets : \A l \in onClose[t] :
            Settler(c, l) => l \in onClose'[t]
      <4>1. CASE UNCHANGED onClose
        BY <4>1
      <4>2. CASE ws # 0 /\ Rebind
        BY <4>2, WithoutBoundKeeps DEF Rebind, TypeOK
      <4> QED
        BY <2>10, <4>1, <4>2 DEF Subscribed
    <3> QED
      BY <2>10, <3>1, <3>2, KeepsSettlers DEF Subscribed
  <2>11. ASSUME NEW q \in subs, NotInitialized(q) PROVE DisconnectNotLost'
    <3>1. \A c \in Calls : Unsettled(c)' => Unsettled(c)
      BY <2>11, SettlePending DEF NotInitialized, Unsettled
    <3>2. CASE UNCHANGED <<rs, onClose>>
      BY <3>1, <3>2, KeepsSettlers
    <3>3. CASE /\ onClose' = [onClose EXCEPT ![ws] =
                                @ \cup {[kind |-> "reject", p |-> q.p]}]
               /\ UNCHANGED rs
      <4>1. \A t \in Sockets : onClose[t] \subseteq onClose'[t]
        BY <3>3 DEF TypeOK
      <4> QED
        BY <3>1, <3>3, <4>1, KeepsSettlers
    <3>4. CASE State \in {"CONNECTING", "OPEN"} /\ CloseSocket(q.p, "uninit")
      <4>1. ws \in Sockets
        BY <3>4 DEF State, TypeOK, Sockets
      <4> QED
        BY <3>1, <3>4, <4>1, CloseSocketSettlers, KeepsSettlers
    <3> QED
      BY <2>11, <3>2, <3>3, <3>4 DEF NotInitialized
  <2>12. CASE UNCHANGED vars
    BY <2>12 DEF vars, listenVars, callVars, DisconnectNotLost, LiveSockets
  <2> QED
    BY <2>1, <2>2, <2>3, <2>4, <2>5, <2>6, <2>7, <2>8, <2>9, <2>10, <2>11, <2>12
    DEF Next
<1> QED
  BY <1>1, <1>2, TypeCorrect, PTL DEF Spec

-----------------------------------------------------------------------------
(***************************************************************************)
(* A careful application, no close or refusal in a handshake: Connection   *)
(* implements Link, and has the invariants that connection_careful checks. *)
(*                                                                         *)
(* They hold because the object is in one of five situations at any time,  *)
(* and each of them says which socket lives, which listeners it has, which *)
(* promises are pending and what waits for them (CarefulInv).              *)
(***************************************************************************)
(* The promises that wait, and the attempts that have failed and whose     *)
(* reaction arms the next timer.                                           *)
Pending == {p \in Calls : callKind[p] # "free" /\ callResult[p] = "pending"}
Failed == {p \in Calls : callKind[p] = "retry" /\ callResult[p] = "rejected"}

OfConnect(p) == p \in Calls /\ callKind[p] \in {"connect", "retry"}

(* The listeners of disconnect() calls on a closing socket.                *)
Resolvers(R) == \A l \in R : l.kind = "resolve" /\ l.p \in Calls /\ callKind[l.p] = "disconnect"

(* No socket lives: this._ws is null, or has failed to open.               *)
Down ==
  /\ ws # 0 => rs[ws] = "CLOSED"
  /\ subs = {} /\ Pending = {} /\ ~isReady /\ announced # "connected"
  /\ timer => Failed = {}
  /\ \A p, q \in Failed : p = q

(* In the others one does, and no timer runs.                              *)
Up == ws \in Sockets /\ ~timer /\ Failed = {}

Connecting(p) ==
  /\ Up /\ rs[ws] = "CONNECTING" /\ ~isReady /\ announced # "connected"
  /\ subs = {} /\ Pending = {p} /\ OfConnect(p)
  /\ onOpen[ws] = p /\ openWaiters[ws] = {} /\ onError[ws] = p /\ errorBound = ws
  /\ onClose[ws] = {[kind |-> "before", p |-> p]}
  /\ closeBound = [on |-> ws, kind |-> "before"]

Handshaking(p) ==
  /\ Up /\ rs[ws] = "OPEN" /\ ~isReady /\ announced # "connected"
  /\ Pending = {p} /\ OfConnect(p) /\ onError[ws] = 0
  /\ \E st \in {"sent", "answered", "empty"} : subs = {[p |-> p, on |-> ws, st |-> st]}
  /\ onClose[ws] = {[kind |-> "before", p |-> p]}
  /\ closeBound = [on |-> ws, kind |-> "before"]

(* Ready for requests, until the socket has closed.                        *)
Serving(R) ==
  /\ Up /\ isReady /\ announced = "connected"
  /\ \/ rs[ws] = "OPEN" /\ R = {}
     \/ rs[ws] = "CLOSING"
  /\ subs = {} /\ Pending = Callers(R) /\ Resolvers(R)
  /\ onError[ws] = 0 /\ ws \in forwards
  /\ onClose[ws] = {[kind |-> "after", p |-> 0]} \cup R
  /\ closeBound = [on |-> ws, kind |-> "after"]

(* By _disconnect: of disconnect(), or of a server with no ledger.         *)
Closing(kind, p, R) ==
  /\ Up /\ rs[ws] = "CLOSING" /\ subs = {}
  /\ Pending = {p} \cup Callers(R) /\ Resolvers(R)
  /\ onClose[ws] = {[kind |-> kind, p |-> p]} \cup R
  /\ closeBound = Nowhere /\ onError[ws] = 0
  /\ \/ kind = "destroy" /\ isReady /\ announced = "connected" /\ ws \in forwards
        /\ p \in Calls /\ callKind[p] = "disconnect"
     \/ kind = "uninit" /\ ~isReady /\ announced # "connected" /\ OfConnect(p)

OthersGone ==
  /\ \A s \in Sockets : s # ws => rs[s] \notin Live
  /\ \A s \in Sockets : rs[s] \notin Live => onClose[s] = {}

Situation ==
  \/ Down
  \/ \E p \in Calls : Connecting(p) \/ Handshaking(p)
  \/ \E R \in SUBSET Listener :
       Serving(R) \/ \E kind \in CloseKinds, p \in Calls : Closing(kind, p, R)

CarefulInv ==
  Careful /\ ~HandshakeFaults /\ strays = 0 /\ OthersGone /\ Situation

(* What a step does, seen from outside.                                    *)
LinkStep == Promised!LinkNext \/ UNCHANGED <<phaseOf, isReady>>
ReadyStep ==
  \A p \in Calls :
    callKind'[p] = "connect" /\ callResult'[p] = "resolved"
      /\ callResult[p] # "resolved" => IsConnected'
ThrowStep ==
  crashed' /\ ~crashed =>
    /\ ws # 0 /\ rs[ws] \in {"OPEN", "CLOSING"}
    /\ ~isReady /\ announced # "connected"
Good == CarefulInv' /\ LinkStep /\ ReadyStep /\ ThrowStep

(* ------------------------------- Promises ------------------------------ *)

LEMMA CallIs == \A p \in Calls : p # 0 /\ p \in 0 .. MaxCalls
BY SizeAssumption DEF Calls

LEMMA SocketIs == \A s \in Sockets : s # 0 /\ s \in 0 .. MaxSockets
BY SizeAssumption DEF Sockets

(* A number is free when no promise that is pending, or whose reaction is  *)
(* to run, has it.                                                         *)
LEMMA PromiseMade ==
  ASSUME TypeOK, NEW p \in Calls, IsNextCall(p), NEW k \in {"connect", "retry", "disconnect"},
         NEW r \in {"pending", "resolved"}, MakeCall(p, k, r)
  PROVE  /\ p \notin Pending /\ p \notin Failed
         /\ Failed' = Failed
         /\ Pending' = IF r = "pending" THEN Pending \cup {p} ELSE Pending
         /\ callKind'[p] = k /\ callResult'[p] = r
         /\ \A c \in Calls : c # p => callKind'[c] = callKind[c]
                                      /\ callResult'[c] = callResult[c]
<1>1. \/ callKind[p] = "free"
      \/ callResult[p] \in {"resolved", "handled"}
      \/ callKind[p] # "retry" /\ callResult[p] = "rejected"
  BY DEF IsNextCall, IsNext, FreeCall
<1>2. p \notin Pending /\ p \notin Failed
  BY <1>1 DEF Pending, Failed
<1>3. /\ callKind'[p] = k /\ callResult'[p] = r
      /\ \A c \in Calls : c # p => callKind'[c] = callKind[c]
                                   /\ callResult'[c] = callResult[c]
  BY DEF MakeCall, TypeOK
<1>4. Failed' = Failed
  BY <1>2, <1>3 DEF Failed
<1>5. Pending' = IF r = "pending" THEN Pending \cup {p} ELSE Pending
  BY <1>2, <1>3 DEF Pending
<1>6. QED
  BY <1>2, <1>3, <1>4, <1>5

LEMMA PromisesSettled ==
  ASSUME TypeOK, NEW resolved, NEW rejected,
         callResult' = Settle(resolved, rejected), UNCHANGED callKind
  PROVE  /\ Pending' = Pending \ (resolved \cup rejected)
         /\ Failed' = Failed \cup {p \in Pending \cap rejected : callKind[p] = "retry"}
         /\ \A p \in Calls : callResult'[p] = "resolved" /\ callResult[p] # "resolved"
                               => p \in Pending \cap resolved \/ callKind[p] = "free"
<1>1. \A p \in Calls :
        callResult'[p] = IF callResult[p] # "pending" THEN callResult[p]
                         ELSE IF p \in rejected THEN "rejected"
                         ELSE IF p \in resolved THEN "resolved" ELSE "pending"
  BY DEF Settle
<1>2. Pending' = Pending \ (resolved \cup rejected)
  BY <1>1 DEF Pending
<1>3. Failed' = Failed \cup {p \in Pending \cap rejected : callKind[p] = "retry"}
  BY <1>1 DEF Pending, Failed
<1>4. QED
  BY <1>1, <1>2, <1>3 DEF Pending

(* -------------------------------- Phases ------------------------------- *)

LEMMA PhaseNow ==
  /\ Down => phaseOf \in {"none", "dead"} /\ State = "CLOSED"
  /\ ws # 0 /\ rs[ws] = "CONNECTING" => phaseOf = "connecting" /\ State = "CONNECTING"
  /\ ws # 0 /\ rs[ws] = "OPEN" => phaseOf = "open" /\ State = "OPEN"
  /\ ws # 0 /\ rs[ws] = "CLOSING" => phaseOf = "closing" /\ State = "CLOSING"
<1>1. Down => phaseOf \in {"none", "dead"} /\ State = "CLOSED"
  <2>1. CASE ws = 0
    BY <2>1 DEF phaseOf, State
  <2>2. CASE ws # 0
    BY <2>2 DEF Down, phaseOf, State, ReadyState
  <2>3. QED
    BY <2>1, <2>2
<1>2. ws # 0 /\ rs[ws] = "CONNECTING" => phaseOf = "connecting" /\ State = "CONNECTING"
  BY DEF phaseOf, State, ReadyState
<1>3. ws # 0 /\ rs[ws] = "OPEN" => phaseOf = "open" /\ State = "OPEN"
  BY DEF phaseOf, State, ReadyState
<1>4. ws # 0 /\ rs[ws] = "CLOSING" => phaseOf = "closing" /\ State = "CLOSING"
  BY DEF phaseOf, State, ReadyState
<1>5. QED
  BY <1>1, <1>2, <1>3, <1>4

LEMMA PhaseNext ==
  /\ ws' = 0 => phaseOf' = "none"
  /\ ws' # 0 /\ rs'[ws'] = "CLOSED" => phaseOf' = "dead"
  /\ ws' # 0 /\ rs'[ws'] = "CONNECTING" => phaseOf' = "connecting"
  /\ ws' # 0 /\ rs'[ws'] = "OPEN" => phaseOf' = "open" /\ State' = "OPEN"
  /\ ws' # 0 /\ rs'[ws'] = "CLOSING" => phaseOf' = "closing"
<1>1. ws' = 0 => phaseOf' = "none"
  BY DEF phaseOf
<1>2. ws' # 0 /\ rs'[ws'] = "CLOSED" => phaseOf' = "dead"
  BY DEF phaseOf
<1>3. ws' # 0 /\ rs'[ws'] = "CONNECTING" => phaseOf' = "connecting"
  BY DEF phaseOf
<1>4. ws' # 0 /\ rs'[ws'] = "OPEN" => phaseOf' = "open" /\ State' = "OPEN"
  BY DEF phaseOf, State, ReadyState
<1>5. ws' # 0 /\ rs'[ws'] = "CLOSING" => phaseOf' = "closing"
  BY DEF phaseOf
<1>6. QED
  BY <1>1, <1>2, <1>3, <1>4, <1>5

(* The socket that lives is this._ws.                                      *)
LEMMA LiveIsCurrent ==
  ASSUME CarefulInv, TypeOK, NEW s \in Sockets, rs[s] \in Live
  PROVE  s = ws /\ ~Down
BY SocketIs DEF CarefulInv, OthersGone, Down, Live

(* Of a socket that lives one knows the situation.                         *)
LEMMA Situations ==
  ASSUME CarefulInv, TypeOK, ~Down
  PROVE  /\ ws \in Sockets /\ ws # 0 /\ ~timer /\ Failed = {}
         /\ \/ \E p \in Calls : Connecting(p)
            \/ \E p \in Calls : Handshaking(p)
            \/ \E R \in SUBSET Listener : Serving(R)
            \/ \E R \in SUBSET Listener, kind \in CloseKinds, p \in Calls :
                 Closing(kind, p, R)
<1>1. \/ \E p \in Calls : Connecting(p)
      \/ \E p \in Calls : Handshaking(p)
      \/ \E R \in SUBSET Listener : Serving(R)
      \/ \E R \in SUBSET Listener, kind \in CloseKinds, p \in Calls : Closing(kind, p, R)
  BY DEF CarefulInv, Situation
<1>2. Up
  BY <1>1 DEF Connecting, Handshaking, Serving, Closing
<1>3. QED
  BY <1>1, <1>2, SocketIs DEF Up

(* ---------------------------- A new connection ------------------------- *)

(* connect() and the timer make a socket when none lives.                  *)
LEMMA Created ==
  ASSUME TypeOK, TypeOK', CarefulInv,
         NEW p \in Calls, NEW t \in Sockets, t # ws,
         NEW rs0 \in [Sockets -> ReadyStates], NEW onOpen0 \in [Sockets -> 0 .. MaxCalls],
         NEW openWaiters0 \in [Sockets -> SUBSET Calls],
         NEW onError0 \in [Sockets -> 0 .. MaxCalls], NEW forwards0,
         NEW onClose0 \in [Sockets -> SUBSET Listener],
         CreateSocket(p, t, rs0, onOpen0, openWaiters0, onError0, forwards0, onClose0),
         \A s \in Sockets : rs0[s] \notin Live /\ onClose0[s] = {},
         timer' = FALSE, Failed' = {}, Pending' = {p}, OfConnect(p)', subs' = {},
         ~isReady', announced' # "connected", strays' = 0
  PROVE  CarefulInv' /\ phaseOf' = "connecting"
<1>1. /\ ws' = t /\ rs'[t] = "CONNECTING" /\ onOpen'[t] = p /\ openWaiters'[t] = {}
      /\ onError'[t] = p /\ onClose'[t] = {[kind |-> "before", p |-> p]}
      /\ errorBound' = t /\ closeBound' = [on |-> t, kind |-> "before"]
      /\ \A s \in Sockets : s # t => rs'[s] = rs0[s] /\ onClose'[s] = onClose0[s]
  BY DEF CreateSocket
<1>2. Connecting(p)'
  BY <1>1 DEF Connecting, Up
<1>3. OthersGone'
  BY <1>1 DEF OthersGone, Live
<1>4. CarefulInv'
  BY <1>2, <1>3 DEF CarefulInv, Situation
<1>5. QED
  BY <1>1, <1>4, PhaseNext, SocketIs

LEMMA StartWhenDown ==
  ASSUME TypeOK, TypeOK', CarefulInv, Down, Failed = {}, NEW p \in Calls, IsNextCall(p),
         NEW k \in {"connect", "retry"}, StartConnect(p, k), strays' = 0
  PROVE  Good
<1>1. State = "CLOSED" /\ phaseOf \in {"none", "dead"}
  BY PhaseNow
<1>2. PICK t \in Sockets :
        /\ IsNextSocket(t)
        /\ CreateSocket(p, t, rs, onOpen, openWaiters, onError, forwards, onClose)
  BY <1>1 DEF StartConnect
<1>3. /\ MakeCall(p, k, "pending") /\ timer' = FALSE
      /\ UNCHANGED <<isReady, announced, subs, crashed>>
  BY <1>1 DEF StartConnect, ClearTimer
<1>4. /\ Failed' = {} /\ Pending' = {p} /\ callKind'[p] = k /\ callResult'[p] = "pending"
      /\ \A c \in Calls : c # p => callResult'[c] = callResult[c]
  BY <1>3, PromiseMade DEF Down
<1>5. t # ws
  BY <1>2 DEF IsNextSocket, IsNext, FreeSocket
<1>6. \A s \in Sockets : rs[s] \notin Live /\ onClose[s] = {}
  BY LiveIsCurrent DEF CarefulInv, OthersGone
<1>7. CarefulInv' /\ phaseOf' = "connecting"
  <2>1. /\ rs \in [Sockets -> ReadyStates] /\ onOpen \in [Sockets -> 0 .. MaxCalls]
        /\ openWaiters \in [Sockets -> SUBSET Calls]
        /\ onError \in [Sockets -> 0 .. MaxCalls]
        /\ onClose \in [Sockets -> SUBSET Listener]
    BY DEF TypeOK
  <2>2. OfConnect(p)'
    BY <1>4 DEF OfConnect
  <2>3. subs' = {} /\ ~isReady' /\ announced' # "connected"
    BY <1>3 DEF Down, CarefulInv
  <2>4. QED
    BY <1>2, <1>3, <1>4, <1>5, <1>6, <2>1, <2>2, <2>3, Created
<1>8. LinkStep
  BY <1>1, <1>3, <1>7 DEF LinkStep, Promised!LinkNext, Promised!Create
<1>9. ReadyStep
  BY <1>4 DEF ReadyStep
<1>10. QED
  BY <1>3, <1>7, <1>8, <1>9 DEF Good, ThrowStep

LEMMA ConnectStep ==
  ASSUME TypeOK, TypeOK', CarefulInv, NEW p \in Calls, Connect(p)
  PROVE  Good
<1>1. /\ IsNextCall(p) /\ StartConnect(p, "connect") /\ strays' = 0 /\ ~crashed
      /\ Quiet /\ (IsConnected \/ State = "CLOSED") /\ UNCHANGED <<isReady, announced, subs, crashed>>
  BY DEF CarefulInv, Connect, MayConnect, StartConnect
<1>2. CASE Down
  <2>1. Failed = {}
    BY <1>1 DEF Quiet, Failed
  <2>2. QED
    BY <1>1, <1>2, <2>1, StartWhenDown
<1>3. CASE ~Down
  <2>1. ws \in Sockets /\ ws # 0 /\ ~timer /\ Failed = {}
    BY <1>3, Situations
  <2>2. /\ State # "CLOSED"
        /\ State = "OPEN" => rs[ws] = "OPEN"
    <3>1. rs[ws] \in {"CONNECTING", "OPEN", "CLOSING"}
      BY <1>3, Situations DEF Connecting, Handshaking, Serving, Closing
    <3>2. QED
      BY <2>1, <3>1, PhaseNow
  <2>3. State = "OPEN" /\ isReady
    BY <1>1, <2>2 DEF IsConnected
  <2>4. Serving({})
    <3>1. rs[ws] = "OPEN"
      BY <2>2, <2>3
    <3>2. PICK R \in SUBSET Listener : Serving(R)
      BY <1>3, <2>3, <3>1, Situations DEF Connecting, Handshaking, Closing
    <3>3. R = {}
      BY <3>1, <3>2 DEF Serving
    <3>4. QED
      BY <3>2, <3>3
  <2>5. MakeCall(p, "connect", "resolved") /\ UNCHANGED <<ws, boundVars, rs, listenVars>>
        /\ timer' = FALSE
    BY <1>1, <2>3 DEF StartConnect, ClearTimer
  <2>6. /\ Failed' = {} /\ Pending' = {}
        /\ \A c \in Calls : c # p => callResult'[c] = callResult[c]
    BY <1>1, <2>1, <2>4, <2>5, PromiseMade DEF Serving, Callers
  <2>7. Serving({})'
    BY <1>1, <2>4, <2>5, <2>6 DEF Serving, Up, Resolvers, Callers, boundVars, listenVars
  <2>8. OthersGone'
    BY <2>5 DEF CarefulInv, OthersGone, listenVars
  <2>9. CarefulInv'
    BY <1>1, <2>7, <2>8 DEF CarefulInv, Situation
  <2>10. LinkStep
    BY <1>1, <2>5 DEF LinkStep, phaseOf
  <2>11. ReadyStep
    BY <1>1, <2>3, <2>5 DEF ReadyStep, IsConnected, State, ReadyState
  <2>12. QED
    BY <1>1, <2>9, <2>10, <2>11 DEF Good, ThrowStep
<1>4. QED
  BY <1>2, <1>3

LEMMA TimerFiresStep ==
  ASSUME TypeOK, TypeOK', CarefulInv, NEW p \in Calls, TimerFires(p)
  PROVE  Good
<1>1. timer /\ strays' = 0 /\ IsNextCall(p) /\ StartConnect(p, "retry")
  BY DEF CarefulInv, TimerFires
<1>2. Down /\ Failed = {}
  BY <1>1, Situations DEF Down
<1>3. QED
  BY <1>1, <1>2, StartWhenDown

LEMMA RetryStep ==
  ASSUME TypeOK, TypeOK', CarefulInv, NEW p \in Calls, RetryAfterFailure(p)
  PROVE  Good
<1>1. /\ callKind[p] = "retry" /\ callResult[p] = "rejected" /\ ArmTimer
      /\ callResult' = [callResult EXCEPT ![p] = "handled"] /\ UNCHANGED callKind
      /\ UNCHANGED <<ws, isReady, announced, boundVars, rs, listenVars, subs, crashed>>
  BY DEF RetryAfterFailure, selfVars
<1>2. p \in Failed
  BY <1>1 DEF Failed
<1>3. Down /\ ~timer
  BY <1>2, Situations DEF Down
<1>4. timer' = TRUE /\ strays' = 0
  BY <1>1, <1>3 DEF ArmTimer, CarefulInv
<1>5. Failed' = {} /\ Pending' = {}
  <2>1. \A c \in Calls : c # p => callResult'[c] = callResult[c]
    BY <1>1 DEF TypeOK
  <2>2. callResult'[p] = "handled"
    BY <1>1 DEF TypeOK
  <2>3. \A c \in Calls : c # p => c \notin Failed
    BY <1>2, <1>3 DEF Down
  <2>4. QED
    BY <1>1, <1>3, <2>1, <2>2, <2>3 DEF Failed, Pending, Down
<1>6. Down'
  BY <1>1, <1>3, <1>5 DEF Down
<1>7. OthersGone'
  BY <1>1 DEF CarefulInv, OthersGone, listenVars
<1>8. CarefulInv'
  BY <1>1, <1>4, <1>6, <1>7 DEF CarefulInv, Situation
<1>9. LinkStep /\ ReadyStep
  BY <1>1 DEF LinkStep, phaseOf, ReadyStep, TypeOK
<1>10. QED
  BY <1>1, <1>8, <1>9 DEF Good, ThrowStep

(* ------------------------------ disconnect() --------------------------- *)

(* Unbinding takes the listener away that the connection has bound.        *)
LEMMA Unbound ==
  ASSUME NEW kind, NEW p, closeBound = [on |-> ws, kind |-> kind]
  PROVE  WithoutBound({[kind |-> kind, p |-> p]}, ws) = {}
BY DEF WithoutBound

LEMMA SocketClosing ==
  ASSUME TypeOK, CarefulInv, ws \in Sockets, rs[ws] = "OPEN",
         NEW bound, NEW q, onClose[ws] = {[kind |-> bound, p |-> q]},
         closeBound = [on |-> ws, kind |-> bound],
         NEW p \in Calls, NEW kind, CloseSocket(p, kind), UNCHANGED ws
  PROVE  /\ rs'[ws] = "CLOSING" /\ closeBound' = Nowhere
         /\ onClose'[ws] = {[kind |-> kind, p |-> p]} \cup {}
         /\ OthersGone'
<1>1. WithoutBound(onClose[ws], ws) = {}
  BY Unbound
<1>2. /\ rs'[ws] = "CLOSING" /\ closeBound' = Nowhere
      /\ onClose'[ws] = {[kind |-> kind, p |-> p]} \cup {}
      /\ \A s \in Sockets : s # ws => rs'[s] = rs[s] /\ onClose'[s] = onClose[s]
  BY <1>1 DEF CloseSocket, TypeOK
<1>3. OthersGone'
  BY <1>2 DEF CarefulInv, OthersGone, Live
<1>4. QED
  BY <1>2, <1>3

(* One more disconnect() waits for the end of a closing socket.            *)
LEMMA MoreResolvers ==
  ASSUME TypeOK, CarefulInv, ws \in Sockets, rs[ws] \in Live, NEW p \in Calls, UNCHANGED <<ws, rs>>,
         onClose' = [onClose EXCEPT ![ws] = @ \cup {[kind |-> "resolve", p |-> p]}]
  PROVE  /\ onClose'[ws] = onClose[ws] \cup {[kind |-> "resolve", p |-> p]}
         /\ OthersGone'
<1>1. /\ onClose'[ws] = onClose[ws] \cup {[kind |-> "resolve", p |-> p]}
      /\ \A s \in Sockets : s # ws => onClose'[s] = onClose[s]
  BY DEF TypeOK
<1>2. QED
  BY <1>1 DEF CarefulInv, OthersGone

LEMMA OneMoreCaller ==
  ASSUME NEW R, NEW p
  PROVE  Callers(R \cup {[kind |-> "resolve", p |-> p]}) = Callers(R) \cup {p}
<1>1. [kind |-> "resolve", p |-> p].p = p
  OBVIOUS
<1>2. ASSUME NEW l
      PROVE  Callers(R \cup {l}) = Callers(R) \cup {l.p}
  BY DEF Callers
<1>3. QED
  BY <1>1, <1>2

LEMMA DisconnectStep ==
  ASSUME TypeOK, TypeOK', CarefulInv, NEW p \in Calls, Disconnect(p)
  PROVE  Good
<1>1. /\ IsNextCall(p) /\ Awaited /\ Quiet /\ subs = {} /\ State # "CONNECTING"
      /\ timer' = FALSE
      /\ MakeCall(p, "disconnect", IF State = "CLOSED" THEN "resolved" ELSE "pending")
      /\ UNCHANGED <<ws, isReady, announced, strays, errorBound, onOpen, openWaiters,
                     onError, forwards, subs, crashed>>
  BY DEF CarefulInv, Disconnect, MayDisconnect, ClearTimer, selfVars
<1>2. /\ p \notin Pending /\ p \notin Failed /\ Failed' = Failed
      /\ callKind'[p] = "disconnect"
      /\ Pending' = IF State = "CLOSED" THEN Pending ELSE Pending \cup {p}
      /\ \A c \in Calls : c # p => callKind'[c] = callKind[c]
                                   /\ callResult'[c] = callResult[c]
  BY <1>1, PromiseMade
<1>3. ReadyStep
  BY <1>2 DEF ReadyStep
<1>4. CASE Down
  <2>1. State = "CLOSED"
    BY <1>4, PhaseNow
  <2>2. UNCHANGED <<closeBound, rs, onClose>>
    BY <2>1 DEF Disconnect
  <2>3. Down'
    BY <1>1, <1>2, <1>4, <2>1, <2>2 DEF Down
  <2>4. OthersGone'
    BY <1>1, <2>2 DEF CarefulInv, OthersGone
  <2>5. CarefulInv'
    BY <1>1, <2>3, <2>4 DEF CarefulInv, Situation
  <2>6. LinkStep
    BY <1>1, <2>2 DEF LinkStep, phaseOf
  <2>7. QED
    BY <1>1, <1>3, <2>5, <2>6 DEF Good, ThrowStep
<1>5. ASSUME ~Down, NEW R \in SUBSET Listener, Serving(R) PROVE Good
  <2>1. ws \in Sockets /\ ws # 0 /\ ~timer /\ Failed = {}
    BY <1>5, Situations
  <2>2. CASE rs[ws] = "OPEN"
    <3>1. State = "OPEN" /\ phaseOf = "open"
      BY <2>1, <2>2, PhaseNow
    <3>2. CloseSocket(p, "destroy")
      BY <3>1 DEF Disconnect
    <3>3. onClose[ws] = {[kind |-> "after", p |-> 0]} /\ Pending = {}
      BY <1>5, <2>2 DEF Serving, Callers
    <3>4. /\ rs'[ws] = "CLOSING" /\ closeBound' = Nowhere
          /\ onClose'[ws] = {[kind |-> "destroy", p |-> p]} \cup {}
          /\ OthersGone'
      BY <1>1, <1>5, <2>1, <2>2, <3>2, <3>3, SocketClosing DEF Serving
    <3>5. Pending' = {p} \cup Callers({})
      BY <1>2, <3>1, <3>3 DEF Callers
    <3>6. Closing("destroy", p, {})'
      BY <1>1, <1>2, <1>5, <2>1, <3>4, <3>5 DEF Serving, Closing, Up, Resolvers
    <3>7. CarefulInv'
      <4>1. {} \in SUBSET Listener /\ "destroy" \in CloseKinds
        BY DEF CloseKinds
      <4>2. QED
        BY <1>1, <3>4, <3>6, <4>1 DEF CarefulInv, Situation
    <3>8. phaseOf' = "closing"
      BY <1>1, <2>1, <3>4, PhaseNext
    <3>9. LinkStep
      BY <1>1, <3>1, <3>8 DEF LinkStep, Promised!LinkNext, Promised!BeginClose
    <3>10. QED
      BY <1>1, <1>3, <3>7, <3>9 DEF Good, ThrowStep
  <2>3. CASE rs[ws] = "CLOSING"
    <3> DEFINE S == R \cup {[kind |-> "resolve", p |-> p]}
    <3>1. State = "CLOSING"
      BY <2>1, <2>3, PhaseNow
    <3>2. /\ onClose' = [onClose EXCEPT ![ws] = @ \cup {[kind |-> "resolve", p |-> p]}]
          /\ UNCHANGED <<closeBound, rs>>
      BY <3>1 DEF Disconnect
    <3>3. onClose'[ws] = {[kind |-> "after", p |-> 0]} \cup S /\ OthersGone'
      BY <1>1, <1>5, <2>1, <2>3, <3>2, MoreResolvers DEF Serving, Live
    <3>4. Pending' = Callers(S)
      <4>1. Pending' = Callers(R) \cup {p}
        BY <1>2, <1>5, <3>1 DEF Serving
      <4>2. QED
        BY <4>1, OneMoreCaller
    <3>5. Resolvers(S)'
      BY <1>2, <1>5 DEF Serving, Resolvers
    <3>6. S \in SUBSET Listener
      BY CallIs DEF Listener, CloseKinds
    <3> HIDE DEF S
    <3>7. Serving(S)'
      BY <1>1, <1>2, <1>5, <2>1, <2>3, <3>2, <3>3, <3>4, <3>5 DEF Serving, Up, Callers
    <3>8. CarefulInv'
      BY <1>1, <3>3, <3>6, <3>7 DEF CarefulInv, Situation
    <3>9. LinkStep
      BY <1>1, <3>2 DEF LinkStep, phaseOf
    <3>10. QED
      BY <1>1, <1>3, <3>8, <3>9 DEF Good, ThrowStep
  <2>4. QED
    BY <1>5, <2>2, <2>3 DEF Serving
<1>6. ASSUME ~Down, NEW R \in SUBSET Listener, NEW kind \in CloseKinds, NEW c \in Calls,
             Closing(kind, c, R)
      PROVE  Good
  <2> DEFINE S == R \cup {[kind |-> "resolve", p |-> p]}
  <2>1. ws \in Sockets /\ ws # 0 /\ ~timer /\ Failed = {}
    BY <1>6, Situations
  <2>2. State = "CLOSING"
    BY <1>6, <2>1, PhaseNow DEF Closing
  <2>3. /\ onClose' = [onClose EXCEPT ![ws] = @ \cup {[kind |-> "resolve", p |-> p]}]
        /\ UNCHANGED <<closeBound, rs>>
    BY <2>2 DEF Disconnect
  <2>4. onClose'[ws] = {[kind |-> kind, p |-> c]} \cup S /\ OthersGone'
    BY <1>1, <1>6, <2>1, <2>3, MoreResolvers DEF Closing, Live
  <2>5. c \in Pending /\ c # p
    BY <1>2, <1>6 DEF Closing
  <2>6. Pending' = {c} \cup Callers(S)
    <3>1. Pending' = {c} \cup (Callers(R) \cup {p})
      BY <1>2, <1>6, <2>2 DEF Closing
    <3>2. Callers(S) = Callers(R) \cup {p}
      BY OneMoreCaller
    <3>3. QED
      BY <3>1, <3>2, Zenon
  <2>7. Resolvers(S)'
    BY <1>2, <1>6 DEF Closing, Resolvers
  <2>8. S \in SUBSET Listener
    BY CallIs DEF Listener, CloseKinds
  <2> HIDE DEF S
  <2>9. Closing(kind, c, S)'
    BY <1>1, <1>2, <1>6, <2>1, <2>3, <2>4, <2>5, <2>6, <2>7
    DEF Closing, Up, Callers, OfConnect
  <2>10. CarefulInv'
    BY <1>1, <1>6, <2>4, <2>8, <2>9 DEF CarefulInv, Situation
  <2>11. LinkStep
    BY <1>1, <2>3 DEF LinkStep, phaseOf
  <2>12. QED
    BY <1>1, <1>3, <2>10, <2>11 DEF Good, ThrowStep
<1>7. ASSUME ~Down, NEW c \in Calls, Connecting(c) PROVE FALSE
  BY <1>1, <1>7, Situations, PhaseNow DEF Connecting
<1>8. ASSUME ~Down, NEW c \in Calls, Handshaking(c) PROVE FALSE
  BY <1>1, <1>8 DEF Handshaking
<1>9. QED
  BY <1>4, <1>5, <1>6, <1>7, <1>8, Situations

(* ----------------------------- The handshake --------------------------- *)

(* Only a handshake has a subscribe request.                               *)
LEMMA OfHandshake ==
  ASSUME TypeOK, CarefulInv, NEW q \in subs
  PROVE  /\ ~Down /\ ws \in Sockets /\ ws # 0 /\ ~timer /\ Failed = {}
         /\ \E p \in Calls : Handshaking(p) /\ subs = {q} /\ q.p = p /\ q.on = ws
                             /\ q.st \in {"sent", "answered", "empty"}
                             /\ q = [p |-> p, on |-> ws, st |-> q.st]
<1>1. ~Down
  BY DEF Down
<1>2. PICK p \in Calls : Handshaking(p)
  BY <1>1, Situations DEF Connecting, Serving, Closing
<1>3. PICK st \in {"sent", "answered", "empty"} : subs = {[p |-> p, on |-> ws, st |-> st]}
  BY <1>2 DEF Handshaking
<1>4. q = [p |-> p, on |-> ws, st |-> st]
  BY <1>3
<1>5. q.p = p /\ q.on = ws /\ q.st = st /\ subs = {q}
  BY <1>3, <1>4
<1>6. QED
  BY <1>1, <1>2, <1>4, <1>5, Situations

LEMMA HandshakeRequest ==
  ASSUME NEW p, Handshaking(p)
  PROVE  \E q \in subs : q.on = ws
<1>1. PICK st \in {"sent", "answered", "empty"} : subs = {[p |-> p, on |-> ws, st |-> st]}
  BY DEF Handshaking
<1>2. [p |-> p, on |-> ws, st |-> st].on = ws
  OBVIOUS
<1>3. QED
  BY <1>1, <1>2

LEMMA SocketOpensStep ==
  ASSUME TypeOK, TypeOK', CarefulInv, NEW s \in Sockets, SocketOpens(s)
  PROVE  Good
<1>1. s = ws /\ ws # 0 /\ rs[ws] = "CONNECTING" /\ ~Down
  BY LiveIsCurrent, SocketIs DEF SocketOpens, Live
<1>2. PICK p \in Calls : Connecting(p)
  BY <1>1, Situations DEF Handshaking, Serving, Closing
<1>3. p # 0 /\ onOpen[s] = p /\ openWaiters[s] = {} /\ errorBound = ws /\ ~isReady /\ subs = {}
  BY <1>1, <1>2, CallIs DEF Connecting
<1>4. /\ rs' = [rs EXCEPT ![ws] = "OPEN"]
      /\ onError' = [onError EXCEPT ![ws] = 0]
      /\ subs' = {SubscribeOn(p)}
      /\ callResult' = Settle({}, {})
      /\ UNCHANGED <<ws, isReady, announced, timer, strays, closeBound, onClose,
                     callKind, crashed>>
  BY <1>1, <1>3 DEF SocketOpens, ResolvedByOpen, selfVars, timerVars
<1>5. /\ rs'[ws] = "OPEN" /\ onError'[ws] = 0
      /\ \A t \in Sockets : t # ws => rs'[t] = rs[t]
  BY <1>1, <1>4 DEF TypeOK
<1>6. subs' = {[p |-> p, on |-> ws, st |-> "sent"]}
  BY <1>3, <1>4, <1>5 DEF SubscribeOn
<1>7. /\ Pending' = Pending /\ Failed' = Failed
      /\ \A c \in Calls : callResult'[c] = "resolved" /\ callResult[c] # "resolved"
                          => callKind[c] = "free"
  BY <1>4, PromisesSettled
<1>8. Handshaking(p)'
  BY <1>1, <1>2, <1>4, <1>5, <1>6, <1>7 DEF Connecting, Handshaking, Up, OfConnect
<1>9. OthersGone'
  BY <1>1, <1>4, <1>5 DEF CarefulInv, OthersGone, Live
<1>10. CarefulInv'
  BY <1>4, <1>8, <1>9 DEF CarefulInv, Situation
<1>11. phaseOf = "connecting" /\ phaseOf' = "open"
  BY <1>1, <1>4, <1>5, PhaseNow, PhaseNext
<1>12. LinkStep
  BY <1>4, <1>11 DEF LinkStep, Promised!LinkNext, Promised!Open
<1>13. ReadyStep
  BY <1>4, <1>7 DEF ReadyStep
<1>14. QED
  BY <1>4, <1>10, <1>12, <1>13 DEF Good, ThrowStep

LEMMA SubscribeAnswerStep ==
  ASSUME TypeOK, TypeOK', CarefulInv, NEW q \in subs, NEW st \in {"answered", "empty"},
         SubscribeAnswer(q, st)
  PROVE  Good
<1>1. PICK p \in Calls : Handshaking(p) /\ subs = {q} /\ q.p = p /\ q.on = ws
  BY OfHandshake
<1>2. /\ subs' = {[p |-> p, on |-> ws, st |-> st]}
      /\ UNCHANGED <<ws, isReady, announced, timer, strays, closeBound, rs, onError,
                     onClose, callKind, callResult, crashed>>
  BY <1>1 DEF SubscribeAnswer, WithState, selfVars, timerVars, boundVars, listenVars, callVars
<1>3. Pending' = Pending /\ Failed' = Failed
  BY <1>2 DEF Pending, Failed
<1>4. Handshaking(p)'
  BY <1>1, <1>2, <1>3 DEF Handshaking, Up, OfConnect
<1>5. OthersGone'
  BY <1>2 DEF CarefulInv, OthersGone
<1>6. CarefulInv'
  BY <1>2, <1>4, <1>5 DEF CarefulInv, Situation
<1>7. LinkStep /\ ReadyStep
  BY <1>2 DEF LinkStep, phaseOf, ReadyStep
<1>8. QED
  BY <1>2, <1>6, <1>7 DEF Good, ThrowStep

(* There is no failed answer, and _isReady, on which the timeout of the    *)
(* handshake's request would wait, is set by its answer.                   *)
LEMMA SubscribeFailureStep ==
  ASSUME TypeOK, CarefulInv, NEW q \in subs, SubscribeRefused(q) \/ SubscribeTimeout(q)
  PROVE  FALSE
BY OfHandshake DEF CarefulInv, SubscribeRefused, SubscribeTimeout

LEMMA SubscribedStep ==
  ASSUME TypeOK, TypeOK', CarefulInv, NEW q \in subs, Subscribed(q)
  PROVE  Good
<1>1. /\ ws \in Sockets /\ ws # 0 /\ ~timer /\ Failed = {} /\ q.st = "answered"
      /\ \E p \in Calls : Handshaking(p) /\ subs = {q} /\ q.p = p
  BY OfHandshake DEF Subscribed
<1>2. PICK p \in Calls : Handshaking(p) /\ subs = {q} /\ q.p = p
  BY <1>1
<1>3. /\ Rebind /\ ForwardErrors /\ isReady' = TRUE /\ announced' = "connected"
      /\ subs' = Released(subs \ {q})
      /\ callResult' = Settle({p}, Callers(Unsent))
      /\ UNCHANGED <<ws, timer, strays, rs, onError, callKind, crashed>>
  BY <1>1, <1>2 DEF Subscribed
<1>4. subs' = {}
  <2>1. subs \ {q} = {}
    BY <1>2
  <2>2. QED
    BY <1>3, <2>1 DEF Released
<1>5. Callers(Unsent) = {}
  <2>1. Unsent = {}
    BY <1>1, <1>2 DEF Unsent
  <2>2. QED
    BY <2>1 DEF Callers
<1>6. WithoutBound(onClose[ws], ws) = {}
  BY <1>2, Unbound DEF Handshaking
<1>7. /\ onClose'[ws] = {[kind |-> "after", p |-> 0]} \cup {}
      /\ closeBound' = [on |-> ws, kind |-> "after"]
      /\ \A s \in Sockets : s # ws => onClose'[s] = onClose[s]
  BY <1>1, <1>3, <1>6 DEF Rebind, TypeOK
<1>8. ws \in forwards'
  BY <1>3 DEF ForwardErrors
<1>9. /\ Pending' = {} /\ Failed' = {}
  BY <1>1, <1>2, <1>3, <1>5, PromisesSettled DEF Handshaking
<1>10. Resolvers({})' /\ Callers({})' = {}
  BY DEF Resolvers, Callers
<1>11. Serving({})'
  BY <1>1, <1>2, <1>3, <1>4, <1>7, <1>8, <1>9, <1>10 DEF Handshaking, Serving, Up
<1>12. OthersGone'
  BY <1>2, <1>3, <1>7 DEF CarefulInv, OthersGone, Handshaking, Live
<1>13. CarefulInv'
  BY <1>3, <1>11, <1>12 DEF CarefulInv, Situation
<1>14. IsConnected'
  BY <1>1, <1>2, <1>3, PhaseNext DEF Handshaking, IsConnected
<1>15. phaseOf = "open" /\ phaseOf' = phaseOf
  <2>1. phaseOf = "open"
    BY <1>1, <1>2, PhaseNow DEF Handshaking
  <2>2. QED
    BY <1>3, <2>1 DEF phaseOf
<1>16. LinkStep
  BY <1>3, <1>15 DEF LinkStep, Promised!LinkNext, Promised!BecomeReady
<1>17. QED
  BY <1>3, <1>13, <1>14, <1>16 DEF Good, ReadyStep, ThrowStep

LEMMA NotInitializedStep ==
  ASSUME TypeOK, TypeOK', CarefulInv, NEW q \in subs, NotInitialized(q)
  PROVE  Good
<1>1. /\ ws \in Sockets /\ ws # 0 /\ ~timer /\ Failed = {}
      /\ \E p \in Calls : Handshaking(p) /\ subs = {q} /\ q.p = p
  BY OfHandshake
<1>2. PICK p \in Calls : Handshaking(p) /\ subs = {q} /\ q.p = p
  BY <1>1
<1>3. State = "OPEN" /\ phaseOf = "open" /\ rs[ws] = "OPEN"
  BY <1>1, <1>2, PhaseNow DEF Handshaking
<1>4. /\ subs' = {} /\ CloseSocket(p, "uninit")
      /\ UNCHANGED <<ws, isReady, announced, timer, strays, onError, callKind, callResult,
                     crashed>>
  BY <1>2, <1>3 DEF NotInitialized, selfVars, timerVars
<1>5. Pending' = {p} \cup Callers({}) /\ Failed' = {}
  BY <1>1, <1>2, <1>4 DEF Pending, Failed, Handshaking, Callers
<1>6. /\ rs'[ws] = "CLOSING" /\ closeBound' = Nowhere
      /\ onClose'[ws] = {[kind |-> "uninit", p |-> p]} \cup {}
      /\ OthersGone'
  BY <1>1, <1>2, <1>3, <1>4, SocketClosing DEF Handshaking
<1>7. Closing("uninit", p, {})'
  <2>1. Callers({})' = {} /\ Callers({}) = {} /\ Resolvers({})'
    BY DEF Callers, Resolvers
  <2>2. OfConnect(p)' /\ Up'
    BY <1>1, <1>2, <1>4, <1>5 DEF Handshaking, OfConnect, Up
  <2>3. ~isReady' /\ announced' # "connected" /\ rs'[ws'] = "CLOSING" /\ onError'[ws'] = 0
    BY <1>2, <1>4, <1>6 DEF Handshaking
  <2>4. QED
    BY <1>4, <1>5, <1>6, <2>1, <2>2, <2>3 DEF Closing
<1>8. CarefulInv'
  <2>1. {} \in SUBSET Listener /\ "uninit" \in CloseKinds
    BY DEF CloseKinds
  <2>2. QED
    BY <1>4, <1>6, <1>7, <2>1 DEF CarefulInv, Situation
<1>9. phaseOf' = "closing"
  BY <1>1, <1>4, <1>6, PhaseNext
<1>10. LinkStep /\ ReadyStep
  BY <1>3, <1>4, <1>9 DEF LinkStep, Promised!LinkNext, Promised!BeginClose, ReadyStep
<1>11. QED
  BY <1>4, <1>8, <1>10 DEF Good, ThrowStep

LEMMA CloseFrameStep ==
  ASSUME TypeOK, TypeOK', CarefulInv, NEW s \in Sockets, CloseFrame(s)
  PROVE  Good
<1>1. s = ws /\ ws # 0 /\ rs[ws] = "OPEN" /\ ~Down
  BY LiveIsCurrent, SocketIs DEF CloseFrame, Live
<1>2. \A q \in subs : q.on # ws
  BY <1>1 DEF CloseFrame, MayClose, CarefulInv
<1>3. Serving({})
  <2>1. \A p \in Calls : ~Handshaking(p)
    BY <1>2, HandshakeRequest
  <2>2. PICK R \in SUBSET Listener : Serving(R)
    <3>1. \A p \in Calls : ~Connecting(p)
      BY <1>1 DEF Connecting
    <3>2. \A kind, p, R : ~Closing(kind, p, R)
      BY <1>1 DEF Closing
    <3>3. QED
      BY <1>1, <2>1, <3>1, <3>2, Situations
  <2>3. QED
    BY <1>1, <2>2 DEF Serving
<1>4. /\ rs' = [rs EXCEPT ![ws] = "CLOSING"]
      /\ UNCHANGED <<ws, isReady, announced, timer, strays, closeBound, onError,
                     forwards, onClose, subs, callKind, callResult, crashed>>
  BY <1>1 DEF CloseFrame, selfVars, timerVars, boundVars, listenVars, callVars
<1>5. /\ rs'[ws] = "CLOSING"
      /\ \A t \in Sockets : t # ws => rs'[t] = rs[t]
  BY <1>1, <1>4 DEF TypeOK
<1>6. Pending' = Pending /\ Failed' = Failed
  BY <1>4 DEF Pending, Failed
<1>7. Serving({})'
  BY <1>3, <1>4, <1>5, <1>6 DEF Serving, Up, Resolvers, Callers
<1>8. OthersGone'
  BY <1>1, <1>4, <1>5 DEF CarefulInv, OthersGone, Live
<1>9. CarefulInv'
  BY <1>4, <1>7, <1>8 DEF CarefulInv, Situation
<1>10. phaseOf = "open" /\ phaseOf' = "closing"
  BY <1>1, <1>4, <1>5, PhaseNow, PhaseNext
<1>11. LinkStep /\ ReadyStep
  BY <1>4, <1>10 DEF LinkStep, Promised!LinkNext, Promised!BeginClose, ReadyStep
<1>12. QED
  BY <1>4, <1>9, <1>11 DEF Good, ThrowStep

(* ------------------------- The end of a socket ------------------------- *)

(* What is left when the last socket has gone and nothing is pending.      *)
LEMMA NowDown ==
  ASSUME TypeOK, CarefulInv, Down', strays' = strays,
         \A s \in Sockets : s # ws => rs'[s] = rs[s] /\ onClose'[s] = onClose[s],
         ws \in Sockets => rs'[ws] = "CLOSED" /\ onClose'[ws] = {}
  PROVE  CarefulInv'
<1>1. \A s \in Sockets : rs'[s] \notin Live
  BY DEF CarefulInv, OthersGone, Live
<1>2. \A s \in Sockets : s # ws => onClose'[s] = {}
  BY DEF CarefulInv, OthersGone
<1>3. OthersGone'
  BY <1>1, <1>2 DEF OthersGone
<1>4. QED
  BY <1>3 DEF CarefulInv, Situation

(* A socket that closes before it opened is replaced at once.              *)
LEMMA ConnectingCloses ==
  ASSUME TypeOK, TypeOK', CarefulInv, NEW p \in Calls, Connecting(p), ~Down,
         CloseEvent(ws, onClose, onError, errorBound, closeBound, {}),
         strays' = strays
  PROVE  Good
<1> DEFINE closed == [rs EXCEPT ![ws] = "CLOSED"]
           fired == [onClose EXCEPT ![ws] = {}]
           onErrorLeft == [onError EXCEPT ![ws] = 0, ![ws] = IF errorBound = ws THEN 0 ELSE @]
           onOpenLeft == [onOpen EXCEPT ![ws] = 0, ![ws] = 0]
           waitersLeft == [openWaiters EXCEPT ![ws] = {}, ![ws] = {}]
<1>1. /\ ws \in Sockets /\ ws # 0 /\ Failed = {} /\ subs = {} /\ ~isReady
      /\ onClose[ws] = {[kind |-> "before", p |-> p]} /\ announced # "connected"
      /\ rs[ws] = "CONNECTING" /\ Pending = {p}
  BY Situations DEF Connecting
<1>2. /\ {l \in onClose[ws] : l.kind \in {"before", "after"}} # {}
      /\ {l \in onClose[ws] : l.kind \in {"before"}} = {[kind |-> "before", p |-> p]}
      /\ {l \in onClose[ws] : l.kind \in {"after"}} = {}
      /\ {l \in onClose[ws] : l.kind \in {"destroy", "uninit"}} = {}
      /\ {l \in onClose[ws] : l.kind \in {"destroy", "resolve"}} = {}
      /\ {l \in onClose[ws] : l.kind \in {"uninit", "reject"}} = {}
  <2> DEFINE b == [kind |-> "before", p |-> p]
  <2>1. b.kind = "before"
    OBVIOUS
  <2>2. b \in onClose[ws] /\ \A l \in onClose[ws] : l = b
    BY <1>1
  <2> HIDE DEF b
  <2>3. /\ {l \in onClose[ws] : l.kind \in {"before", "after"}} # {}
        /\ {l \in onClose[ws] : l.kind \in {"before"}} = {b}
    BY <2>1, <2>2
  <2>4. /\ {l \in onClose[ws] : l.kind \in {"after"}} = {}
        /\ {l \in onClose[ws] : l.kind \in {"destroy", "uninit"}} = {}
    BY <2>1, <2>2
  <2>5. /\ {l \in onClose[ws] : l.kind \in {"destroy", "resolve"}} = {}
        /\ {l \in onClose[ws] : l.kind \in {"uninit", "reject"}} = {}
    BY <2>1, <2>2
  <2>6. QED
    BY <2>3, <2>4, <2>5 DEF b
<1>3. Callers({}) = {} /\ SubsOn(ws) = {}
  BY <1>1 DEF Callers, SubsOn
<1>4. [kind |-> "before", p |-> p].p = p
  OBVIOUS
<1>5. /\ \E l \in {l \in onClose[ws] : l.kind \in {"before"}}, t \in Sockets :
           /\ IsNextSocket(t)
           /\ CreateSocket(l.p, t, closed, onOpenLeft, waitersLeft, onErrorLeft,
                           forwards \ {ws}, fired)
      /\ isReady' = FALSE /\ timer' = FALSE /\ subs' = subs \ SubsOn(ws)
      /\ callResult' = Settle(Callers({l \in onClose[ws] : l.kind \in {"destroy", "resolve"}}),
                              {} \cup Callers({l \in onClose[ws] : l.kind \in {"uninit", "reject"}})
                                 \cup Callers(SubsOn(ws)))
      /\ UNCHANGED <<announced, callKind, crashed>>
  BY <1>1, <1>2 DEF CloseEvent, NotReady, WithoutRequests
<1>6. PICK t \in Sockets :
        /\ IsNextSocket(t)
        /\ CreateSocket(p, t, closed, onOpenLeft, waitersLeft, onErrorLeft,
                        forwards \ {ws}, fired)
  BY <1>2, <1>4, <1>5
<1>7. subs' = {} /\ callResult' = Settle({}, {})
  <2>1. {} \cup {} \cup {} = {}
    OBVIOUS
  <2>2. QED
    BY <1>1, <1>2, <1>3, <1>5, <2>1, Zenon
<1>8. Pending' = {p} /\ Failed' = {}
      /\ \A c \in Calls : callResult'[c] = "resolved" /\ callResult[c] # "resolved"
                          => callKind[c] = "free"
  <2>1. Pending \ ({} \cup {}) = {p} /\ Failed \cup {c \in Pending \cap {} : callKind[c] = "retry"} = {}
    BY <1>1
  <2>2. UNCHANGED callKind
    BY <1>5
  <2>3. QED
    BY <1>7, <2>1, <2>2, PromisesSettled
<1>9. t # ws
  BY <1>6 DEF IsNextSocket, IsNext, FreeSocket
<1>10. /\ closed \in [Sockets -> ReadyStates] /\ onOpenLeft \in [Sockets -> 0 .. MaxCalls]
       /\ waitersLeft \in [Sockets -> SUBSET Calls]
       /\ onErrorLeft \in [Sockets -> 0 .. MaxCalls]
       /\ fired \in [Sockets -> SUBSET Listener]
  BY <1>1, SizeAssumption DEF TypeOK, ReadyStates
<1>11. \A s \in Sockets : closed[s] \notin Live /\ fired[s] = {}
  <2>1. closed[ws] = "CLOSED" /\ fired[ws] = {}
    BY <1>1 DEF TypeOK
  <2>2. \A s \in Sockets : s # ws => closed[s] = rs[s] /\ fired[s] = onClose[s]
    BY DEF TypeOK
  <2>3. QED
    BY <2>1, <2>2 DEF CarefulInv, OthersGone, Live
<1>12. OfConnect(p)' /\ announced' # "connected" /\ strays' = 0
  BY <1>1, <1>5 DEF Connecting, OfConnect, CarefulInv
<1> HIDE DEF closed, fired, onErrorLeft, onOpenLeft, waitersLeft
<1>13. CarefulInv' /\ phaseOf' = "connecting"
  BY <1>5, <1>6, <1>7, <1>8, <1>9, <1>10, <1>11, <1>12, Created
<1>14. phaseOf = "connecting"
  BY <1>1, PhaseNow
<1>15. LinkStep
  <2>1. isReady' = isReady
    BY <1>1, <1>5 DEF TypeOK
  <2>2. QED
    BY <1>1, <1>13, <1>14, <2>1 DEF LinkStep, Promised!LinkNext, Promised!Recreate
<1>16. ReadyStep
  BY <1>5, <1>8 DEF ReadyStep
<1>17. QED
  BY <1>5, <1>13, <1>15, <1>16 DEF Good, ThrowStep

(* A connection that was ready is lost: a timer will make the next one.    *)
LEMMA ServingCloses ==
  ASSUME TypeOK, TypeOK', CarefulInv, NEW R \in SUBSET Listener, Serving(R), ~Down,
         CloseEvent(ws, onClose, onError, errorBound, closeBound, {})
  PROVE  Good
<1>1. /\ ws \in Sockets /\ ws # 0 /\ ~timer /\ Failed = {} /\ subs = {}
      /\ onClose[ws] = {[kind |-> "after", p |-> 0]} \cup R
      /\ Pending = Callers(R) /\ Resolvers(R) /\ rs[ws] \in {"OPEN", "CLOSING"}
  BY Situations DEF Serving
<1>2. /\ {l \in onClose[ws] : l.kind \in {"before", "after"}} # {}
      /\ {l \in onClose[ws] : l.kind \in {"before"}} = {}
      /\ {l \in onClose[ws] : l.kind \in {"destroy", "uninit"}} = {}
      /\ {l \in onClose[ws] : l.kind \in {"destroy", "resolve"}} = R
      /\ {l \in onClose[ws] : l.kind \in {"uninit", "reject"}} = {}
  <2> DEFINE a == [kind |-> "after", p |-> 0]
  <2>1. /\ a \in onClose[ws] /\ a.kind = "after" /\ R \subseteq onClose[ws]
        /\ \A l \in R : l.kind = "resolve"
        /\ \A l \in onClose[ws] : l.kind = "after" \/ (l \in R /\ l.kind = "resolve")
    <3>1. a.kind = "after"
      OBVIOUS
    <3>2. onClose[ws] = {a} \cup R /\ \A l \in R : l.kind = "resolve"
      BY <1>1 DEF Resolvers
    <3> HIDE DEF a
    <3>3. QED
      BY <3>1, <3>2
  <2> HIDE DEF a
  <2>2. /\ {l \in onClose[ws] : l.kind \in {"before", "after"}} # {}
        /\ {l \in onClose[ws] : l.kind \in {"before"}} = {}
        /\ {l \in onClose[ws] : l.kind \in {"destroy", "uninit"}} = {}
    BY <2>1
  <2>3. /\ {l \in onClose[ws] : l.kind \in {"destroy", "resolve"}} = R
        /\ {l \in onClose[ws] : l.kind \in {"uninit", "reject"}} = {}
    BY <2>1
  <2>4. QED
    BY <2>2, <2>3
<1>3. Callers({}) = {} /\ SubsOn(ws) = {}
  BY <1>1 DEF Callers, SubsOn
<1>4. /\ ws' = 0 /\ isReady' = FALSE /\ announced' = "disconnected" /\ ArmTimer
      /\ rs' = [rs EXCEPT ![ws] = "CLOSED"]
      /\ onClose' = [onClose EXCEPT ![ws] = {}]
      /\ subs' = subs \ SubsOn(ws)
      /\ callResult' = Settle(Callers({l \in onClose[ws] : l.kind \in {"destroy", "resolve"}}),
                              {} \cup Callers({l \in onClose[ws] : l.kind \in {"uninit", "reject"}})
                                 \cup Callers(SubsOn(ws)))
      /\ UNCHANGED <<callKind, crashed>>
  BY <1>1, <1>2 DEF CloseEvent, NotReady, EmitDisconnected, WithoutRequests
<1>5. subs' = {} /\ callResult' = Settle(Callers(R), {})
  <2>1. {} \cup {} \cup {} = {}
    OBVIOUS
  <2>2. QED
    BY <1>1, <1>2, <1>3, <1>4, <2>1, Zenon
<1>6. /\ Pending' = {} /\ Failed' = {}
      /\ \A c \in Calls : callResult'[c] = "resolved" /\ callResult[c] # "resolved"
                          => c \in Callers(R) \/ callKind[c] = "free"
  <2>1. /\ Pending' = Pending \ (Callers(R) \cup {})
        /\ Failed' = Failed \cup {c \in Pending \cap {} : callKind[c] = "retry"}
        /\ \A c \in Calls : callResult'[c] = "resolved" /\ callResult[c] # "resolved"
                            => c \in Pending \cap Callers(R) \/ callKind[c] = "free"
    BY <1>4, <1>5, PromisesSettled
  <2>2. QED
    BY <1>1, <2>1
<1>7. strays' = strays
  BY <1>1, <1>4 DEF ArmTimer
<1>8. Down'
  BY <1>4, <1>5, <1>6 DEF Down
<1>9. CarefulInv'
  BY <1>1, <1>4, <1>7, <1>8, NowDown DEF TypeOK
<1>10. phaseOf \in {"open", "closing"} /\ phaseOf' = "none"
  BY <1>1, <1>4, PhaseNow, PhaseNext
<1>11. LinkStep
  BY <1>4, <1>10 DEF LinkStep, Promised!LinkNext, Promised!Gone
<1>12. ReadyStep
  <2>1. \A c \in Callers(R) : callKind[c] = "disconnect"
    BY <1>1 DEF Callers, Resolvers
  <2>2. QED
    BY <1>4, <1>6, <2>1 DEF ReadyStep
<1>13. QED
  BY <1>4, <1>9, <1>11, <1>12 DEF Good, ThrowStep

(* The end of a socket that _disconnect closes: nothing follows it but the *)
(* timer of an attempt whose server had no ledger.                         *)
LEMMA ClosingCloses ==
  ASSUME TypeOK, TypeOK', CarefulInv, NEW R \in SUBSET Listener, NEW kind \in CloseKinds,
         NEW p \in Calls, Closing(kind, p, R), ~Down,
         CloseEvent(ws, onClose, onError, errorBound, closeBound, {})
  PROVE  Good
<1> DEFINE resolved == Callers({l \in onClose[ws] : l.kind \in {"destroy", "resolve"}})
           rejected == {} \cup Callers({l \in onClose[ws] : l.kind \in {"uninit", "reject"}})
                          \cup Callers(SubsOn(ws))
<1>1. /\ ws \in Sockets /\ ws # 0 /\ ~timer /\ Failed = {} /\ subs = {}
      /\ onClose[ws] = {[kind |-> kind, p |-> p]} \cup R
      /\ Pending = {p} \cup Callers(R) /\ Resolvers(R) /\ rs[ws] = "CLOSING"
      /\ kind \in {"destroy", "uninit"}
  BY Situations DEF Closing
<1>2. /\ [kind |-> kind, p |-> p] \in onClose[ws] /\ [kind |-> kind, p |-> p].kind = kind
      /\ \A l \in onClose[ws] : l.kind = kind \/ l.kind = "resolve"
  <2> DEFINE d == [kind |-> kind, p |-> p]
  <2>1. d.kind = kind
    OBVIOUS
  <2>2. onClose[ws] = {d} \cup R /\ \A l \in R : l.kind = "resolve"
    BY <1>1 DEF Resolvers
  <2> HIDE DEF d
  <2>3. d \in onClose[ws] /\ \A l \in onClose[ws] : l.kind = kind \/ l.kind = "resolve"
    BY <2>1, <2>2
  <2>4. QED
    BY <2>1, <2>3 DEF d
<1>3. /\ {l \in onClose[ws] : l.kind \in {"before", "after"}} = {}
      /\ {l \in onClose[ws] : l.kind \in {"before"}} = {}
      /\ {l \in onClose[ws] : l.kind \in {"after"}} = {}
      /\ {l \in onClose[ws] : l.kind \in {"destroy", "uninit"}} # {}
  <2> DEFINE d == [kind |-> kind, p |-> p]
  <2>1. /\ d \in onClose[ws] /\ d.kind = kind
        /\ \A l \in onClose[ws] : l.kind = kind \/ l.kind = "resolve"
    BY <1>2
  <2> HIDE DEF d
  <2>2. QED
    BY <1>1, <2>1
<1>4. /\ ws' = 0 /\ isReady' = FALSE
      /\ IF {l \in onClose[ws] : l.kind \in {"destroy"}} # {}
         THEN announced' = "disconnected" ELSE UNCHANGED announced
      /\ rs' = [rs EXCEPT ![ws] = "CLOSED"]
      /\ onClose' = [onClose EXCEPT ![ws] = {}]
      /\ subs' = subs \ SubsOn(ws)
      /\ callResult' = Settle(resolved, rejected)
      /\ UNCHANGED <<timer, strays, callKind, crashed>>
  BY <1>1, <1>3 DEF CloseEvent, NotReady, EmitDisconnected, WithoutRequests, timerVars
<1>5. announced' # "connected"
  <2>1. CASE kind = "destroy"
    <3>1. {l \in onClose[ws] : l.kind \in {"destroy"}} # {}
      <4>1. \E l \in onClose[ws] : l.kind = "destroy"
        BY <1>2, <2>1
      <4>2. QED
        BY <4>1
    <3>2. QED
      BY <1>4, <3>1
  <2>2. CASE kind = "uninit"
    <3>1. {l \in onClose[ws] : l.kind \in {"destroy"}} = {}
      <4>1. \A l \in onClose[ws] : l.kind # "destroy"
        BY <1>2, <2>2
      <4>2. QED
        BY <4>1
    <3>2. QED
      BY <1>4, <2>2, <3>1 DEF Closing
  <2>3. QED
    BY <1>1, <2>1, <2>2
<1>6. Callers(R) \subseteq resolved
  <2>1. R \subseteq {l \in onClose[ws] : l.kind \in {"destroy", "resolve"}}
    BY <1>1 DEF Resolvers
  <2>2. QED
    BY <2>1 DEF Callers
<1>7. p \in resolved \cup rejected
  <2>1. [kind |-> kind, p |-> p].p = p /\ [kind |-> kind, p |-> p].kind = kind
    OBVIOUS
  <2>2. CASE kind = "destroy"
    BY <1>1, <2>1, <2>2 DEF Callers
  <2>3. CASE kind = "uninit"
    BY <1>1, <2>1, <2>3 DEF Callers
  <2>4. QED
    BY <1>1, <2>2, <2>3
<1>8. kind = "uninit" => resolved = Callers(R)
  <2>1. SUFFICES ASSUME kind = "uninit" PROVE resolved = Callers(R)
    OBVIOUS
  <2>2. {l \in onClose[ws] : l.kind \in {"destroy", "resolve"}} = R
    BY <1>1, <2>1 DEF Resolvers
  <2>3. QED
    BY <2>2
<1>9. \A c \in Callers(R) : callKind[c] = "disconnect"
  BY <1>1 DEF Callers, Resolvers
<1>10. /\ Pending' = Pending \ (resolved \cup rejected)
      /\ Failed' = Failed \cup {c \in Pending \cap rejected : callKind[c] = "retry"}
      /\ \A c \in Calls : callResult'[c] = "resolved" /\ callResult[c] # "resolved"
                          => c \in Pending \cap resolved \/ callKind[c] = "free"
  <2> HIDE DEF resolved, rejected
  <2>1. QED
    BY <1>4, PromisesSettled
<1> HIDE DEF resolved, rejected
<1>11. Pending' = {}
  BY <1>1, <1>6, <1>7, <1>10
<1>12. \A c \in Failed' : c = p
  BY <1>1, <1>9, <1>10
<1>13. subs' = {}
  BY <1>1, <1>4
<1>14. Down'
  BY <1>1, <1>4, <1>5, <1>11, <1>12, <1>13 DEF Down
<1>15. CarefulInv'
  BY <1>1, <1>4, <1>14, NowDown DEF TypeOK
<1>16. phaseOf = "closing" /\ phaseOf' = "none"
  BY <1>1, <1>4, PhaseNow, PhaseNext
<1>17. LinkStep
  BY <1>4, <1>16 DEF LinkStep, Promised!LinkNext, Promised!Gone
<1>18. ReadyStep
  <2>1. \A c \in Pending \cap resolved : callKind[c] = "disconnect"
    <3>1. CASE kind = "destroy"
      BY <1>1, <1>9, <3>1 DEF Closing
    <3>2. CASE kind = "uninit"
      BY <1>8, <1>9, <3>2
    <3>3. QED
      BY <1>1, <3>1, <3>2
  <2>2. QED
    BY <1>4, <1>10, <2>1 DEF ReadyStep
<1>19. QED
  BY <1>4, <1>15, <1>17, <1>18 DEF Good, ThrowStep

LEMMA SocketClosesStep ==
  ASSUME TypeOK, TypeOK', CarefulInv, NEW s \in Sockets, SocketCloses(s)
  PROVE  Good
<1>1. s = ws /\ ~Down /\ CloseEvent(ws, onClose, onError, errorBound, closeBound, {})
  BY LiveIsCurrent DEF SocketCloses
<1>2. ASSUME NEW p \in Calls, Handshaking(p) PROVE FALSE
  BY <1>1, <1>2, HandshakeRequest DEF SocketCloses, MayClose, CarefulInv
<1>3. ASSUME NEW p \in Calls, Connecting(p) PROVE Good
  <2>1. /\ {l \in onClose[ws] : l.kind \in {"before", "after"}} # {}
        /\ {l \in onClose[ws] : l.kind \in {"after"}} = {}
    <3> DEFINE b == [kind |-> "before", p |-> p]
    <3>1. b.kind = "before"
      OBVIOUS
    <3>2. b \in onClose[ws] /\ \A l \in onClose[ws] : l = b
      BY <1>3 DEF Connecting
    <3> HIDE DEF b
    <3>3. QED
      BY <3>1, <3>2
  <2>2. strays' = strays
    BY <1>1, <2>1 DEF CloseEvent, Crash, timerVars
  <2>3. QED
    BY <1>1, <1>3, <2>2, ConnectingCloses
<1>4. QED
  BY <1>1, <1>2, <1>3, Situations, ServingCloses, ClosingCloses

(* An exception, or no step: nothing else changes.                         *)
LEMMA Stays ==
  ASSUME TypeOK, CarefulInv,
         UNCHANGED <<selfVars, timerVars, boundVars, rs, listenVars, subs, callVars>>
  PROVE  CarefulInv' /\ LinkStep /\ ReadyStep
<1>1. UNCHANGED <<ws, isReady, announced, timer, strays, errorBound, closeBound, rs,
                  onOpen, openWaiters, onError, forwards, onClose, subs, callKind,
                  callResult>>
  BY DEF selfVars, timerVars, boundVars, listenVars, callVars
<1>2. Pending' = Pending /\ Failed' = Failed
  BY <1>1 DEF Pending, Failed
<1>3. Down => Down'
  BY <1>1, <1>2 DEF Down
<1>4. \A p \in Calls : Connecting(p) => Connecting(p)'
  BY <1>1, <1>2 DEF Connecting, Up, OfConnect
<1>5. \A p \in Calls : Handshaking(p) => Handshaking(p)'
  BY <1>1, <1>2 DEF Handshaking, Up, OfConnect
<1>6. \A R \in SUBSET Listener : Serving(R) => Serving(R)'
  BY <1>1, <1>2 DEF Serving, Up, Resolvers, Callers
<1>7. \A R \in SUBSET Listener, kind \in CloseKinds, p \in Calls :
        Closing(kind, p, R) => Closing(kind, p, R)'
  BY <1>1, <1>2 DEF Closing, Up, Resolvers, Callers, OfConnect
<1>8. OthersGone'
  BY <1>1 DEF CarefulInv, OthersGone
<1>9. CarefulInv'
  BY <1>1, <1>3, <1>4, <1>5, <1>6, <1>7, <1>8 DEF CarefulInv, Situation
<1>10. QED
  BY <1>1, <1>9 DEF LinkStep, ReadyStep, phaseOf, TypeOK

(* connect() fails: the socket is left behind, and no listener acts on its *)
(* close event.  In the handshake, and while the socket of a server with   *)
(* no ledger closes, the error is thrown; otherwise it has a listener.     *)
LEMMA SocketFailsStep ==
  ASSUME TypeOK, TypeOK', CarefulInv, NEW s \in Sockets, SocketFails(s)
  PROVE  Good
<1>1. s = ws /\ ws \in Sockets /\ ws # 0 /\ ~Down /\ ~timer /\ Failed = {}
  BY LiveIsCurrent, Situations DEF SocketFails
<1>2. CASE Crash /\ rs[ws] \in {"OPEN", "CLOSING"} /\ ~isReady /\ announced # "connected"
  <2>1. UNCHANGED <<selfVars, timerVars, boundVars, rs, listenVars, subs, callVars>>
    BY <1>2 DEF Crash
  <2>2. QED
    BY <1>1, <1>2, <2>1, Stays DEF Good, ThrowStep
<1>3. ASSUME NEW R, Serving(R) PROVE FALSE
  BY <1>1, <1>3 DEF Serving, SocketFails
<1>4. ASSUME NEW p, Handshaking(p) PROVE Good
  BY <1>1, <1>2, <1>4 DEF Handshaking, SocketFails
<1>5. ASSUME NEW kind, NEW p, NEW R, Closing(kind, p, R) PROVE Good
  <2>1. /\ onError[ws] = 0 /\ rs[ws] = "CLOSING"
        /\ ws \in forwards \/ (~isReady /\ announced # "connected")
    BY <1>5 DEF Closing
  <2>2. QED
    BY <1>1, <1>2, <2>1 DEF SocketFails
<1> SUFFICES ASSUME \E p \in Calls : Connecting(p)
             PROVE  Good
  BY <1>1, <1>3, <1>4, <1>5, Situations
<1>6. PICK p \in Calls : Connecting(p)
  OBVIOUS
<1>7. /\ onError[ws] = p /\ p # 0 /\ rs[ws] = "CONNECTING" /\ subs = {} /\ ~isReady
      /\ onClose[ws] = {[kind |-> "before", p |-> p]} /\ announced # "connected"
      /\ closeBound = [on |-> ws, kind |-> "before"] /\ Pending = {p}
  BY <1>6, CallIs DEF Connecting
<1> DEFINE onClose0 == [onClose EXCEPT ![ws] = WithoutBound(@, ws)]
           onError0 == [onError EXCEPT ![ws] = 0]
<1>8. CloseEvent(ws, onClose0, onError0, 0, Nowhere, {p})
  BY <1>1, <1>7 DEF SocketFails
<1>9. onClose0[ws] = {} /\ \A t \in Sockets : t # ws => onClose0[t] = onClose[t]
  BY <1>1, <1>7, Unbound DEF TypeOK
<1>10. onClose0 \in [Sockets -> SUBSET Listener]
  BY DEF TypeOK, WithoutBound
<1> HIDE DEF onClose0, onError0
<1>11. /\ {l \in onClose0[ws] : l.kind \in {"before", "after"}} = {}
       /\ {l \in onClose0[ws] : l.kind \in {"before"}} = {}
       /\ {l \in onClose0[ws] : l.kind \in {"after"}} = {}
       /\ {l \in onClose0[ws] : l.kind \in {"destroy"}} = {}
       /\ {l \in onClose0[ws] : l.kind \in {"destroy", "uninit"}} = {}
       /\ {l \in onClose0[ws] : l.kind \in {"destroy", "resolve"}} = {}
       /\ {l \in onClose0[ws] : l.kind \in {"uninit", "reject"}} = {}
  BY <1>9
<1>12. /\ UNCHANGED <<ws, isReady, announced, timer, strays, callKind, crashed>>
       /\ rs' = [rs EXCEPT ![ws] = "CLOSED"]
       /\ onClose' = [onClose0 EXCEPT ![ws] = {}]
       /\ subs' = subs \ SubsOn(ws)
       /\ callResult' = Settle(Callers({l \in onClose0[ws] : l.kind \in {"destroy", "resolve"}}),
                               {p} \cup Callers({l \in onClose0[ws] : l.kind \in {"uninit", "reject"}})
                                   \cup Callers(SubsOn(ws)))
  BY <1>8, <1>11 DEF CloseEvent, WithoutRequests, timerVars
<1>13. subs' = {} /\ callResult' = Settle({}, {p})
  <2>1. {p} \cup {} \cup {} = {p} /\ {} \ {} = {}
    OBVIOUS
  <2>2. Callers({}) = {} /\ SubsOn(ws) = {}
    BY <1>7 DEF Callers, SubsOn
  <2>3. QED
    BY <1>7, <1>11, <1>12, <2>1, <2>2, Zenon
<1>14. /\ Pending' = {} /\ Failed' \subseteq {p}
       /\ \A c \in Calls : callResult'[c] = "resolved" /\ callResult[c] # "resolved"
                           => callKind[c] = "free"
  <2>1. /\ Pending' = Pending \ ({} \cup {p})
        /\ Failed' = Failed \cup {c \in Pending \cap {p} : callKind[c] = "retry"}
        /\ \A c \in Calls : callResult'[c] = "resolved" /\ callResult[c] # "resolved"
                            => c \in Pending \cap {} \/ callKind[c] = "free"
    BY <1>12, <1>13, PromisesSettled
  <2>2. QED
    BY <1>1, <1>7, <2>1
<1>15. rs'[ws] = "CLOSED" /\ onClose'[ws] = {}
       /\ \A t \in Sockets : t # ws => rs'[t] = rs[t] /\ onClose'[t] = onClose[t]
  BY <1>1, <1>9, <1>10, <1>12 DEF TypeOK
<1>16. Down'
  BY <1>1, <1>7, <1>12, <1>13, <1>14, <1>15 DEF Down
<1>17. CarefulInv'
  BY <1>12, <1>15, <1>16, NowDown
<1>18. phaseOf = "connecting" /\ phaseOf' = "dead"
  BY <1>1, <1>7, <1>12, <1>15, PhaseNow, PhaseNext
<1>19. LinkStep
  BY <1>12, <1>18 DEF LinkStep, Promised!LinkNext, Promised!Fail
<1>20. ReadyStep
  BY <1>12, <1>14 DEF ReadyStep
<1>21. QED
  BY <1>12, <1>17, <1>19, <1>20 DEF Good, ThrowStep

(* ------------------------------- Theorems ------------------------------ *)

LEMMA EveryStep ==
  ASSUME TypeOK, TypeOK', CarefulInv, [Next]_vars
  PROVE  Good
<1>1. CASE \E p \in Calls : Connect(p) \/ Disconnect(p)
  BY <1>1, ConnectStep, DisconnectStep
<1>2. CASE \E p \in Calls : RetryAfterFailure(p) \/ TimerFires(p)
  BY <1>2, RetryStep, TimerFiresStep
<1>3. CASE \E s \in Sockets :
             SocketOpens(s) \/ CloseFrame(s) \/ SocketCloses(s) \/ SocketFails(s)
  BY <1>3, SocketOpensStep, CloseFrameStep, SocketClosesStep, SocketFailsStep
<1>4. CASE \E q \in subs : SubscribeAnswer(q, "answered") \/ SubscribeAnswer(q, "empty")
  BY <1>4, SubscribeAnswerStep
<1>5. CASE \E q \in subs : SubscribeRefused(q) \/ SubscribeTimeout(q)
  BY <1>5, SubscribeFailureStep
<1>6. CASE \E q \in subs : Subscribed(q) \/ NotInitialized(q)
  BY <1>6, SubscribedStep, NotInitializedStep
<1>7. CASE UNCHANGED vars
  BY <1>7, Stays DEF vars, Good, ThrowStep, TypeOK
<1>8. QED
  BY <1>1, <1>2, <1>3, <1>4, <1>5, <1>6, <1>7 DEF Next

LEMMA InvInit ==
  ASSUME Init, Careful, ~HandshakeFaults
  PROVE  CarefulInv
<1>1. Pending = {} /\ Failed = {}
  BY DEF Init, Pending, Failed
<1>2. Down
  BY <1>1 DEF Init, Down
<1>3. OthersGone
  BY DEF Init, OthersGone, Live
<1>4. QED
  BY <1>2, <1>3 DEF CarefulInv, Situation, Init

(* The application is careful, and the server neither closes the socket    *)
(* nor refuses in a handshake; errors may come at any time.                *)
CarefulSpec == Careful /\ ~HandshakeFaults /\ Spec

LEMMA AlwaysSituated == CarefulSpec => [](TypeOK /\ CarefulInv)
<1>1. Init /\ Careful /\ ~HandshakeFaults => CarefulInv
  BY InvInit
<1>2. TypeOK /\ TypeOK' /\ CarefulInv /\ [Next]_vars => CarefulInv'
  BY EveryStep DEF Good
<1>3. Spec => []TypeOK
  BY TypeCorrect
<1>4. QED
  BY <1>1, <1>2, <1>3, PTL DEF CarefulSpec, Spec

(* The socket opens, becomes ready, closes and is replaced as Link says:   *)
(* what Requests and LedgerView take for granted of the connection, this   *)
(* one does (connect, _onOpen, _onUnexpectedClose and _disconnect).        *)
THEOREM ImplementsLink == CarefulSpec => LinkImplemented
<1>1. Init => Promised!LinkInit
  BY DEF Init, Promised!LinkInit, phaseOf
<1>2. TypeOK /\ TypeOK' /\ CarefulInv /\ [Next]_vars
      => [Promised!LinkNext]_(Promised!link)
  BY EveryStep DEF Good, LinkStep, Promised!link
<1>3. QED
  BY <1>1, <1>2, AlwaysSituated, PTL
  DEF CarefulSpec, Spec, LinkImplemented, Promised!LinkSpec

(* The promise of connect() resolves only when the connection is ready.    *)
THEOREM ResolvesWhenReady == CarefulSpec => ConnectMeansReady
<1>1. TypeOK /\ TypeOK' /\ CarefulInv /\ [Next]_vars => [ReadyStep]_vars
  BY EveryStep DEF Good
<1>2. QED
  BY <1>1, AlwaysSituated, PTL DEF CarefulSpec, Spec, ConnectMeansReady, ReadyStep

(* A handshake finds that the last one has been given up: the application  *)
(* hears disconnected between two connected events.                        *)
THEOREM AnnouncedInTurn == CarefulSpec => EventsAlternate
<1>1. TypeOK /\ CarefulInv
      => [\A q \in subs : q.st = "answered" /\ q \notin subs' /\ ws # 0
                           => announced # "connected"]_vars
  BY OfHandshake DEF Handshaking
<1>2. QED
  BY <1>1, AlwaysSituated, PTL DEF CarefulSpec, Spec, EventsAlternate

(* The process ends only by an error event that comes in the handshake:    *)
(* no listener uses this._ws when it is null, and before the socket opens  *)
(* and once the connection is ready every error has a listener.            *)
THEOREM ThrowsInHandshakeOnly == CarefulSpec => OnlyHandshakeThrows
<1>1. TypeOK /\ TypeOK' /\ CarefulInv /\ [Next]_vars => ThrowStep
  BY EveryStep DEF Good
<1>2. QED
  BY <1>1, AlwaysSituated, PTL DEF CarefulSpec, Spec, OnlyHandshakeThrows, ThrowStep

(* A socket that lives is the one the connection will close.               *)
THEOREM NoneOrphaned == CarefulSpec => []NoOrphanSocket
<1>1. CarefulInv => NoOrphanSocket
  BY DEF CarefulInv, OthersGone, NoOrphanSocket, LiveSockets
<1>2. QED
  BY <1>1, AlwaysSituated, PTL

LEMMA OneCloses ==
  ASSUME TypeOK, CarefulInv, NEW s \in Sockets
  PROVE  \E x : {l \in onClose[s] :
                   l.kind \in {"before", "after", "destroy", "uninit"}} \subseteq {x}
<1>1. CASE rs[s] \notin Live
  BY <1>1 DEF CarefulInv, OthersGone
<1>2. CASE rs[s] \in Live
  <2>1. s = ws /\ ~Down
    BY <1>2, LiveIsCurrent
  <2>2. PICK x, R : onClose[ws] = {x} \cup R /\ Resolvers(R)
    <3>1. ASSUME NEW p \in Calls, Connecting(p) \/ Handshaking(p)
          PROVE  onClose[ws] = {[kind |-> "before", p |-> p]} \cup {} /\ Resolvers({})
      BY <3>1 DEF Connecting, Handshaking, Resolvers
    <3>2. ASSUME NEW R, Serving(R)
          PROVE  onClose[ws] = {[kind |-> "after", p |-> 0]} \cup R /\ Resolvers(R)
      BY <3>2 DEF Serving
    <3>3. ASSUME NEW kind, NEW p, NEW R, Closing(kind, p, R)
          PROVE  onClose[ws] = {[kind |-> kind, p |-> p]} \cup R /\ Resolvers(R)
      BY <3>3 DEF Closing
    <3>4. QED
      BY <2>1, <3>1, <3>2, <3>3, Situations
  <2>3. \A l \in R : l.kind \notin {"before", "after", "destroy", "uninit"}
    BY <2>2 DEF Resolvers
  <2>4. QED
    BY <2>1, <2>2, <2>3
<1>3. QED
  BY <1>1, <1>2

LEMMA AtMostOne ==
  ASSUME NEW S, NEW x, S \subseteq {x}
  PROVE  Cardinality(S) \in Nat /\ Cardinality(S) <= 1
<1>1. IsFiniteSet({x}) /\ Cardinality({x}) = 1
  BY FS_Singleton
<1>2. S \in SUBSET {x}
  OBVIOUS
<1>3. IsFiniteSet(S) /\ Cardinality(S) <= Cardinality({x})
  BY <1>1, <1>2, FS_Subset
<1>4. Cardinality(S) \in Nat
  BY <1>3, FS_CardinalityType
<1>5. QED
  BY <1>1, <1>3, <1>4

(* At most one listener takes a socket away from the connection when it    *)
(* closes, so no two of them act on the same this._ws.                     *)
THEOREM OneReaction == CarefulSpec => []OneCloseReaction
<1>1. TypeOK /\ CarefulInv => OneCloseReaction
  BY OneCloses, AtMostOne DEF OneCloseReaction
<1>2. QED
  BY <1>1, AlwaysSituated, PTL

(* The loss of a ready connection is heard of by the listener that arms    *)
(* the reconnect timer.                                                    *)
THEOREM LossesNoticed == CarefulSpec => []LossIsNoticed
<1>1. TypeOK /\ CarefulInv => LossIsNoticed
  <2> SUFFICES ASSUME TypeOK, CarefulInv, IsConnected
               PROVE  \E l \in onClose[ws] : l.kind = "after"
    BY DEF LossIsNoticed
  <2>1. State = "OPEN" /\ isReady /\ ~Down
    BY DEF IsConnected, Down
  <2>2. ASSUME NEW kind, NEW p, NEW R, Closing(kind, p, R) PROVE FALSE
    BY <2>1, <2>2, Situations, PhaseNow DEF Closing
  <2>3. ASSUME NEW p, Connecting(p) \/ Handshaking(p) PROVE FALSE
    BY <2>1, <2>3 DEF Connecting, Handshaking
  <2>4. PICK R : Serving(R)
    BY <2>1, <2>2, <2>3, Situations
  <2>5. [kind |-> "after", p |-> 0] \in onClose[ws]
    BY <2>4 DEF Serving
  <2>6. [kind |-> "after", p |-> 0].kind = "after"
    OBVIOUS
  <2>7. QED
    BY <2>5, <2>6
<1>2. QED
  BY <1>1, AlwaysSituated, PTL

(* Every promise that is pending has a listener of a living socket, or the *)
(* request of a handshake, that will settle it.                            *)
THEOREM NoneLost == CarefulSpec => []NoLostCall
<1>1. TypeOK /\ CarefulInv => NoLostCall
  <2> SUFFICES ASSUME TypeOK, CarefulInv, NEW c \in Calls, c \in Pending
               PROVE  Awaits(c)
    BY DEF NoLostCall, Pending
  <2>1. ~Down /\ ws \in Sockets
    <3>1. ~Down
      BY DEF Down
    <3>2. QED
      BY <3>1, Situations
  <2>2. rs[ws] \in Live => ws \in LiveSockets
    BY <2>1 DEF LiveSockets
  <2>3. ASSUME NEW p \in Calls, Connecting(p) PROVE Awaits(c)
    <3>1. c = onOpen[ws] /\ ws \in LiveSockets
      BY <2>2, <2>3 DEF Connecting, Live
    <3>2. QED
      BY <3>1 DEF Awaits, WaitedFor
  <2>4. ASSUME NEW p \in Calls, Handshaking(p) PROVE Awaits(c)
    <3>1. c = p
      BY <2>4 DEF Handshaking
    <3>2. PICK st : subs = {[p |-> p, on |-> ws, st |-> st]}
      BY <2>4 DEF Handshaking
    <3>3. [p |-> p, on |-> ws, st |-> st].p = p
      OBVIOUS
    <3>4. QED
      BY <3>1, <3>2, <3>3 DEF Awaits, Callers
  <2>5. ASSUME NEW R, Serving(R) PROVE Awaits(c)
    <3>1. ws \in LiveSockets
      BY <2>2, <2>5 DEF Serving, Live
    <3>2. Callers(R) \subseteq Callers(onClose[ws])
      BY <2>5 DEF Serving, Callers
    <3>3. c \in Callers(R)
      BY <2>5 DEF Serving
    <3>4. QED
      BY <3>1, <3>2, <3>3 DEF Awaits, WaitedFor
  <2>6. ASSUME NEW kind, NEW p, NEW R, Closing(kind, p, R) PROVE Awaits(c)
    <3>1. ws \in LiveSockets
      BY <2>2, <2>6 DEF Closing, Live
    <3>2. onClose[ws] = {[kind |-> kind, p |-> p]} \cup R /\ Pending = {p} \cup Callers(R)
      BY <2>6 DEF Closing
    <3>3. Callers(R) \subseteq Callers(onClose[ws])
      BY <3>2 DEF Callers
    <3>4. p \in Callers(onClose[ws])
      <4>1. [kind |-> kind, p |-> p] \in onClose[ws] /\ [kind |-> kind, p |-> p].p = p
        BY <3>2
      <4>2. QED
        BY <4>1 DEF Callers
    <3>5. QED
      BY <3>1, <3>2, <3>3, <3>4 DEF Awaits, WaitedFor
  <2>7. QED
    BY <2>1, <2>3, <2>4, <2>5, <2>6, Situations
<1>2. QED
  BY <1>1, AlwaysSituated, PTL

(* The attempts of the reconnect timer follow each other: there is never a *)
(* second timer, or a timer beside an attempt or a living socket.          *)
THEOREM OneLoop == CarefulSpec => []OneReconnectLoop
<1>1. TypeOK /\ CarefulInv => OneReconnectLoop
  <2> SUFFICES ASSUME TypeOK, CarefulInv PROVE OneReconnectLoop
    OBVIOUS
  <2> DEFINE Retries == {p \in Calls : callKind[p] = "retry"
                           /\ callResult[p] \in {"pending", "rejected"}}
  <2>1. Retries \subseteq Pending \cup Failed
        /\ \A p \in Retries : callKind[p] = "retry"
    BY DEF Pending, Failed
  <2>2. strays = 0
    BY DEF CarefulInv
  <2> HIDE DEF Retries
  <2>3. CASE timer
    <3>1. Down
      BY <2>3, Situations
    <3>2. Retries = {}
      BY <2>1, <2>3, <3>1 DEF Down
    <3>3. Cardinality(Retries) = 0
      BY <3>2, FS_EmptySet
    <3>4. LiveSockets = {}
      BY <3>1, LiveIsCurrent DEF LiveSockets
    <3>5. QED
      BY <2>2, <2>3, <3>3, <3>4 DEF OneReconnectLoop, Retries
  <2>4. CASE ~timer
    <3>1. \E x : Retries \subseteq {x}
      <4>1. CASE Down
        <5>1. \A p, q \in Retries : p = q
          BY <2>1, <4>1 DEF Down
        <5>2. QED
          BY <5>1
      <4>2. ASSUME ~Down, NEW p, Connecting(p) \/ Handshaking(p) PROVE Retries \subseteq {p}
        BY <2>1, <4>2, Situations DEF Connecting, Handshaking
      <4>3. ASSUME NEW R, Resolvers(R) PROVE \A c \in Callers(R) : c \notin Retries
        BY <2>1, <4>3 DEF Callers, Resolvers
      <4>4. ASSUME ~Down, NEW R, Serving(R) PROVE Retries = {}
        BY <2>1, <4>3, <4>4, Situations DEF Serving
      <4>5. ASSUME ~Down, NEW kind, NEW p, NEW R, Closing(kind, p, R)
            PROVE  Retries \subseteq {p}
        BY <2>1, <4>3, <4>5, Situations DEF Closing
      <4>6. QED
        BY <4>1, <4>2, <4>4, <4>5, Situations
    <3>2. Cardinality(Retries) \in Nat /\ Cardinality(Retries) <= 1
      BY <3>1, AtMostOne
    <3>3. QED
      BY <2>2, <2>4, <3>2 DEF OneReconnectLoop, Retries
  <2>5. QED
    BY <2>3, <2>4 DEF TypeOK
<1>2. QED
  BY <1>1, AlwaysSituated, PTL

=============================================================================
