----------------------------- MODULE Connection -----------------------------
(***************************************************************************)
(* The life of one Connection object (src/src/common/connection.js): the   *)
(* WebSockets it creates, the listeners it puts on them, the promises it   *)
(* hands to its callers, the reconnect timer and the subscribe handshake.  *)
(*                                                                         *)
(* JavaScript runs one callback to its end before the next one starts, so  *)
(* an action is one callback: a call of the application, an event of a     *)
(* socket with every listener it fires, a timer, or a promise reaction.    *)
(* A promise reaction that changes the connection's state is an action of  *)
(* its own (Subscribed, RetryAfterFailure); it runs before the next event  *)
(* of a socket or timer (Quiet), except that one network read may deliver  *)
(* several frames, so an answer or a close frame can come first.           *)
(* The application may call at any time: from a listener, a reaction or a  *)
(* timer of its own.                                                       *)
(*                                                                         *)
(* A socket is a number, 0 stands for null.  A call is the promise of one  *)
(* connect() or disconnect(), the application's or a reconnect timer's; 0  *)
(* is no call.  A number is used again once nothing refers to it any more, *)
(* so behaviours are as long as one likes while the bounds cap how many    *)
(* sockets and calls there are at once.                                    *)
(***************************************************************************)
EXTENDS Integers, FiniteSets

CONSTANTS
  MaxSockets,      \* bound: WebSockets that are alive or referred to at once
  MaxCalls,        \* bound: promises that are pending or referred to at once
  MaxRetries,      \* bound: this._retry stops counting here
  MaxStrays,       \* bound: reconnect timers that nothing refers to
  Careful,         \* the application awaits its calls, and calls only while
                   \* the connection is ready or closed (MayConnect, MayDisconnect)
  HandshakeFaults  \* the server may close or refuse between the open event
                   \* of the socket and the reaction to the subscribe answer

ASSUME SizeAssumption ==
  /\ MaxSockets \in Nat /\ MaxCalls \in Nat
  /\ MaxRetries \in Nat /\ MaxStrays \in Nat
ASSUME EnvironmentAssumption ==
  /\ Careful \in BOOLEAN
  /\ HandshakeFaults \in BOOLEAN

Sockets == 1 .. MaxSockets
Calls == 1 .. MaxCalls

VARIABLES
  ws,           \* this._ws
  isReady,      \* this._isReady
  retry,        \* this._retry
  timer,        \* the timer this._retryTimer refers to is running
  strays,       \* running reconnect timers that no variable refers to
  errorBound,   \* the socket this._onOpenErrorBound was put on, or 0
  closeBound,   \* where and which this._onUnexpectedCloseBound is
  rs,           \* readyState of each socket
  onOpen,       \* the call whose _onOpen is the socket's open listener, or 0
  openWaiters,  \* the calls whose resolve waits for the socket's open event
  onError,      \* the call that _onOpenError would reject, or 0
  forwards,     \* the sockets whose errors are forwarded
  onClose,      \* the close listeners of each socket
  subs,         \* subscribe requests that have not settled
  callKind,     \* who made each promise: connect(), a timer, disconnect()
  callResult,   \* and how it has settled
  announced,    \* the last of the events connected and disconnected
  crashed       \* an exception escaped from a listener

selfVars == <<ws, isReady, announced>>
timerVars == <<retry, timer, strays>>
boundVars == <<errorBound, closeBound>>
callVars == <<callKind, callResult>>
listenVars == <<onOpen, openWaiters, onError, forwards, onClose>>
vars == <<selfVars, timerVars, boundVars, rs, listenVars, subs, callVars, crashed>>

(***************************************************************************)
(* The close listeners.  "before" and "after" are _onUnexpectedClose bound *)
(* with beforeOpen true and false; "destroy" and "uninit" are those of     *)
(* _disconnect(true) and _disconnect(false); "resolve" and "reject" only   *)
(* settle the call that found the socket already CLOSING.                  *)
(***************************************************************************)
CloseKinds == {"before", "after", "destroy", "uninit", "resolve", "reject"}
Listener == [kind : CloseKinds, p : 0 .. MaxCalls]
Nowhere == [on |-> 0, kind |-> "none"]
Bound == [on : 0 .. MaxSockets, kind : {"none", "before", "after"}]

(* A subscribe request: "sent" waits for its answer, "timed" also has its  *)
(* timeout running, "unsent" failed to send on a socket that is not open   *)
(* and is rejected once the connection is ready, "answered" and "empty"    *)
(* have their answer and wait for the reaction of _onOpen.                 *)
SubStates == {"sent", "timed", "unsent", "answered", "empty"}
Sub == [p : Calls, on : Sockets, st : SubStates]
WithState(q, st) == [p |-> q.p, on |-> q.on, st |-> st]

ReadyStates == {"unused", "CONNECTING", "OPEN", "CLOSING", "ABORTING", "CLOSED"}
Kinds == {"free", "connect", "retry", "disconnect"}
Results == {"pending", "resolved", "rejected", "handled"}

TypeOK ==
  /\ ws \in 0 .. MaxSockets
  /\ isReady \in BOOLEAN
  /\ retry \in Nat
  /\ timer \in BOOLEAN
  /\ strays \in Nat
  /\ errorBound \in 0 .. MaxSockets
  /\ closeBound \in Bound
  /\ rs \in [Sockets -> ReadyStates]
  /\ onOpen \in [Sockets -> 0 .. MaxCalls]
  /\ openWaiters \in [Sockets -> SUBSET Calls]
  /\ onError \in [Sockets -> 0 .. MaxCalls]
  /\ forwards \in SUBSET Sockets
  /\ onClose \in [Sockets -> SUBSET Listener]
  /\ subs \in SUBSET Sub
  /\ callKind \in [Calls -> Kinds]
  /\ callResult \in [Calls -> Results]
  /\ announced \in {"none", "connected", "disconnected"}
  /\ crashed \in BOOLEAN

Init ==
  /\ ws = 0
  /\ isReady = FALSE
  /\ retry = 0
  /\ timer = FALSE
  /\ strays = 0
  /\ errorBound = 0
  /\ closeBound = Nowhere
  /\ rs = [s \in Sockets |-> "unused"]
  /\ onOpen = [s \in Sockets |-> 0]
  /\ openWaiters = [s \in Sockets |-> {}]
  /\ onError = [s \in Sockets |-> 0]
  /\ forwards = {}
  /\ onClose = [s \in Sockets |-> {}]
  /\ subs = {}
  /\ callKind = [p \in Calls |-> "free"]
  /\ callResult = [p \in Calls |-> "pending"]
  /\ announced = "none"
  /\ crashed = FALSE

-----------------------------------------------------------------------------

(* An operator marked "Mutant" is used nowhere: it is a plausible bug of   *)
(* the operator after it, and PROJECT.json names the property it breaks.   *)

(* get _state: a socket that is closing before it opened (ABORTING) shows  *)
(* the application the readyState CLOSING.                                 *)
ReadyState(s) == IF rs[s] = "ABORTING" THEN "CLOSING" ELSE rs[s]
(* Mutant of State: a connection that is not ready counts as closed.       *)
StateOnceReady == IF ws = 0 \/ ~isReady THEN "CLOSED" ELSE ReadyState(ws)
State == IF ws = 0 THEN "CLOSED" ELSE ReadyState(ws)

ShouldBeConnected == ws # 0

IsConnected == State = "OPEN" /\ isReady

(* Mutant of Settle: a reject is lost.                                     *)
ResolvesOnly(resolved, rejected) ==
  [p \in Calls |-> IF callResult[p] = "pending" /\ p \in resolved
                   THEN "resolved" ELSE callResult[p]]
(* A promise settles once: later resolve and reject calls do nothing.      *)
Settle(resolved, rejected) ==
  [p \in Calls |->
     IF callResult[p] # "pending" THEN callResult[p]
     ELSE IF p \in rejected THEN "rejected"
     ELSE IF p \in resolved THEN "resolved"
     ELSE "pending"]

(* Mutant of WithoutBound: the old close listener stays.                   *)
RemovesNothing(listeners, s) == listeners

(* removeListener(event, bound) acts on this._ws alone.                    *)
WithoutBound(listeners, s) ==
  {l \in listeners : ~(closeBound.on = s /\ closeBound.kind = l.kind)}

SubsOn(s) == {q \in subs : q.on = s}
Callers(qs) == {q.p : q \in qs}

(* No promise reaction of the connection is waiting to run, or only those  *)
(* to a frame that came on s in the same network read.                     *)
QuietBut(s) ==
  \A q \in subs : q.st \in {"answered", "empty"} => q.on = s
Quiet ==
  /\ \A q \in subs : q.st \notin {"answered", "empty"}
  /\ \A p \in Calls : callKind[p] = "retry" => callResult[p] # "rejected"

Live == {"CONNECTING", "OPEN", "CLOSING", "ABORTING"}
LiveSockets == {s \in Sockets : rs[s] \in Live}

(* Nothing refers to the socket, to the call: the number is free.          *)
FreeSocket(s) ==
  /\ rs[s] \notin Live
  /\ s \notin {ws, errorBound, closeBound.on}
  /\ \A q \in subs : q.on # s

WaitedFor(s) ==
  {onOpen[s], onError[s]} \cup openWaiters[s] \cup Callers(onClose[s])
FreeCall(p) ==
  /\ \/ callKind[p] = "free"
     \/ callResult[p] \in {"resolved", "handled"}
     \/ callKind[p] # "retry" /\ callResult[p] = "rejected"
  /\ \A s \in LiveSockets : p \notin WaitedFor(s)
  /\ p \notin Callers(subs)

IsNext(x, S) == x \in S /\ \A y \in S : x <= y
IsNextSocket(s) == IsNext(s, {t \in Sockets : FreeSocket(t)})
IsNextCall(p) == IsNext(p, {c \in Calls : FreeCall(c)})

(* An exception that no listener catches ends the process.                 *)
Crash ==
  /\ crashed' = TRUE
  /\ UNCHANGED <<selfVars, timerVars, boundVars, rs, listenVars, subs, callVars>>

-----------------------------------------------------------------------------
(* connect() and disconnect()                                              *)

(* The last branch of connect(): a socket with its listeners, beside those *)
(* that the calling handler has left on the others.                        *)
CreateSocket(p, s, rs0, onOpen0, openWaiters0, onError0, forwards0, onClose0) ==
  /\ ws' = s
  /\ rs' = [rs0 EXCEPT ![s] = "CONNECTING"]
  /\ onOpen' = [onOpen0 EXCEPT ![s] = p]
  /\ openWaiters' = [openWaiters0 EXCEPT ![s] = {}]
  /\ onError' = [onError0 EXCEPT ![s] = p]
  /\ onClose' = [onClose0 EXCEPT ![s] = {[kind |-> "before", p |-> p]}]
  /\ forwards' = forwards0 \ {s}
  /\ errorBound' = s
  /\ closeBound' = [on |-> s, kind |-> "before"]

(* Mutant of ClearTimer: the timer is left running.                        *)
KeepTimer == UNCHANGED timer
(* _clearReconnectTimer                                                    *)
ClearTimer == timer' = FALSE

MakeCall(p, k, r) ==
  /\ callKind' = [callKind EXCEPT ![p] = k]
  /\ callResult' = [callResult EXCEPT ![p] = r]

(* connect() as call p.  The url is given: without one, connect() rejects. *)
StartConnect(p, k) ==
  /\ ClearTimer
  /\ \/ /\ State = "OPEN"
        /\ MakeCall(p, k, "resolved")
        /\ UNCHANGED <<ws, boundVars, rs, listenVars>>
     \/ /\ State = "CONNECTING"
        /\ openWaiters' = [openWaiters EXCEPT ![ws] = @ \cup {p}]
        /\ MakeCall(p, k, "pending")
        /\ UNCHANGED <<ws, boundVars, rs, onOpen, onError, forwards, onClose>>
     \/ /\ State \in {"CLOSING", "CLOSED"}
        /\ \E s \in Sockets :
             /\ IsNextSocket(s)
             /\ CreateSocket(p, s, rs, onOpen, openWaiters, onError, forwards, onClose)
        /\ MakeCall(p, k, "pending")
  /\ UNCHANGED <<isReady, announced, subs, crashed>>

Awaited ==
  \A p \in Calls :
    callKind[p] \in {"connect", "disconnect"} => callResult[p] # "pending"

MayConnect ==
  Careful => Awaited /\ Quiet /\ (IsConnected \/ State = "CLOSED")
MayDisconnect ==
  Careful => Awaited /\ Quiet /\ subs = {} /\ State # "CONNECTING"

Connect(p) ==
  /\ ~crashed
  /\ IsNextCall(p)
  /\ MayConnect
  /\ StartConnect(p, "connect")
  /\ UNCHANGED <<retry, strays>>

(* Mutant of CloseSocket: close() with no listener of the close event.     *)
ForgetsToListen(p, kind) ==
  /\ onClose' = [onClose EXCEPT ![ws] = WithoutBound(@, ws)]
  /\ closeBound' = Nowhere
  /\ rs' = [rs EXCEPT ![ws] = IF @ = "OPEN" THEN "CLOSING" ELSE "ABORTING"]
(* The else branch of _disconnect: p settles when the socket has closed.   *)
CloseSocket(p, kind) ==
  /\ onClose' = [onClose EXCEPT ![ws] =
                   WithoutBound(@, ws) \cup {[kind |-> kind, p |-> p]}]
  /\ closeBound' = Nowhere
  /\ rs' = [rs EXCEPT ![ws] = IF @ = "OPEN" THEN "CLOSING" ELSE "ABORTING"]

Disconnect(p) ==
  /\ ~crashed
  /\ IsNextCall(p)
  /\ MayDisconnect
  /\ ClearTimer
  /\ retry' = 0
  /\ MakeCall(p, "disconnect",
              IF State = "CLOSED" THEN "resolved" ELSE "pending")
  /\ \/ /\ State = "CLOSED"
        /\ UNCHANGED <<closeBound, rs, onClose>>
     \/ /\ State = "CLOSING"
        /\ onClose' = [onClose EXCEPT ![ws] =
                         @ \cup {[kind |-> "resolve", p |-> p]}]
        /\ UNCHANGED <<closeBound, rs>>
     \/ /\ State \in {"CONNECTING", "OPEN"}
        /\ CloseSocket(p, "destroy")
  /\ UNCHANGED <<selfVars, strays, errorBound, onOpen, openWaiters, onError,
                 forwards, subs, crashed>>

-----------------------------------------------------------------------------
(* The socket opens                                                        *)

(* _onOpen for call p on this._ws, whichever socket that is by now: the    *)
(* open error listener goes and the subscribe request is sent.             *)
SubscribeOn(p) ==
  [p |-> p, on |-> ws,
   st |-> IF rs'[ws] # "OPEN" THEN "unsent"
          ELSE IF isReady THEN "timed" ELSE "sent"]

(* Mutant of ResolvedByOpen: connect() does not await the handshake.       *)
ResolvesAtOpen(s) == openWaiters[s] \cup ({onOpen[s]} \ {0})
(* The calls that resolve with the open event itself: those of connect()   *)
(* while another one was CONNECTING.                                       *)
ResolvedByOpen(s) == openWaiters[s]

SocketOpens(s) ==
  LET p == onOpen[s] IN
  /\ ~crashed
  /\ Quiet
  /\ rs[s] = "CONNECTING"
  /\ rs' = [rs EXCEPT ![s] = "OPEN"]
  /\ onOpen' = [onOpen EXCEPT ![s] = 0]
  /\ openWaiters' = [openWaiters EXCEPT ![s] = {}]
  /\ \/ /\ p = 0
        /\ callResult' = Settle(ResolvedByOpen(s), {})
        /\ UNCHANGED <<errorBound, onError, subs>>
     \/ /\ p # 0 /\ ws = 0
        /\ callResult' = Settle(ResolvedByOpen(s), {p})
        /\ UNCHANGED <<errorBound, onError, subs>>
     \/ /\ p # 0 /\ ws # 0
        /\ onError' = IF errorBound = ws
                      THEN [onError EXCEPT ![ws] = 0] ELSE onError
        /\ errorBound' = 0
        /\ subs' = subs \cup {SubscribeOn(p)}
        /\ callResult' = Settle(ResolvedByOpen(s), {})
  /\ UNCHANGED <<selfVars, timerVars, closeBound, forwards, onClose, callKind,
                 crashed>>

-----------------------------------------------------------------------------
(* The subscribe handshake                                                 *)

(* Where the environment lets a socket close.  An error event may come at  *)
(* any time, in the handshake too.                                         *)
MayClose(s) == HandshakeFaults \/ \A q \in subs : q.on # s

(* A frame may arrive behind another one in a single network read, before  *)
(* the reactions to that one: no Quiet here and in CloseFrame.             *)
SubscribeAnswer(q, st) ==
  /\ ~crashed
  /\ q.st \in {"sent", "timed"}
  /\ rs[q.on] \in {"OPEN", "CLOSING"}
  /\ QuietBut(q.on)
  /\ subs' = (subs \ {q}) \cup {WithState(q, st)}
  /\ UNCHANGED <<selfVars, timerVars, boundVars, rs, listenVars, callVars, crashed>>

(* An answer with status "error".                                          *)
SubscribeRefused(q) ==
  /\ ~crashed
  /\ HandshakeFaults
  /\ q.st \in {"sent", "timed"}
  /\ rs[q.on] \in {"OPEN", "CLOSING"}
  /\ QuietBut(q.on)
  /\ subs' = subs \ {q}
  /\ callResult' = Settle({}, {q.p})
  /\ UNCHANGED <<selfVars, timerVars, boundVars, rs, listenVars, callKind, crashed>>

SubscribeTimeout(q) ==
  /\ ~crashed
  /\ Quiet
  /\ q.st = "timed"
  /\ subs' = subs \ {q}
  /\ callResult' = Settle({}, {q.p})
  /\ UNCHANGED <<selfVars, timerVars, boundVars, rs, listenVars, callKind, crashed>>

(* The event connected releases the requests that waited for it: one that  *)
(* was sent starts its timeout, one that could not be sent is rejected.    *)
Released(qs) ==
  {IF q.st = "sent" THEN WithState(q, "timed") ELSE q :
     q \in {r \in qs : r.st # "unsent"}}
Unsent == {q \in subs : q.st = "unsent"}

(* Mutant of Rebind: the close listener of the handshake only goes.        *)
RebindNothing ==
  /\ onClose' = [onClose EXCEPT ![ws] = WithoutBound(@, ws)]
  /\ closeBound' = Nowhere
(* _rebindOnUnxpectedClose: the close listener that reconnects later takes *)
(* the place of the one that reconnects at once.                           *)
Rebind ==
  /\ onClose' = [onClose EXCEPT ![ws] =
                   WithoutBound(@, ws) \cup {[kind |-> "after", p |-> 0]}]
  /\ closeBound' = [on |-> ws, kind |-> "after"]

(* Mutant of ForwardErrors: an open socket has no error listener.          *)
ForwardNothing == UNCHANGED forwards
ForwardErrors == forwards' = forwards \cup {ws}

ResetRetry == retry' = 0

(* The reaction of _onOpen to its answer, on whichever socket is this._ws. *)
Subscribed(q) ==
  /\ ~crashed
  /\ q.st = "answered"
  /\ \/ /\ ws = 0        \* rebinding on null throws into the promise
        /\ subs' = subs \ {q}
        /\ callResult' = Settle({}, {q.p})
        /\ UNCHANGED <<isReady, announced, retry, closeBound, forwards, onClose>>
     \/ /\ ws # 0
        /\ Rebind
        /\ ResetRetry
        /\ ForwardErrors
        /\ isReady' = TRUE
        /\ announced' = "connected"
        /\ subs' = Released(subs \ {q})
        /\ callResult' = Settle({q.p}, Callers(Unsent))
  /\ UNCHANGED <<ws, timer, strays, errorBound, rs, onOpen, openWaiters,
                 onError, callKind, crashed>>

(* The server has no validated ledger: _disconnect(false), then reject.    *)
NotInitialized(q) ==
  /\ ~crashed
  /\ q.st = "empty"
  /\ subs' = subs \ {q}
  /\ \/ /\ State = "CLOSED"
        /\ callResult' = Settle({}, {q.p})
        /\ UNCHANGED <<closeBound, rs, onClose>>
     \/ /\ State = "CLOSING"
        /\ onClose' = [onClose EXCEPT ![ws] =
                         @ \cup {[kind |-> "reject", p |-> q.p]}]
        /\ UNCHANGED <<closeBound, rs, callResult>>
     \/ /\ State \in {"CONNECTING", "OPEN"}
        /\ CloseSocket(q.p, "uninit")
        /\ UNCHANGED callResult
  /\ UNCHANGED <<selfVars, timerVars, errorBound, onOpen, openWaiters, onError,
                 forwards, callKind, crashed>>

-----------------------------------------------------------------------------
(* The socket closes                                                       *)

(* Mutant of ArmTimer: _retry is decremented.                              *)
CountsDown ==
  /\ retry' = retry - 1
  /\ timer' = TRUE
  /\ UNCHANGED strays
(* _retryConnect: a timer that still runs is no longer referred to.        *)
ArmTimer ==
  /\ retry' = IF retry < MaxRetries THEN retry + 1 ELSE retry
  /\ timer' = TRUE
  /\ timer => strays < MaxStrays
  /\ strays' = IF timer THEN strays + 1 ELSE strays

(* Mutant of NotReady: _isReady survives the loss.                         *)
KeepReady == UNCHANGED isReady
NotReady == isReady' = FALSE

(* Mutant of EmitDisconnected: the event is not emitted.                   *)
NoEvent == UNCHANGED announced
EmitDisconnected == announced' = "disconnected"

(* Mutant of WithoutRequests: requests do not hear of the close.           *)
KeepRequests(s) == subs
(* onDisconnect of every request that was sent on s.                       *)
WithoutRequests(s) == subs \ SubsOn(s)

(* The close event of s: its listeners and the requests sent on it are     *)
(* told.  onClose0, onError0, errorBound0 and closeBound0 are what an      *)
(* error event just before has left, failed the call that it rejected.  A  *)
(* closed socket has no further event: the rest of its listeners is gone.  *)
CloseEvent(s, onClose0, onError0, errorBound0, closeBound0, failed) ==
  LET L == onClose0[s]
      Of(kinds) == {l \in L : l.kind \in kinds}
      settled == Settle(Callers(Of({"destroy", "resolve"})),
                        failed \cup Callers(Of({"uninit", "reject"}))
                               \cup Callers(SubsOn(s)))
      closed == [rs EXCEPT ![s] = "CLOSED"]
      fired == [onClose0 EXCEPT ![s] = {}]
      (* a listener of _disconnect runs first: it was registered first *)
      Nullified == ws = 0 \/ Of({"destroy", "uninit"}) # {}
      (* _onUnexpectedClose takes this._ws's listeners, not those of s *)
      onErrorLeft == [onError0 EXCEPT ![s] = 0,
                        ![ws] = IF errorBound0 = ws THEN 0 ELSE @]
      onOpenLeft == [onOpen EXCEPT ![s] = 0, ![ws] = 0]
      waitersLeft == [openWaiters EXCEPT ![s] = {}, ![ws] = {}]
  IN
  \/ /\ Of({"before", "after"}) = {}
     /\ IF Of({"destroy", "uninit"}) # {}
        THEN ws' = 0 /\ NotReady
        ELSE UNCHANGED <<ws, isReady>>
     /\ IF Of({"destroy"}) # {} THEN EmitDisconnected ELSE UNCHANGED announced
     /\ rs' = closed
     /\ onOpen' = [onOpen EXCEPT ![s] = 0]
     /\ openWaiters' = [openWaiters EXCEPT ![s] = {}]
     /\ onClose' = fired
     /\ onError' = [onError0 EXCEPT ![s] = 0]
     /\ forwards' = forwards \ {s}
     /\ errorBound' = errorBound0
     /\ closeBound' = closeBound0
     /\ subs' = WithoutRequests(s)
     /\ callResult' = settled
     /\ UNCHANGED <<timerVars, callKind, crashed>>
  \/ /\ Of({"before", "after"}) # {}
     /\ Nullified
     /\ Crash              \* this._ws.removeAllListeners on null
  \/ /\ ~Nullified
     /\ \E l \in Of({"before"}), t \in Sockets :
          /\ IsNextSocket(t)
          /\ CreateSocket(l.p, t, closed, onOpenLeft, waitersLeft, onErrorLeft,
                          forwards \ {s}, fired)
     /\ NotReady
     /\ timer' = FALSE
     /\ subs' = WithoutRequests(s)
     /\ callResult' = settled
     /\ UNCHANGED <<announced, retry, strays, callKind, crashed>>
  \/ /\ ~Nullified
     /\ Of({"after"}) # {}
     /\ ws' = 0
     /\ NotReady
     /\ EmitDisconnected
     /\ ArmTimer
     /\ rs' = closed
     /\ onClose' = fired
     /\ onOpen' = onOpenLeft
     /\ openWaiters' = waitersLeft
     /\ onError' = onErrorLeft
     /\ forwards' = forwards \ {s}
     /\ errorBound' = 0
     /\ closeBound' = closeBound0
     /\ subs' = WithoutRequests(s)
     /\ callResult' = settled
     /\ UNCHANGED <<callKind, crashed>>

(* The close frame of the server: the socket is CLOSING until its end.     *)
CloseFrame(s) ==
  /\ ~crashed
  /\ QuietBut(s)
  /\ MayClose(s)
  /\ rs[s] = "OPEN"
  /\ rs' = [rs EXCEPT ![s] = "CLOSING"]
  /\ UNCHANGED <<selfVars, timerVars, boundVars, listenVars, subs, callVars, crashed>>

(* A close with no error event: of an open or closing socket, and in       *)
(* browsers also before the open event.                                    *)
SocketCloses(s) ==
  /\ ~crashed
  /\ Quiet
  /\ rs[s] \in Live
  /\ MayClose(s)
  /\ CloseEvent(s, onClose, onError, errorBound, closeBound, {})

(* An error event, with the close event that follows it: _onOpenError      *)
(* while it is a listener; with no listener at all the error is thrown.    *)
(* (When the error is forwarded, only the close changes the state.)        *)
SocketFails(s) ==
  /\ ~crashed
  /\ Quiet
  /\ rs[s] \in Live
  /\ \/ /\ onError[s] = 0
        /\ s \notin forwards
        /\ Crash
     \/ /\ onError[s] # 0
        /\ closeBound # Nowhere /\ ws = 0
        /\ Crash           \* _unbindOnUnxpectedClose on null
     \/ /\ onError[s] # 0
        /\ closeBound = Nowhere \/ ws # 0
        /\ CloseEvent(s,
             IF ws = 0 THEN onClose
             ELSE [onClose EXCEPT ![ws] = WithoutBound(@, ws)],
             [onError EXCEPT ![s] = 0], 0, Nowhere, {onError[s]})

-----------------------------------------------------------------------------
(* Reconnection                                                            *)

(* Mutant of RetryAfterFailure: a timer's attempt is the last one.         *)
GivesUp(p) ==
  /\ ~crashed
  /\ callKind[p] = "retry"
  /\ callResult[p] = "rejected"
  /\ callResult' = [callResult EXCEPT ![p] = "handled"]
  /\ UNCHANGED <<callKind, selfVars, timerVars, boundVars, rs, listenVars, subs,
                 crashed>>
(* connect().catch(_retryConnect) of a timer's attempt.                    *)
RetryAfterFailure(p) ==
  /\ ~crashed
  /\ callKind[p] = "retry"
  /\ callResult[p] = "rejected"
  /\ callResult' = [callResult EXCEPT ![p] = "handled"]
  /\ UNCHANGED callKind
  /\ ArmTimer
  /\ UNCHANGED <<selfVars, boundVars, rs, listenVars, subs, crashed>>

(* connect() clears the timer of this._retryTimer, not the one that fired  *)
(* when that is a stray.                                                   *)
TimerFires(p) ==
  /\ ~crashed
  /\ Quiet
  /\ IsNextCall(p)
  /\ \/ timer /\ UNCHANGED strays
     \/ strays > 0 /\ strays' = strays - 1
  /\ StartConnect(p, "retry")
  /\ UNCHANGED retry

-----------------------------------------------------------------------------

Next ==
  \/ \E p \in Calls : Connect(p) \/ Disconnect(p)
  \/ \E p \in Calls : RetryAfterFailure(p) \/ TimerFires(p)
  \/ \E s \in Sockets :
       SocketOpens(s) \/ CloseFrame(s) \/ SocketCloses(s) \/ SocketFails(s)
  \/ \E q \in subs :
       SubscribeAnswer(q, "answered") \/ SubscribeAnswer(q, "empty")
  \/ \E q \in subs : SubscribeRefused(q) \/ SubscribeTimeout(q)
  \/ \E q \in subs : Subscribed(q) \/ NotInitialized(q)

Spec == Init /\ [][Next]_vars

(* Reactions and timers run; a socket that was told to close closes, one   *)
(* that connects opens or fails, and a subscribe request is answered.      *)
Fairness ==
  /\ WF_vars(\E p \in Calls : RetryAfterFailure(p))
  /\ WF_vars(\E p \in Calls : TimerFires(p))
  /\ WF_vars(\E q \in subs : Subscribed(q) \/ NotInitialized(q))
  /\ \A s \in Sockets :
       /\ WF_vars(rs[s] \in {"CLOSING", "ABORTING"} /\ SocketCloses(s))
       /\ WF_vars(SocketOpens(s) \/ (rs[s] = "CONNECTING" /\ SocketFails(s)))
  /\ WF_vars(\E q \in subs : \E st \in {"answered", "empty"} :
               SubscribeAnswer(q, st))

(* A server that is there again and again accepts a connection, and one    *)
(* that is asked again and again has a validated ledger to report.         *)
ServerRecovers ==
  /\ SF_vars(\E s \in Sockets : SocketOpens(s))
  /\ SF_vars(\E q \in subs : SubscribeAnswer(q, "answered"))

FairSpec == Spec /\ Fairness /\ ServerRecovers

-----------------------------------------------------------------------------
(* Properties of a connection whose application is Careful and whose       *)
(* server does not close or refuse in a handshake.  An exception that no   *)
(* listener catches ends the process: nothing is promised afterwards.      *)

(* The socket's life as Link describes it to the rest of the program.      *)
phaseOf ==
  IF ws = 0 THEN "none"
  ELSE CASE rs[ws] = "CONNECTING" -> "connecting"
         [] rs[ws] = "OPEN" -> "open"
         [] rs[ws] \in {"CLOSING", "ABORTING"} -> "closing"
         [] rs[ws] = "CLOSED" -> "dead"

Promised == INSTANCE Link WITH phase <- phaseOf, ready <- isReady

(* What the rest of the program relies on: this._ws opens, becomes ready,  *)
(* closes and is replaced in the order Link allows; _isReady goes with the *)
(* socket, and no socket is given up but by its end (lines 113-130).       *)
LinkImplemented == Promised!LinkSpec

(* A socket has at most one listener that takes this._ws away from the     *)
(* connection when it closes: _onUnexpectedClose is unbound before         *)
(* _disconnect or _rebindOnUnxpectedClose adds its own (lines 204-218,     *)
(* 318-321).  Two of them would reconnect after a disconnect(), or act on  *)
(* a this._ws that the first one set to null.                              *)
OneCloseReaction ==
  \A s \in Sockets :
    Cardinality({l \in onClose[s] :
      l.kind \in {"before", "after", "destroy", "uninit"}}) <= 1

(* Only an error event of the handshake can throw: the process ends only   *)
(* while this._ws is open and not ready, where no error listener is on it  *)
(* (removed in line 167, the next one added in line 188), and with no      *)
(* connection announced.  While it connects, is ready or is closed by the  *)
(* application every error has a listener, and this._ws is never null      *)
(* where a listener uses it (lines 119, 206, 224).                         *)
OnlyHandshakeThrows ==
  [][crashed' /\ ~crashed =>
       /\ ws # 0 /\ rs[ws] \in {"OPEN", "CLOSING"}
       /\ ~isReady /\ announced # "connected"]_vars

(* No error event is without a listener: "we must return this error to     *)
(* connection's caller.  After successful opening, we will forward all     *)
(* errors to main api object" (comment, lines 285-287).                    *)
NoUncaughtException == ~crashed

(* A socket that can still open or carry messages is this._ws: otherwise   *)
(* it stays open with nobody to close it, and its messages still arrive.   *)
NoOrphanSocket == LiveSockets \subseteq {ws}

(* When a ready connection is lost, the connection hears of it and         *)
(* reconnects: the listener that does so is on the current socket.         *)
LossIsNoticed ==
  IsConnected => \E l \in onClose[ws] : l.kind = "after"

(* Something that will settle the promise of connect() or disconnect():    *)
(* a listener of a living socket or the handshake's request.               *)
Awaits(p) ==
  \/ \E s \in LiveSockets : p \in WaitedFor(s)
  \/ p \in Callers(subs)

(* No promise is left pending with nothing that could settle it.           *)
NoLostCall ==
  ~crashed => \A p \in Calls :
    callKind[p] # "free" /\ callResult[p] = "pending" => Awaits(p)

(* There is one reconnect loop: at most one of a running timer, an attempt *)
(* of one and a failed attempt whose reaction arms the next timer; and     *)
(* while a timer runs no socket lives, so a timer never finds a connection *)
(* made in the meantime (connect() clears it, line 270).                   *)
OneReconnectLoop ==
  /\ Cardinality({p \in Calls : callKind[p] = "retry"
                    /\ callResult[p] \in {"pending", "rejected"}})
       + (IF timer THEN 1 ELSE 0) + strays <= 1
  /\ timer => LiveSockets = {}

(* connect() resolves only with a connection that is ready for requests.   *)
ConnectMeansReady ==
  [][\A p \in Calls :
       callKind'[p] = "connect" /\ callResult'[p] = "resolved"
         /\ callResult[p] # "resolved" => IsConnected']_vars

(* The application hears disconnected between two connected events: each   *)
(* successful handshake finds that the last one was not connected.         *)
EventsAlternate ==
  [][\A q \in subs :
       q.st = "answered" /\ q \notin subs' /\ ws # 0
         => announced # "connected"]_vars

(* The promise of every connect() and disconnect() settles, unless an      *)
(* exception ends the process.                                             *)
CallsSettle ==
  \A p \in Calls :
    (callKind[p] # "free" /\ callResult[p] = "pending")
      ~> (callResult[p] # "pending" \/ crashed)

(* An outage ends: once a reconnect timer runs, the connection becomes     *)
(* ready, or the application intervenes with a connect() of its own or a   *)
(* disconnect(), which sets _retry to 0.  (An exception ends the process.) *)
OutageEnds ==
  timer ~> \/ IsConnected
           \/ retry = 0
           \/ \E p \in Calls :
                callKind[p] = "connect" /\ callResult[p] = "pending"
           \/ crashed

(* When the promise of disconnect() resolves, the connection is at rest:   *)
(* no timer will connect again on its own.                                 *)
DisconnectEnds ==
  [][\A p \in Calls :
       callKind[p] = "disconnect" /\ callResult[p] = "pending"
         /\ callResult'[p] = "resolved" => ~timer']_vars

-----------------------------------------------------------------------------
(* Properties for every application and every fault                        *)

(* The promise of disconnect() is never lost: while it is pending a socket *)
(* that has not closed yet holds the listener that resolves it.            *)
DisconnectNotLost ==
  \A p \in Calls :
    callKind[p] = "disconnect" /\ callResult[p] = "pending" =>
      \E s \in LiveSockets : \E l \in onClose[s] :
        l.p = p /\ l.kind \in {"destroy", "resolve"}

(* A subscribe request that was sent waits on a socket that has not closed *)
(* yet: the close event rejects every request of its socket, also those of *)
(* a socket that is no longer this._ws (line 439).                         *)
RequestsHaveSocket ==
  \A q \in subs : q.st \in {"sent", "timed"} => rs[q.on] \in {"OPEN", "CLOSING"}

(* _isReady is set only together with the event connected, and no          *)
(* disconnected event leaves it set.                                       *)
ReadyWasAnnounced == isReady => announced = "connected"

=============================================================================
