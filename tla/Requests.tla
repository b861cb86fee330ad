------------------------------ MODULE Requests ------------------------------
(***************************************************************************)
(* Connection.request (src/src/common/connection.js): what settles the     *)
(* promise of a request, and what it leaves behind.                        *)
(*                                                                         *)
(* A request listens to the event named after its id and to the close      *)
(* event of the socket, sends its message, and once the send is done and   *)
(* the connection is ready it starts its timeout.  The life of the socket  *)
(* is that of Link; every action of Link that has an effect on requests    *)
(* is repeated here with that effect.                                      *)
(***************************************************************************)
EXTENDS Link, Integers, FiniteSets

CONSTANT MaxRequests   \* bound: requests made in a behaviour

ASSUME RequestsAssumption == MaxRequests \in Nat

VARIABLES
  made,     \* how many requests have been made; they are numbered from 1
  nextID,   \* this._nextRequestID
  id,       \* the id of each request
  outcome,  \* how its promise has settled
  result,   \* the request whose response it was settled with, or 0
  chain,    \* its _whenReady(_send) promise: waits for the event connected,
            \* is sending, or is done
  sent,     \* the requests whose message a socket has accepted
  atServer, \* those that the server of this._ws has not answered yet
  events,   \* the listeners of the events named after ids
  hears,    \* requests whose onDisconnect is a close listener of this._ws
  timers,   \* requests whose timeout is running
  sub       \* the subscribe request of the handshake of this._ws, or 0

settleVars == <<outcome, result>>
sendVars == <<made, nextID, id, chain, sent>>
vars == <<link, settleVars, sendVars, atServer, events, hears, timers, sub>>

Requests == 1 .. MaxRequests
Made == 1 .. made
Outcomes == {"pending", "answered", "refused", "timeout", "disconnected",
             "notConnected"}

TypeOK ==
  /\ LinkType
  /\ made \in 0 .. MaxRequests
  /\ nextID \in 1 .. MaxRequests + 1
  /\ id \in [Requests -> 0 .. MaxRequests]
  /\ outcome \in [Requests -> Outcomes]
  /\ result \in [Requests -> 0 .. MaxRequests]
  /\ chain \in [Requests -> {"none", "waiting", "sending", "done"}]
  /\ sent \in SUBSET Made
  /\ atServer \in SUBSET sent
  /\ events \in SUBSET [id : Requests, r : Made]
  /\ hears \in SUBSET Made
  /\ timers \in SUBSET Made
  /\ sub \in 0 .. made

Init ==
  /\ LinkInit
  /\ made = 0
  /\ nextID = 1
  /\ id = [r \in Requests |-> 0]
  /\ outcome = [r \in Requests |-> "pending"]
  /\ result = [r \in Requests |-> 0]
  /\ chain = [r \in Requests |-> "none"]
  /\ sent = {}
  /\ atServer = {}
  /\ events = {}
  /\ hears = {}
  /\ timers = {}
  /\ sub = 0

-----------------------------------------------------------------------------
(* Settling                                                                *)

(* A promise settles once: resolve and reject do nothing afterwards.       *)
Settle(qs, how) ==
  outcome' = [r \in Requests |->
                IF r \in qs /\ outcome[r] = "pending" THEN how ELSE outcome[r]]

(* Mutant of WithoutEvents: removeAllListeners() of every event.           *)
WithoutAnyEvent(names) == {}
(* Mutant of WithoutEvents: the listener of a settled request stays.       *)
WithEvents(names) == events
(* removeAllListeners of the events with these names.                      *)
WithoutEvents(names) == {l \in events : l.id \notin names}

Ids(qs) == {id[r] : r \in qs}

(* cleanup() for the requests qs: their timeout, the listeners of their    *)
(* events and of the close event of this._ws.                              *)
Cleanup(qs) ==
  /\ timers' = timers \ qs
  /\ events' = WithoutEvents(Ids(qs))
  /\ hears' = hears \ qs

(* Mutant of Disconnected: no listener of the close event.                 *)
Unheard ==
  /\ hears' = {}
  /\ UNCHANGED <<timers, events, outcome>>
(* The close event of this._ws: onDisconnect of every request it has.      *)
Disconnected ==
  /\ Settle(hears, "disconnected")
  /\ timers' = timers \ hears
  /\ events' = WithoutEvents(Ids(hears))
  /\ hears' = {}

-----------------------------------------------------------------------------
(* request()                                                               *)

(* Mutant of NextID: the counter is not incremented.                       *)
SameID == nextID
(* Mutant of NextID: the counter is incremented twice.                     *)
SkipID == nextID + 2
NextID == nextID + 1

(* request() up to its return, with this._ws in the given phase.  Without  *)
(* a socket it rejects and goes on until this._ws.once throws: the id is   *)
(* used and the listener of its event is left.                             *)
MakeRequest(r, at) ==
  /\ r = made + 1
  /\ r \in Requests
  /\ made' = r
  /\ nextID' = NextID
  /\ id' = [id EXCEPT ![r] = nextID]
  /\ events' = events \cup {[id |-> nextID, r |-> r]}
  /\ \/ /\ at = "none"
        /\ outcome' = [outcome EXCEPT ![r] = "notConnected"]
        /\ UNCHANGED <<chain, sent, atServer, hears>>
     \/ /\ at # "none"
        /\ hears' = hears \cup {r}
        /\ chain' = [chain EXCEPT ![r] =
                       IF at = "open" /\ ready THEN "sending" ELSE "waiting"]
        /\ IF at = "open"
           THEN sent' = sent \cup {r} /\ atServer' = atServer \cup {r}
           ELSE UNCHANGED <<sent, atServer>>
        /\ UNCHANGED outcome

Request(r) ==
  /\ MakeRequest(r, phase)
  /\ UNCHANGED <<link, result, timers, sub>>

(* Mutant of StartTimeout: a request sent in time has no timeout.          *)
NoTimeout(r) == UNCHANGED timers
StartTimeout(r) == timers' = timers \cup {r}

(* The reaction to _whenReady(_send): it starts the timeout, also that of  *)
(* a request that has settled in the meantime.                             *)
SendSucceeds(r) ==
  /\ chain[r] = "sending"
  /\ r \in sent
  /\ chain' = [chain EXCEPT ![r] = "done"]
  /\ StartTimeout(r)
  /\ UNCHANGED <<link, settleVars, made, nextID, id, sent, atServer, events,
                 hears, sub>>

(* The socket did not take the message, or it broke while writing it.      *)
SendFails(r) ==
  /\ chain[r] = "sending"
  /\ chain' = [chain EXCEPT ![r] = "done"]
  /\ Settle({r}, "disconnected")
  /\ Cleanup({r})
  /\ UNCHANGED <<link, result, made, nextID, id, sent, atServer, sub>>

TimeoutFires(r) ==
  /\ r \in timers
  /\ Settle({r}, "timeout")
  /\ Cleanup({r})
  /\ UNCHANGED <<link, result, sendVars, atServer, sub>>

(* A response: the listeners of the event named after its id settle their  *)
(* requests with it; without a listener it is ignored.                     *)
Answer(r, how) ==
  LET heard == {l.r : l \in {x \in events : x.id = id[r]}} IN
  /\ phase \in {"open", "closing"}
  /\ r \in atServer
  /\ atServer' = atServer \ {r}
  /\ Settle(heard, how)
  /\ result' = [q \in Requests |->
                  IF q \in heard /\ outcome[q] = "pending" THEN r ELSE result[q]]
  /\ Cleanup(heard)
  /\ UNCHANGED <<link, sendVars, sub>>

-----------------------------------------------------------------------------
(* The socket                                                              *)

(* The listeners of a dead socket are left on it.                          *)
SocketCreated ==
  /\ Create
  /\ hears' = {}
  /\ UNCHANGED <<settleVars, sendVars, atServer, events, timers, sub>>

SocketOpened(r) ==
  /\ Open
  /\ MakeRequest(r, "open")
  /\ sub' = r
  /\ UNCHANGED <<result, timers>>

(* The event connected releases every request that waits for it.           *)
Released ==
  chain' = [r \in Requests |->
              IF chain[r] = "waiting" THEN "sending" ELSE chain[r]]

Connected ==
  /\ ~ready
  /\ sub # 0 /\ outcome[sub] = "answered"
  /\ BecomeReady
  /\ Released
  /\ UNCHANGED <<settleVars, made, nextID, id, sent, atServer, events, hears,
                 timers, sub>>

SocketClosing ==
  /\ BeginClose
  /\ UNCHANGED <<settleVars, sendVars, atServer, events, hears, timers, sub>>

SocketClosed ==
  /\ Recreate \/ Gone \/ Fail
  /\ Disconnected
  /\ atServer' = {}
  /\ sub' = 0
  /\ UNCHANGED <<result, sendVars>>

Next ==
  \/ \E r \in Requests : Request(r)
  \/ \E r \in Made : SendSucceeds(r) \/ SendFails(r) \/ TimeoutFires(r)
  \/ \E r \in atServer : Answer(r, "answered") \/ Answer(r, "refused")
  \/ \E r \in Requests : SocketOpened(r)
  \/ SocketCreated \/ Connected \/ SocketClosing \/ SocketClosed

Spec == Init /\ [][Next]_vars

(* Timers and promise reactions run.  Nothing is asked of the server.      *)
FairSpec ==
  /\ Spec
  /\ \A r \in Requests :
       /\ WF_vars(SendSucceeds(r) \/ SendFails(r))
       /\ WF_vars(TimeoutFires(r))

(* A network and a server that do all that is asked of them: a socket that *)
(* connects opens or fails, one that closes has closed in the end, and     *)
(* every message is answered.  connect() is the application's to call.     *)
ResponsiveSpec ==
  /\ FairSpec
  /\ \A r \in Requests : WF_vars(r \in atServer /\ Answer(r, "answered"))
  /\ WF_vars((\E r \in Requests : SocketOpened(r)) \/ (Fail /\ SocketClosed))
  /\ WF_vars(phase = "closing" /\ Gone /\ SocketClosed)
  /\ WF_vars(Connected)

-----------------------------------------------------------------------------
(* Properties                                                              *)

Pending == {r \in Made : outcome[r] = "pending"}

(* A request is settled with the response to its own message, whatever     *)
(* order the server answers in and however late (line 397).                *)
OwnAnswer == \A r \in Made : result[r] \in {0, r}

(* A pending request whose message has been sent still listens to its      *)
(* response and to the close event of the socket it was sent on: no other  *)
(* request's cleanup, and no stale timeout of one, has silenced it.        *)
PendingIsHeard ==
  \A r \in Pending \cap sent :
    r \in hears /\ [id |-> id[r], r |-> r] \in events

(* A settled request leaves no listener behind: neither of its event nor,  *)
(* on the current socket, of the close event; but for a request made while *)
(* there was no socket.                                                    *)
SettledIsSilent ==
  \A r \in Made \ Pending :
    /\ r \notin hears
    /\ outcome[r] # "notConnected" => \A l \in events : l.r # r

(* No request that was sent outlives its socket: once this._ws is null, or *)
(* dead, or another socket, it has been rejected.                          *)
NoneOutlives ==
  \A r \in Pending \cap sent :
    phase \in {"open", "closing"} /\ (r \in atServer)

(* A request sent over a ready connection settles, though the server never *)
(* answers: its timeout sees to that.                                      *)
ReadyRequestsSettle ==
  \A r \in Requests :
    r \in Made /\ chain[r] = "sending" ~> r \notin Pending

(* Every request settles, of a responsive network and server or not: that  *)
(* is what its timeout is for.                                             *)
AllRequestsSettle == \A r \in Requests : r \in Made ~> r \notin Pending

=============================================================================
