-------------------------------- MODULE Link --------------------------------
(***************************************************************************)
(* What a Connection promises to the code that only uses it: the life of   *)
(* this._ws, seen through _state and _isReady (src/src/common/             *)
(* connection.js).  Requests and LedgerView are built on it; Connection    *)
(* implements it (LinkImplemented there) when its application is careful   *)
(* and its handshakes do not fail.                                         *)
(***************************************************************************)

VARIABLES
  phase,  \* of this._ws: none (null), connecting, open, closing, or dead:
          \* it has closed and is still this._ws, after a failed connect()
  ready   \* this._isReady

link == <<phase, ready>>

LinkType ==
  /\ phase \in {"none", "connecting", "open", "closing", "dead"}
  /\ ready \in BOOLEAN

LinkInit == phase = "none" /\ ready = FALSE

(* connect() makes a socket.                                               *)
Create ==
  /\ phase \in {"none", "dead"}
  /\ phase' = "connecting"
  /\ UNCHANGED ready

(* The socket closes before the connection was ready: _onUnexpectedClose   *)
(* makes the next one at once.                                             *)
Recreate ==
  /\ phase \in {"connecting", "open", "closing"}
  /\ ~ready
  /\ phase' = "connecting"
  /\ UNCHANGED ready

Open ==
  /\ phase = "connecting"
  /\ phase' = "open"
  /\ UNCHANGED ready

(* The handshake is done, perhaps on a socket that has begun to close.     *)
BecomeReady ==
  /\ phase \in {"open", "closing"}
  /\ ready' = TRUE
  /\ UNCHANGED phase

(* disconnect(), or a close frame of the server.                           *)
BeginClose ==
  /\ phase \in {"connecting", "open"}
  /\ phase' = "closing"
  /\ UNCHANGED ready

(* The close event, with a listener that gives the socket up.              *)
Gone ==
  /\ phase \in {"open", "closing"}
  /\ phase' = "none"
  /\ ready' = FALSE

(* An error before the open event: connect() rejects, this._ws stays.      *)
Fail ==
  /\ phase = "connecting"
  /\ phase' = "dead"
  /\ UNCHANGED ready

LinkNext ==
  Create \/ Recreate \/ Open \/ BecomeReady \/ BeginClose \/ Gone \/ Fail

LinkSpec == LinkInit /\ [][LinkNext]_link

=============================================================================
