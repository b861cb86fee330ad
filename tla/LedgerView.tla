----------------------------- MODULE LedgerView -----------------------------
(***************************************************************************)
(* What a connection knows of the server's ledgers: _ledgerVersion and     *)
(* _availableLedgerVersions (src/src/common/connection.js), which the      *)
(* subscribe answer and the ledgerClosed stream tell it, and which         *)
(* getLedgerVersion and the guard of RestrictedConnection (src/src/api.js) *)
(* read.                                                                   *)
(*                                                                         *)
(* The answer is used in a promise reaction, a ledgerClosed message in the *)
(* callback that receives it.  The frames of one network read are          *)
(* delivered with no reaction in between: a ledgerClosed message that was  *)
(* read together with the answer is used before it, and the reaction then  *)
(* sets the version back.                                                  *)
(***************************************************************************)
EXTENDS Link, RangeSet

CONSTANTS
  MaxVersion,  \* bound: ledger versions of the server
  MaxWire      \* bound: messages under way

ASSUME LedgerAssumption == MaxVersion \in Nat \ {0} /\ MaxWire \in Nat

VARIABLES
  ledgerVersion,   \* this._ledgerVersion, 0 for null
  available,       \* this._availableLedgerVersions
  told,            \* the versions the messages have told, since a full list
  reaction,        \* the subscribe answer whose reaction is to run, or NoMsg
  overtaken,       \* the last version used ahead of a reaction (history), or 0
  waiting,         \* values of getLedgerVersion() calls that wait
  answers,         \* the values they have been resolved with
  asked,           \* the latest request that was sent
  validated,       \* the server's latest validated ledger, 0 at its start
  history,         \* the ledgers it has
  subscribed,      \* it sends its ledgers to this socket
  wire             \* its messages that are under way

viewVars == <<ledgerVersion, available, told>>
appVars == <<waiting, answers, asked>>
serverVars == <<validated, history>>
vars == <<link, viewVars, reaction, overtaken, appVars, serverVars, subscribed, wire>>

Versions == 1 .. MaxVersion
NoMsg == [type |-> "none", version |-> 0, listed |-> FALSE, ledgers |-> {}]
(* listed: the message has the list validated_ledgers.                     *)
Message == [type : {"answer", "ledgerClosed"}, version : 0 .. MaxVersion,
            listed : BOOLEAN, ledgers : SUBSET Versions]

(* A request by its ledger_index, with the ledger it reads: a request that *)
(* names none reads the open ledger, the one after the last validated.     *)
NotAsked == [index |-> "none", ledger |-> 0]
Asked == [index : {"none", "unnamed", "validated", "number"}, ledger : 0 .. MaxVersion + 1]

TypeOK ==
  /\ LinkType
  /\ ledgerVersion \in 0 .. MaxVersion
  /\ available \in Seq(Versions \X Versions)
  /\ told \in SUBSET Versions
  /\ reaction \in Message \cup {NoMsg}
  /\ waiting \in SUBSET (0 .. MaxVersion)
  /\ answers \in SUBSET (0 .. MaxVersion)
  /\ overtaken \in 0 .. MaxVersion
  /\ asked \in Asked
  /\ validated \in 0 .. MaxVersion
  /\ history \in SUBSET Versions
  /\ subscribed \in BOOLEAN
  /\ wire \in Seq(Message)

Init ==
  /\ LinkInit
  /\ ledgerVersion = 0
  /\ available = <<>>
  /\ told = {}
  /\ reaction = NoMsg
  /\ waiting = {}
  /\ answers = {}
  /\ overtaken = 0
  /\ asked = NotAsked
  /\ validated \in {0, 1}
  /\ history = 1 .. validated
  /\ subscribed = FALSE
  /\ wire = <<>>

-----------------------------------------------------------------------------
(* The server                                                              *)

Tells(type, v, H, listed) ==
  [type |-> type, version |-> v, listed |-> listed,
   ledgers |-> IF listed THEN H ELSE {}]

(* A ledger is validated; the server may have missed the ones before it.   *)
LedgerCloses(v) ==
  /\ v > validated
  /\ validated' = v
  /\ history' = history \cup {v}
  /\ IF subscribed
     THEN /\ Len(wire) < MaxWire
          /\ \E listed \in BOOLEAN :
               wire' = Append(wire, Tells("ledgerClosed", v, history', listed))
     ELSE UNCHANGED wire
  /\ UNCHANGED <<link, viewVars, reaction, overtaken, appVars, subscribed>>

(* The server deletes its oldest ledger.                                   *)
DeletesOldest ==
  /\ Cardinality(history) > 1
  /\ history' = history \ {Min(history)}
  /\ UNCHANGED <<link, viewVars, reaction, overtaken, appVars, validated, subscribed, wire>>

AnswersSubscribe ==
  /\ phase \in {"open", "closing"}
  /\ ~subscribed
  /\ subscribed' = TRUE
  /\ Len(wire) < MaxWire
  /\ \E listed \in BOOLEAN :
       wire' = Append(wire, Tells("answer", validated, history, listed))
  /\ UNCHANGED <<link, viewVars, reaction, overtaken, appVars, serverVars>>

-----------------------------------------------------------------------------
(* The connection                                                          *)

(* Mutant of UpdateLedgerVersions: only a message with a list counts.      *)
UpdateFromListOnly(m) ==
  IF m.listed
  THEN /\ ledgerVersion' = m.version
       /\ available' = parseAndAddRanges(<<>>, RangesOf(m.ledgers))
       /\ told' = m.ledgers
  ELSE UNCHANGED viewVars
(* _updateLedgerVersions                                                   *)
UpdateLedgerVersions(m) ==
  /\ ledgerVersion' = m.version
  /\ available' = IF m.listed THEN parseAndAddRanges(<<>>, RangesOf(m.ledgers))
                              ELSE addValue(available, m.version)
  /\ told' = IF m.listed THEN m.ledgers ELSE told \cup {m.version}

(* _onMessage of the next frame.                                           *)
Receive ==
  LET m == Head(wire) IN
  /\ wire # <<>>
  /\ wire' = Tail(wire)
  /\ IF m.type = "ledgerClosed"
     THEN /\ UpdateLedgerVersions(m)
          /\ overtaken' = IF reaction = NoMsg THEN overtaken ELSE m.version
          /\ UNCHANGED reaction
     ELSE reaction' = m /\ UNCHANGED <<viewVars, overtaken>>
  /\ UNCHANGED <<link, appVars, serverVars, subscribed>>

(* The reaction of _onOpen to the answer, and with it the event connected, *)
(* which resolves the calls that wait for it.                              *)
Connected ==
  /\ reaction.version # 0
  /\ UpdateLedgerVersions(reaction)
  /\ reaction' = NoMsg
  /\ BecomeReady
  /\ answers' = answers \cup waiting
  /\ waiting' = {}
  /\ UNCHANGED <<overtaken, asked, serverVars, subscribed, wire>>

(* The server has no validated ledger: the connection closes.              *)
NotInitialized ==
  /\ reaction # NoMsg /\ reaction.version = 0
  /\ reaction' = NoMsg
  /\ BeginClose \/ (phase = "closing" /\ UNCHANGED link)
  /\ UNCHANGED <<viewVars, overtaken, appVars, serverVars, subscribed, wire>>

SocketStarts ==
  /\ Create \/ Open \/ BeginClose
  /\ UNCHANGED <<viewVars, reaction, overtaken, appVars, serverVars, subscribed, wire>>

(* Nothing more comes from a closed socket; a reaction runs before.        *)
SocketEnds ==
  /\ Recreate \/ Gone \/ Fail
  /\ reaction = NoMsg
  /\ subscribed' = FALSE
  /\ wire' = <<>>
  /\ UNCHANGED <<viewVars, reaction, overtaken, appVars, serverVars>>

-----------------------------------------------------------------------------
(* The application                                                         *)

(* getLedgerVersion() reads the version now and resolves with it once the  *)
(* connection is ready.                                                    *)
GetLedgerVersion ==
  /\ phase # "none"
  /\ IF phase = "open" /\ ready
     THEN answers' = answers \cup {ledgerVersion} /\ UNCHANGED waiting
     ELSE waiting' = waiting \cup {ledgerVersion} /\ UNCHANGED answers
  /\ UNCHANGED <<link, viewVars, reaction, overtaken, asked, serverVars, subscribed, wire>>

(* Mutant of Permitted: off by one.                                        *)
PermittedNext(index, v) == index = "number" => v <= ledgerVersion + 1
(* The guard of RestrictedConnection.request: only a number is compared,   *)
(* null as 0.  (A ledger_index that is neither is refused.)                *)
Permitted(index, v) == index = "number" => v <= ledgerVersion

(* The ledger that the server reads for a request.                         *)
LedgerRead(index, v) ==
  CASE index = "unnamed" -> validated + 1
    [] index = "validated" -> validated
    [] index = "number" -> v

Request(index, v) ==
  /\ Permitted(index, v)
  /\ phase = "open"
  /\ asked' = [index |-> index, ledger |-> LedgerRead(index, v)]
  /\ UNCHANGED <<link, viewVars, reaction, overtaken, waiting, answers, serverVars,
                 subscribed, wire>>

Next ==
  \/ \E v \in Versions : LedgerCloses(v)
  \/ \E v \in Versions, index \in {"unnamed", "validated", "number"} :
       Request(index, v)
  \/ DeletesOldest \/ AnswersSubscribe \/ Receive \/ Connected \/ NotInitialized
  \/ SocketStarts \/ SocketEnds
  \/ GetLedgerVersion

Spec == Init /\ [][Next]_vars

-----------------------------------------------------------------------------
(* Properties                                                              *)

(* A ready connection that has used every message knows the server's       *)
(* latest validated ledger, also after an outage, unless that very ledger  *)
(* was told in the read that brought the answer to subscribe: the reaction *)
(* of _onOpen then sets an older version over it (connection.js 182), and  *)
(* the connection is behind until the next ledger closes, never longer.    *)
BehindByOneReadOnly ==
  ready /\ wire = <<>> /\ reaction = NoMsg => validated \in {ledgerVersion, overtaken}

(* getLedgerVersion() returns "the most recent validated ledger version    *)
(* number known to the connected server" (docs/index.md 830, 838): a ready *)
(* connection that has used every message has no older one.                *)
VersionIsCurrent ==
  ready /\ wire = <<>> /\ reaction = NoMsg => ledgerVersion = validated

(* The ranges answer as the set of the versions that were told would: the  *)
(* merging neither closes a gap nor splits what is whole (rangeset.js 53). *)
RangesMatch ==
  \A first \in Versions : \A last \in first .. MaxVersion :
    containsRange(available, first, last) <=> first .. last \subseteq told

(* A version that getLedgerVersion() has returned is validated, and from   *)
(* then on, over every outage, a request may name it (api.js 78-79): what  *)
(* the connection knows never falls back behind what it told, but for a    *)
(* ledger that was used ahead of the reaction.  And a request that names a *)
(* ledger by number is sent only for a validated one.                      *)
ReturnedIsUsable ==
  /\ \A v \in answers :
       v <= validated /\ (Permitted("number", v) \/ v <= overtaken)
  /\ asked.index = "number" => asked.ledger <= validated

(* "prevent access to non-validated ledger versions" (api.js 74): what a   *)
(* request reads is validated.                                             *)
OnlyValidated == asked.ledger <= validated

=============================================================================
