-------------------------- MODULE TransactionLookup --------------------------
(***************************************************************************)
(* getTransaction (src/src/ledger/transaction.js) on a ready connection:   *)
(* the requests it sends, what it concludes from their answers, and which  *)
(* of its errors it rejects with.                                          *)
(*                                                                         *)
(* The server sends its answers and its ledgerClosed messages in the order *)
(* in which they come about.  A promise chain that needs no further answer *)
(* runs in one go after the message that started it; but the messages that *)
(* come in the same network read are all received before it runs.          *)
(***************************************************************************)
EXTENDS Integers, Sequences, FiniteSets

CONSTANTS
  MaxVersion,  \* bound: ledger versions of the server
  MaxWire      \* bound: messages under way

ASSUME LookupAssumption == MaxVersion \in Nat \ {0} /\ MaxWire \in Nat

Versions == 1 .. MaxVersion

VARIABLES
  included,   \* the ledger that has the transaction, or 0: as yet in none
  validated,  \* the latest validated ledger of the server
  history,    \* the validated ledgers the server has
  lost,       \* those it has deleted
  wire,       \* its messages under way
  version,    \* this._ledgerVersion
  available,  \* the ledgers of _availableLedgerVersions
  min,        \* options.minLedgerVersion, 0 for undefined
  max,        \* options.maxLedgerVersion, 0 for undefined
  stage,      \* idle, askedTx, gotTx, askedLedger, gotLedger, or settled
  tx,         \* the answer to the request tx
  failed,     \* the request of its ledger has timed out, or lost its socket
  outcome,    \* how the promise has settled
  late        \* history variable: the ledgers that the connection was first
              \* told of after the answer to tx and before the call settled

serverVars == <<included, validated, history, lost>>
viewVars == <<version, available>>
callVars == <<min, max, stage, tx, failed, outcome, late>>
vars == <<serverVars, wire, viewVars, callVars>>

(* An answer to tx: found, in which ledger (0: none that it names), whether*)
(* that was validated, and whether it comes with its date.                 *)
NoTx == [found |-> FALSE, ledger |-> 0, validated |-> FALSE, dated |-> FALSE]
Tx == [found : BOOLEAN, ledger : 0 .. MaxVersion, validated : BOOLEAN,
       dated : BOOLEAN]
Message ==
  [type : {"ledgerClosed"}, version : Versions, ledgers : SUBSET Versions]
    \cup [type : {"tx"}, tx : Tx]
    \cup [type : {"ledger"}, found : BOOLEAN]

Errors == {"NotFound", "PendingLedgerVersion", "MissingLedgerHistory"}

TypeOK ==
  /\ included \in 0 .. MaxVersion
  /\ validated \in Versions
  /\ history \in SUBSET Versions
  /\ lost \in SUBSET Versions
  /\ wire \in Seq(Message)
  /\ version \in Versions
  /\ available \in SUBSET Versions
  /\ min \in 0 .. MaxVersion + 1
  /\ max \in 0 .. MaxVersion + 1
  /\ stage \in {"idle", "askedTx", "gotTx", "askedLedger", "gotLedger", "settled"}
  /\ tx \in Tx
  /\ failed \in BOOLEAN
  /\ outcome \in {"none", "transaction"} \cup Errors
  /\ late \in SUBSET Versions

(* A ready connection; the server may lack ledgers of the past.            *)
Init ==
  /\ validated \in Versions
  /\ included \in 0 .. validated
  /\ history \in {H \in SUBSET (1 .. validated) : validated \in H}
  /\ lost = {}
  /\ wire = <<>>
  /\ version = validated
  /\ available = history
  /\ min = 0
  /\ max = 0
  /\ stage = "idle"
  /\ tx = NoTx
  /\ failed = FALSE
  /\ outcome = "none"
  /\ late = {}

-----------------------------------------------------------------------------
(* The server                                                              *)

Send(m) == Len(wire) < MaxWire /\ wire' = Append(wire, m)

(* The next ledger is validated, with the transaction or without it.       *)
LedgerCloses ==
  LET v == validated + 1 IN
  /\ v <= MaxVersion
  /\ validated' = v
  /\ history' = history \cup {v}
  /\ included' \in IF included = 0 THEN {0, v} ELSE {included}
  /\ Send([type |-> "ledgerClosed", version |-> v, ledgers |-> history'])
  /\ UNCHANGED <<lost, viewVars, callVars>>

(* The server deletes its oldest ledger, or acquires one that it missed.   *)
DeletesOldest ==
  \E v \in history :
    /\ v < validated /\ \A u \in history : v <= u
    /\ history' = history \ {v}
    /\ lost' = lost \cup {v}
    /\ UNCHANGED <<included, validated, wire, viewVars, callVars>>

Acquires(v) ==
  /\ v < validated /\ v \notin history \cup lost
  /\ history' = history \cup {v}
  /\ UNCHANGED <<included, validated, lost, wire, viewVars, callVars>>

(* A transaction in a validated ledger is found if the server has that     *)
(* ledger.  One that is in none yet may be found as well, as a candidate   *)
(* for the next ledger.                                                    *)
TxAnswers ==
  IF included \in history
  THEN {[found |-> TRUE, ledger |-> included, validated |-> TRUE, dated |-> d] :
          d \in BOOLEAN}
  ELSE {NoTx} \cup
       (IF included = 0
        THEN {[found |-> TRUE, ledger |-> l, validated |-> FALSE, dated |-> d] :
                l \in {0, validated + 1} \cap (0 .. MaxVersion), d \in BOOLEAN}
        ELSE {})

AnswersTx ==
  /\ stage = "askedTx"
  /\ \A i \in 1 .. Len(wire) : wire[i].type # "tx"
  /\ \E answer \in TxAnswers : Send([type |-> "tx", tx |-> answer])
  /\ UNCHANGED <<serverVars, viewVars, callVars>>

AnswersLedger ==
  /\ stage = "askedLedger"
  /\ \A i \in 1 .. Len(wire) : wire[i].type # "ledger"
  /\ Send([type |-> "ledger", found |-> tx.ledger \in history])
  /\ UNCHANGED <<serverVars, viewVars, callVars>>

-----------------------------------------------------------------------------
(* getTransaction                                                          *)

(* The schema of the options admits any versions, also future ones.        *)
GetTransaction ==
  /\ stage = "idle"
  /\ min' \in 0 .. MaxVersion
  /\ max' \in 0 .. MaxVersion + 1
  /\ stage' = "askedTx"
  /\ UNCHANGED <<serverVars, wire, viewVars, tx, failed, outcome, late>>

(* _updateLedgerVersions                                                   *)
UpdateLedgerVersions(m) ==
  /\ version' = m.version
  /\ available' = m.ledgers

(* _onMessage.                                                             *)
Receive ==
  LET m == Head(wire) IN
  /\ wire # <<>>
  /\ wire' = Tail(wire)
  /\ \/ /\ m.type = "ledgerClosed"
        /\ UpdateLedgerVersions(m)
        /\ late' = IF stage = "settled" THEN late ELSE late \cup (m.ledgers \ available)
        /\ UNCHANGED <<stage, tx>>
     \/ /\ m.type = "tx"
        /\ tx' = m.tx
        /\ stage' = "gotTx"
        /\ late' = {}
        /\ UNCHANGED viewVars
     \/ /\ m.type = "ledger"
        /\ stage' = IF m.found THEN "gotLedger" ELSE "gotTx"
        /\ tx' = IF m.found THEN tx ELSE NoTx
        /\ UNCHANGED <<viewVars, late>>
  /\ UNCHANGED <<serverVars, min, max, failed, outcome>>

(* The request of the ledger fails; attachTransactionDate takes that for a *)
(* ledger that is not found.  (A late answer has no listener: it is none.) *)
LedgerRequestFails ==
  /\ stage = "askedLedger"
  /\ \A i \in 1 .. Len(wire) : wire[i].type # "ledger"
  /\ stage' = "gotTx"
  /\ tx' = NoTx
  /\ failed' = TRUE
  /\ UNCHANGED <<serverVars, wire, viewVars, min, max, outcome, late>>

isTransactionInRange(t) ==
  /\ min # 0 => t.ledger >= min
  /\ max # 0 => t.ledger <= max

(* RangeSet.containsRange: one range of ledgers spans from first to last.  *)
containsRange(first, last) ==
  \E a, b \in available : a .. b \subseteq available /\ a <= first /\ last <= b

(* Mutant of hasCompleteLedgerRange: the history before max does not count.*)
hasLastLedger == (IF max = 0 THEN version ELSE max) \in available
(* The first ledger is 32570, the first that there is: 1 in this model.    *)
hasCompleteLedgerRange ==
  containsRange(IF min = 0 THEN 1 ELSE min, IF max = 0 THEN version ELSE max)

isPendingLedgerVersion == version < max

(* convertError of a NotFoundError.                                        *)
convertError ==
  IF hasCompleteLedgerRange THEN "NotFound"
  ELSE IF isPendingLedgerVersion THEN "PendingLedgerVersion"
  ELSE "MissingLedgerHistory"

Settle(how) ==
  /\ stage' = "settled"
  /\ outcome' = how

(* Mutant of formatResponse: a transaction that is only a candidate counts.*)
formatAny(t) == IF isTransactionInRange(t) THEN "transaction" ELSE convertError
formatResponse(t) ==
  IF t.validated /\ isTransactionInRange(t) THEN "transaction" ELSE convertError

(* The reaction to the answer of tx: attachTransactionDate asks for the    *)
(* ledger unless the transaction has its date, and RestrictedConnection    *)
(* rejects that for a ledger that is not validated yet.                    *)
TxArrived ==
  /\ stage = "gotTx"
  /\ \/ /\ ~tx.found
        /\ Settle(convertError)
     \/ /\ tx.found /\ tx.dated
        /\ Settle(formatResponse(tx))
     \/ /\ tx.found /\ ~tx.dated
        /\ IF tx.ledger = 0 \/ tx.ledger > version
           THEN Settle(convertError)
           ELSE stage' = "askedLedger" /\ UNCHANGED outcome
  /\ UNCHANGED <<serverVars, wire, viewVars, min, max, tx, failed, late>>

LedgerArrived ==
  /\ stage = "gotLedger"
  /\ Settle(formatResponse(tx))
  /\ UNCHANGED <<serverVars, wire, viewVars, min, max, tx, failed, late>>

Next ==
  \/ LedgerCloses \/ DeletesOldest \/ (\E v \in Versions : Acquires(v))
  \/ AnswersTx \/ AnswersLedger
  \/ GetTransaction \/ Receive \/ LedgerRequestFails
  \/ TxArrived \/ LedgerArrived

Spec == Init /\ [][Next]_vars

-----------------------------------------------------------------------------
(* Properties                                                              *)

First == IF min = 0 THEN 1 ELSE min

(* The transaction is in no ledger of the range, and never will be: the    *)
(* range is validated to its end.  Ledgers the server has deleted apart.   *)
NeverInRange == max <= validated /\ included \notin (First .. max) \ lost

(* Which NotFoundErrors are not final, when a maxLedgerVersion is given.   *)
(* The range has always been validated to its end; and it has the          *)
(* transaction only if the request of the transaction's ledger failed, or  *)
(* if the connection learnt of that ledger after the answer to tx: the     *)
(* check of the ledgers looks at what it knows then, not at what it knew   *)
(* when the server looked for the transaction (transaction.js 51-66).      *)
NotFoundIsFinal ==
  outcome = "NotFound" /\ max # 0 /\ First <= max =>
    /\ max <= validated
    /\ included \in (First .. max) \ lost => failed \/ included \in late

(* A NotFoundError tells that the transaction will never succeed, as the   *)
(* documentation has it of a maxLedgerVersion (docs/index.md 306), when no *)
(* request of the call fails.  It does not: see late.                      *)
NotFoundIsTimely ==
  outcome = "NotFound" /\ ~failed /\ max # 0 /\ First <= max => NeverInRange

(* The same when a request fails: the error then says "Transaction ledger  *)
(* not found" (transaction.js 39).                                         *)
NotFoundIsTrue ==
  outcome = "NotFound" /\ failed /\ max # 0 /\ First <= max => NeverInRange

(* The transaction that a call resolves with is in a validated ledger of   *)
(* the range (transaction.js 71-75).                                       *)
FoundIsValidated ==
  outcome = "transaction" =>
    /\ included \in 1 .. validated
    /\ included >= min /\ (max # 0 => included <= max)

=============================================================================
