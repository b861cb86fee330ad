------------------------------- MODULE Escrows -------------------------------
(***************************************************************************)
(* An escrow from its specification to its end: the transactions that      *)
(* create, execute and cancel it, as prepared, the ledger that accepts     *)
(* them at its time or not, and the specifications that getTransaction     *)
(* makes of them (src/src/transaction/escrow-creation.js,                  *)
(* escrow-execution.js, escrow-cancellation.js and their counterparts in   *)
(* src/src/ledger/parse).                                                  *)
(*                                                                         *)
(* There is one owner and one escrow; tags and memos, which are copied,    *)
(* are left out.                                                           *)
(***************************************************************************)
EXTENDS Amounts

CONSTANTS
  EscrowAmounts,  \* bound: amounts in tenths of a drop
  EscrowTimes,    \* bound: times in quarters of a second
  LastClose       \* bound: the time of the last ledger

VARIABLES
  closeTime,  \* of the last validated ledger
  prepared,   \* what was asked for last, and the transaction prepared of it
  escrow,     \* in the ledger, or None
  validated   \* the last transaction in a ledger, the time, and what was
              \* asked for of the escrow that it is about

vars == <<closeTime, prepared, escrow, validated>>

None == [none |-> TRUE]
ValidationError == [error |-> "ValidationError"]
ReferenceError == [error |-> "ReferenceError"]

(* The one that exists, and another.                                       *)
Sequences == {1, 2}

(* Boolean() of a string that may be absent.                               *)
Truthy(text) == text \notin {undefined, ""}

-----------------------------------------------------------------------------
(* Preparing                                                               *)

(* Mutant of Contradicts: the times are compared as they are given.        *)
ContradictsAsGiven(spec) == spec.allowCancelAfter <= spec.allowExecuteAfter
Contradicts(spec) ==
  iso8601ToRippleTime(spec.allowCancelAfter)
    <= iso8601ToRippleTime(spec.allowExecuteAfter)

createEscrowCreationTransaction(spec) ==
  IF /\ spec.allowCancelAfter # undefined /\ spec.allowExecuteAfter # undefined
     /\ Contradicts(spec)
  THEN ValidationError
  ELSE [TransactionType |-> "EscrowCreate", Destination |-> spec.destination,
        Amount |-> xrpToDrops(spec.amount), Condition |-> spec.condition,
        CancelAfter |-> Optional(spec.allowCancelAfter, iso8601ToRippleTime),
        FinishAfter |-> Optional(spec.allowExecuteAfter, iso8601ToRippleTime)]

(* The error is not one of those the module has imported.                  *)
createEscrowExecutionTransaction(spec) ==
  IF Truthy(spec.condition) # Truthy(spec.fulfillment) THEN ReferenceError
  ELSE [TransactionType |-> "EscrowFinish", Owner |-> spec.owner,
        OfferSequence |-> spec.escrowSequence, Condition |-> spec.condition,
        Fulfillment |-> spec.fulfillment]

createEscrowCancellationTransaction(spec) ==
  [TransactionType |-> "EscrowCancel", Owner |-> spec.owner,
   OfferSequence |-> spec.escrowSequence]

-----------------------------------------------------------------------------
(* Parsing                                                                 *)

parseEscrowCreation(t) ==
  [amount |-> dropsToXrp(t.Amount), destination |-> t.Destination,
   condition |-> t.Condition, allowCancelAfter |-> parseTimestamp(t.CancelAfter),
   allowExecuteAfter |-> parseTimestamp(t.FinishAfter)]

parseEscrowExecution(t) ==
  [owner |-> t.Owner, escrowSequence |-> t.OfferSequence, condition |-> t.Condition,
   fulfillment |-> t.Fulfillment]

parseEscrowCancellation(t) == [owner |-> t.Owner, escrowSequence |-> t.OfferSequence]

-----------------------------------------------------------------------------
(* The ledger                                                              *)

AcceptsCreation(t) ==
  /\ escrow = None /\ validated = None
  /\ t.CancelAfter # undefined \/ t.FinishAfter # undefined
  /\ t.CancelAfter # undefined => closeTime < t.CancelAfter
  /\ t.FinishAfter # undefined => closeTime < t.FinishAfter
  /\ t.CancelAfter # undefined /\ t.FinishAfter # undefined => t.FinishAfter < t.CancelAfter
  /\ t.Condition # ""

Found(t) == escrow # None /\ t.OfferSequence = 1

(* The condition c is fulfilled by f.                                      *)
AcceptsExecution(t) ==
  /\ Found(t)
  /\ escrow.entry.FinishAfter # undefined => escrow.entry.FinishAfter < closeTime
  /\ t.Condition = escrow.entry.Condition
  /\ t.Fulfillment = IF t.Condition = undefined THEN undefined ELSE "f"

AcceptsCancellation(t) ==
  /\ Found(t) /\ escrow.entry.CancelAfter # undefined
  /\ escrow.entry.CancelAfter < closeTime

Accepts(t) ==
  CASE t.TransactionType = "EscrowCreate" -> AcceptsCreation(t)
    [] t.TransactionType = "EscrowFinish" -> AcceptsExecution(t)
    [] OTHER -> AcceptsCancellation(t)

IsTransaction == prepared # None /\ "TransactionType" \in DOMAIN prepared.tx

(* A transaction that was prepared is signed, submitted and validated.     *)
Validated ==
  /\ IsTransaction /\ Accepts(prepared.tx)
  /\ LET t == prepared.tx
         creates == t.TransactionType = "EscrowCreate"
         asked == IF creates THEN prepared.spec ELSE escrow.asked
     IN /\ escrow' = IF creates THEN [entry |-> t, asked |-> asked] ELSE None
        /\ validated' = [tx |-> t, time |-> closeTime, asked |-> asked]
  /\ prepared' = None
  /\ UNCHANGED closeTime

LedgerCloses ==
  /\ closeTime < LastClose
  /\ closeTime' = closeTime + 1
  /\ UNCHANGED <<prepared, escrow, validated>>

-----------------------------------------------------------------------------
(* The application                                                         *)

Creations ==
  [amount : EscrowAmounts, destination : {"payee"}, condition : {undefined, "", "c"},
   allowCancelAfter : {undefined} \cup EscrowTimes,
   allowExecuteAfter : {undefined} \cup EscrowTimes]

Executions ==
  [owner : {"payer"}, escrowSequence : Sequences, condition : {undefined, "", "c"},
   fulfillment : {undefined, "f"}]

Cancellations == [owner : {"payer"}, escrowSequence : Sequences]

Prepare(spec, t) ==
  /\ prepared' = [spec |-> spec, tx |-> t]
  /\ UNCHANGED <<closeTime, escrow, validated>>

PrepareEscrowCreation ==
  /\ validated = None
  /\ \E spec \in Creations : Prepare(spec, createEscrowCreationTransaction(spec))
PrepareEscrowExecution ==
  /\ escrow # None
  /\ \E spec \in Executions : Prepare(spec, createEscrowExecutionTransaction(spec))
PrepareEscrowCancellation ==
  /\ escrow # None
  /\ \E spec \in Cancellations : Prepare(spec, createEscrowCancellationTransaction(spec))

Init == closeTime = 1 /\ prepared = None /\ escrow = None /\ validated = None

Next ==
  \/ PrepareEscrowCreation \/ PrepareEscrowExecution \/ PrepareEscrowCancellation
  \/ Validated \/ LedgerCloses

Spec == Init /\ [][Next]_vars

-----------------------------------------------------------------------------
(* Properties                                                              *)

(* An escrow is not executed before the time that its specification gives, *)
(* nor without the fulfillment of its condition, and is not cancelled      *)
(* before the one that it gives for that (docs/index.md 529, 530), to the  *)
(* fraction of a second; and one that is prepared with both times is not   *)
(* refused for them, when both are to come (escrow-creation.js 49).        *)
EscrowAsAsked ==
  /\ validated # None =>
       LET asked == validated.asked
           time == rippleTimeToISO8601(validated.time)
       IN /\ validated.tx.TransactionType = "EscrowFinish" =>
               /\ asked.allowExecuteAfter # undefined => time > asked.allowExecuteAfter
               /\ asked.condition # undefined => validated.tx.Fulfillment = "f"
          /\ validated.tx.TransactionType = "EscrowCancel" =>
               asked.allowCancelAfter # undefined /\ time > asked.allowCancelAfter
  /\ IsTransaction /\ prepared.tx.TransactionType = "EscrowCreate" =>
       LET t == prepared.tx IN
         t.CancelAfter # undefined /\ t.FinishAfter # undefined =>
           t.FinishAfter < t.CancelAfter

=============================================================================
