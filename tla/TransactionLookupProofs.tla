----------------------- MODULE TransactionLookupProofs -----------------------
(***************************************************************************)
(* What getTransaction concludes is right, for every number of ledgers and *)
(* messages.                                                               *)
(*                                                                         *)
(* A transaction that an answer shows as validated is so for good (Known): *)
(* that gives FoundIsValidated.  NotFoundIsFinal needs more: what the      *)
(* connection knows is never ahead of the server (Behind), and a           *)
(* transaction that an answer does not show as validated is in none of the *)
(* ledgers that a message before that answer has told (Unseen).  So it is  *)
(* in the range that convertError finds complete only if a later message   *)
(* has told of its ledger (late).                                          *)
(***************************************************************************)
EXTENDS TransactionLookup, SequenceTheorems, TLAPS

ServerInv ==
  /\ included <= validated
  /\ \A l \in history \cup lost : l <= validated

(* There is one answer at most, that to the request that waits for it.     *)
OneAnswer ==
  \A i \in 1 .. Len(wire) :
    /\ wire[i].type = "tx" => stage = "askedTx"
    /\ wire[i].type = "ledger" => stage = "askedLedger"
    /\ \A j \in 1 .. Len(wire) :
         wire[i].type # "ledgerClosed" /\ wire[j].type # "ledgerClosed" => i = j

(* A transaction shown as validated is so, in the ledger that is named.    *)
Known(t) ==
  t.validated => t.found /\ t.ledger = included /\ included \in history \cup lost

AnswersKnown ==
  \A i \in 1 .. Len(wire) : wire[i].type = "tx" => Known(wire[i].tx)

StageKnown ==
  /\ stage \in {"gotTx", "askedLedger", "gotLedger"} => Known(tx)
  /\ outcome # "none" => stage = "settled"

FoundInv ==
  /\ TypeOK /\ ServerInv /\ OneAnswer /\ AnswersKnown /\ StageKnown
  /\ FoundIsValidated

(* Ledgers that the connection was told of belong to the server's past.    *)
Past(ledgers, v) ==
  ledgers \subseteq (history \cup lost) /\ \A l \in ledgers : l <= v

Behind ==
  /\ version <= validated
  /\ Past(available, version)
  /\ \A i \in 1 .. Len(wire) : wire[i].type = "ledgerClosed" =>
       wire[i].version <= validated /\ Past(wire[i].ledgers, wire[i].version)

(* One that is not shown as validated is in none of these ledgers, unless  *)
(* its ledger has been deleted.                                            *)
Unseen(t, ledgers) == ~t.validated => included \notin ledgers \ lost

AnswersUnseen ==
  \A i \in 1 .. Len(wire) :
    /\ wire[i].type = "tx" =>
         /\ Unseen(wire[i].tx, available)
         /\ \A j \in 1 .. Len(wire) : j < i /\ wire[j].type = "ledgerClosed" =>
              Unseen(wire[i].tx, wire[j].ledgers)
    /\ wire[i].type = "ledger" /\ ~wire[i].found /\ tx.validated => included \in lost

StageUnseen ==
  /\ failed => stage \in {"gotTx", "settled"} /\ ~tx.found
  /\ stage = "gotTx" /\ ~failed => Unseen(tx, available \ late)
  /\ stage \in {"askedLedger", "gotLedger"} => Unseen(tx, available \ late)

FinalInv ==
  FoundInv /\ Behind /\ AnswersUnseen /\ StageUnseen /\ NotFoundIsFinal

(* ------------------------------- Messages ------------------------------ *)

(* The fields of the three kinds of messages.                              *)
LEMMA MessageFacts ==
  ASSUME NEW m \in Message
  PROVE  /\ m.type \in {"ledgerClosed", "tx", "ledger"}
         /\ m.type = "ledgerClosed" =>
              m.version \in Versions /\ m.ledgers \in SUBSET Versions
         /\ m.type = "tx" => m.tx \in Tx
         /\ m.type = "ledger" => m.found \in BOOLEAN
BY DEF Message

(* What the server answers to tx: the fields of the answer.                *)
LEMMA AnswerFacts ==
  ASSUME NEW t \in TxAnswers
  PROVE  /\ t.found \in BOOLEAN /\ t.validated \in BOOLEAN /\ t.dated \in BOOLEAN
         /\ t = [found |-> t.found, ledger |-> t.ledger,
                 validated |-> t.validated, dated |-> t.dated]
         /\ t.validated => t.found /\ t.ledger = included /\ included \in history
         /\ ~t.validated =>
              /\ included \notin history
              /\ t.ledger # 0 => included = 0 /\ t.ledger = validated + 1
                                 /\ validated + 1 \in 0 .. MaxVersion
<1>1. CASE included \in history
  <2>1. PICK d \in BOOLEAN :
          t = [found |-> TRUE, ledger |-> included, validated |-> TRUE, dated |-> d]
    BY <1>1 DEF TxAnswers
  <2>2. QED
    BY <1>1, <2>1
<1>2. CASE included \notin history
  <2>1. t = NoTx \/ \E l \in {0, validated + 1} \cap (0 .. MaxVersion), d \in BOOLEAN :
           included = 0 /\
           t = [found |-> TRUE, ledger |-> l, validated |-> FALSE, dated |-> d]
    BY <1>2 DEF TxAnswers
  <2>2. CASE t = NoTx
    BY <2>2, <1>2 DEF NoTx
  <2>3. CASE \E l \in {0, validated + 1} \cap (0 .. MaxVersion), d \in BOOLEAN :
           included = 0 /\
           t = [found |-> TRUE, ledger |-> l, validated |-> FALSE, dated |-> d]
    BY <2>3, <1>2
  <2>4. QED
    BY <2>1, <2>2, <2>3
<1>3. QED
  BY <1>1, <1>2

(* The answers are well typed.                                             *)
LEMMA AnswersTyped ==
  ASSUME TypeOK
  PROVE  TxAnswers \subseteq Tx
<1>1. SUFFICES ASSUME NEW t \in TxAnswers PROVE t \in Tx
  OBVIOUS
<1>2. t.ledger \in 0 .. MaxVersion
  <2>1. included \in 0 .. MaxVersion /\ validated \in 1 .. MaxVersion
    BY DEF TypeOK, Versions
  <2>2. CASE t.validated
    BY <2>1, <2>2, AnswerFacts
  <2>3. CASE ~t.validated
    <3>1. t.ledger # 0 => t.ledger = validated + 1 /\ validated + 1 \in 0 .. MaxVersion
      BY <2>3, AnswerFacts, Zenon
    <3>2. QED
      BY <3>1, LookupAssumption
  <2>4. QED
    BY <2>2, <2>3
<1>3. QED
  BY <1>2, AnswerFacts DEF Tx

(* Every step keeps the types.                                             *)
LEMMA TypeStep == TypeOK /\ [Next]_vars => TypeOK'
<1> SUFFICES ASSUME TypeOK, [Next]_vars PROVE TypeOK'
  OBVIOUS
<1> USE LookupAssumption DEF TypeOK, serverVars, viewVars, callVars
<1>1. ASSUME LedgerCloses PROVE TypeOK'
  <2>1. validated' \in Versions /\ history' \in SUBSET Versions
        /\ included' \in 0 .. MaxVersion /\ lost' = lost
    <3>1. /\ validated' = validated + 1 /\ validated + 1 <= MaxVersion
          /\ history' = history \cup {validated'} /\ lost' = lost
          /\ included' \in {included, validated'}
      BY <1>1 DEF LedgerCloses
    <3>2. QED
      BY <3>1 DEF Versions
  <2>2. [type |-> "ledgerClosed", version |-> validated', ledgers |-> history']
          \in Message
    BY <2>1 DEF Message
  <2>3. wire' = Append(wire, [type |-> "ledgerClosed", version |-> validated',
                              ledgers |-> history'])
    BY <1>1 DEF LedgerCloses, Send
  <2>4. wire' \in Seq(Message)
    BY <2>2, <2>3, AppendProperties
  <2>5. QED
    BY <1>1, <2>1, <2>4 DEF LedgerCloses
<1>2. ASSUME DeletesOldest PROVE TypeOK'
  BY <1>2 DEF DeletesOldest
<1>3. ASSUME NEW v \in Versions, Acquires(v) PROVE TypeOK'
  BY <1>3 DEF Acquires
<1>4. ASSUME AnswersTx PROVE TypeOK'
  <2>1. PICK t \in TxAnswers : wire' = Append(wire, [type |-> "tx", tx |-> t])
    BY <1>4 DEF AnswersTx, Send
  <2>2. TxAnswers \subseteq Tx
    BY AnswersTyped
  <2>3. [type |-> "tx", tx |-> t] \in Message
    BY <2>2 DEF Message
  <2>4. wire' \in Seq(Message)
    BY <2>1, <2>3, AppendProperties
  <2>5. QED
    BY <1>4, <2>4 DEF AnswersTx
<1>5. ASSUME AnswersLedger PROVE TypeOK'
  <2>1. PICK f \in BOOLEAN : wire' = Append(wire, [type |-> "ledger", found |-> f])
    <3>1. (tx.ledger \in history) \in BOOLEAN
      OBVIOUS
    <3>2. QED
      BY <1>5, <3>1 DEF AnswersLedger, Send
  <2>2. [type |-> "ledger", found |-> f] \in Message
    BY DEF Message
  <2>3. wire' \in Seq(Message)
    BY <2>1, <2>2, AppendProperties
  <2>4. QED
    BY <1>5, <2>3 DEF AnswersLedger
<1>6. ASSUME GetTransaction PROVE TypeOK'
  BY <1>6 DEF GetTransaction
<1>7. ASSUME Receive PROVE TypeOK'
  <2>1. wire' \in Seq(Message) /\ Head(wire) \in Message
    BY <1>7, HeadTailProperties DEF Receive
  <2>2. NoTx \in Tx
    BY DEF NoTx, Tx
  <2>3. version' \in Versions /\ available' \in SUBSET Versions
    BY <1>7, <2>1, MessageFacts DEF Receive, UpdateLedgerVersions
  <2>4. tx' \in Tx
    BY <1>7, <2>1, <2>2, MessageFacts DEF Receive
  <2>5. stage' \in {"idle", "askedTx", "gotTx", "askedLedger", "gotLedger", "settled"}
    BY <1>7 DEF Receive
  <2>6. late' \in SUBSET Versions
    BY <1>7, <2>1, MessageFacts DEF Receive
  <2>7. QED
    BY <1>7, <2>1, <2>3, <2>4, <2>5, <2>6 DEF Receive
<1>7a. ASSUME LedgerRequestFails PROVE TypeOK'
  <2>1. NoTx \in Tx
    BY DEF NoTx, Tx
  <2>2. QED
    BY <1>7a, <2>1 DEF LedgerRequestFails
<1>8. ASSUME TxArrived PROVE TypeOK'
  BY <1>8 DEF TxArrived, Settle, formatResponse, convertError, Errors
<1>9. ASSUME LedgerArrived PROVE TypeOK'
  BY <1>9 DEF LedgerArrived, Settle, formatResponse, convertError, Errors
<1>10. CASE UNCHANGED vars
  BY <1>10 DEF vars
<1>11. QED
  BY <1>1, <1>2, <1>3, <1>4, <1>5, <1>6, <1>7, <1>8, <1>9, <1>10, <1>7a DEF Next

(* ------------------- The transaction that is resolved ------------------ *)

(* What a step of the server, and of the call, leaves as it was.           *)
Steady ==
  /\ included # 0 => included' = included
  /\ (history \cup lost) \subseteq (history' \cup lost')
  /\ validated <= validated' /\ validated' \in Versions

(* A message that the server may send now.                                 *)
Sent(m) ==
  /\ m \in Message
  /\ wire' = Append(wire, m)
  /\ m.type # "ledgerClosed" =>
       \A i \in 1 .. Len(wire) : wire[i].type = "ledgerClosed"
  /\ m.type = "tx" => stage = "askedTx" /\ Known(m.tx)
  /\ m.type = "ledger" => stage = "askedLedger"

(* A step of the server keeps what is known of its answers.                *)
LEMMA ServerStep ==
  ASSUME FoundInv, Steady, UNCHANGED callVars,
         wire' = wire \/ \E m \in Message : Sent(m)
  PROVE  OneAnswer' /\ AnswersKnown' /\ StageKnown' /\ FoundIsValidated'
<1>1. min' = min /\ max' = max /\ stage' = stage /\ tx' = tx /\ outcome' = outcome
  BY DEF callVars
<1>2. \A t : Known(t) =>
        (t.validated => t.found /\ t.ledger = included'
                        /\ included' \in history' \cup lost')
  BY DEF FoundInv, TypeOK, Versions, Known, Steady
<1>3. StageKnown'
  BY <1>1, <1>2 DEF FoundInv, StageKnown, Known
<1>4. FoundIsValidated'
  <2>1. included \in 0 .. MaxVersion /\ validated \in Versions
    BY DEF FoundInv, TypeOK
  <2>2. ASSUME outcome = "transaction"
        PROVE  /\ included \in 1 .. validated
               /\ included >= min /\ (max # 0 => included <= max)
    BY <2>2 DEF FoundInv, FoundIsValidated
  <2>3. ASSUME outcome' = "transaction"
        PROVE  /\ included' \in 1 .. validated'
               /\ included' >= min' /\ (max' # 0 => included' <= max')
    <3>1. included' = included /\ included \in 1 .. validated
      BY <1>1, <2>1, <2>2, <2>3 DEF Steady
    <3>2. included \in 1 .. validated'
      BY <3>1, <2>1 DEF Steady, Versions
    <3>3. QED
      BY <1>1, <2>1, <2>2, <2>3, <3>1, <3>2
  <2>4. QED
    BY <2>3 DEF FoundIsValidated
<1>5. OneAnswer' /\ AnswersKnown'
  <2>1. CASE wire' = wire
    BY <2>1, <1>1, <1>2 DEF FoundInv, OneAnswer, AnswersKnown, Known
  <2>2. ASSUME NEW m \in Message, Sent(m) PROVE OneAnswer' /\ AnswersKnown'
    <3>1. /\ wire \in Seq(Message) /\ Len(wire) \in Nat
          /\ Len(wire') = Len(wire) + 1 /\ wire'[Len(wire) + 1] = m
          /\ \A i \in 1 .. Len(wire) : wire'[i] = wire[i]
      <4>1. wire \in Seq(Message)
        BY DEF FoundInv, TypeOK
      <4>2. QED
        BY <4>1, <2>2, AppendProperties DEF Sent
    <3>2. AnswersKnown'
      <4>1. ASSUME NEW i \in 1 .. Len(wire'), wire'[i].type = "tx"
            PROVE  Known(wire'[i].tx)
        <5>1. CASE i = Len(wire) + 1
          BY <5>1, <4>1, <3>1, <2>2 DEF Sent
        <5>2. CASE i \in 1 .. Len(wire)
          BY <5>2, <4>1, <3>1 DEF FoundInv, AnswersKnown
        <5>3. QED
          BY <5>1, <5>2, <3>1
      <4>2. QED
        BY <4>1, <1>2 DEF AnswersKnown, Known
    <3>3. OneAnswer'
      <4>1. ASSUME NEW i \in 1 .. Len(wire')
            PROVE  /\ wire'[i].type = "tx" => stage' = "askedTx"
                   /\ wire'[i].type = "ledger" => stage' = "askedLedger"
        <5>1. CASE i = Len(wire) + 1
          BY <5>1, <1>1, <3>1, <2>2 DEF Sent
        <5>2. CASE i \in 1 .. Len(wire)
          BY <5>2, <1>1, <3>1 DEF FoundInv, OneAnswer
        <5>3. QED
          BY <5>1, <5>2, <3>1
      <4>2. ASSUME NEW i \in 1 .. Len(wire'), NEW j \in 1 .. Len(wire'),
                   wire'[i].type # "ledgerClosed", wire'[j].type # "ledgerClosed"
            PROVE  i = j
        <5>1. CASE i \in 1 .. Len(wire) /\ j \in 1 .. Len(wire)
          BY <5>1, <4>2, <3>1 DEF FoundInv, OneAnswer
        <5>2. CASE i = Len(wire) + 1 /\ j = Len(wire) + 1
          BY <5>2
        <5>3. CASE i = Len(wire) + 1 /\ j \in 1 .. Len(wire)
          BY <5>3, <4>2, <3>1, <2>2 DEF Sent
        <5>4. CASE i \in 1 .. Len(wire) /\ j = Len(wire) + 1
          BY <5>4, <4>2, <3>1, <2>2 DEF Sent
        <5>5. QED
          BY <5>1, <5>2, <5>3, <5>4, <3>1
      <4>3. QED
        BY <4>1, <4>2 DEF OneAnswer
    <3>4. QED
      BY <3>2, <3>3
  <2>3. QED
    BY <2>1, <2>2
<1>6. QED
  BY <1>3, <1>4, <1>5

(* An answer that settles the call: with the transaction it has, or not.   *)
LEMMA SettleStep ==
  ASSUME FoundInv, Known(tx), NEW how, Settle(how),
         how = "transaction" => tx.validated /\ isTransactionInRange(tx),
         \A i \in 1 .. Len(wire) : wire[i].type = "ledgerClosed",
         UNCHANGED <<serverVars, wire, viewVars, min, max, tx, failed, late>>
  PROVE  OneAnswer' /\ AnswersKnown' /\ StageKnown' /\ FoundIsValidated'
<1>1. /\ stage' = "settled" /\ outcome' = how /\ wire' = wire /\ tx' = tx
      /\ included' = included /\ validated' = validated /\ history' = history
      /\ lost' = lost /\ min' = min /\ max' = max
  BY DEF Settle, serverVars
<1>2. OneAnswer' /\ AnswersKnown' /\ StageKnown'
  BY <1>1 DEF OneAnswer, AnswersKnown, StageKnown
<1>3. FoundIsValidated'
  <2>1. ASSUME how = "transaction"
        PROVE  /\ included \in 1 .. validated
               /\ included >= min /\ (max # 0 => included <= max)
    <3>1. /\ tx.ledger = included /\ included \in history \cup lost
          /\ min # 0 => tx.ledger >= min
          /\ max # 0 => tx.ledger <= max
      BY <2>1 DEF Known, isTransactionInRange
    <3>2. included \in 1 .. validated /\ min \in Nat
      BY <3>1 DEF FoundInv, ServerInv, TypeOK, Versions
    <3>3. QED
      BY <3>1, <3>2
  <2>2. QED
    BY <1>1, <2>1 DEF FoundIsValidated
<1>4. QED
  BY <1>2, <1>3

(* The initial states.                                                     *)
LEMMA FoundInit == Init => FoundInv
<1> SUFFICES ASSUME Init PROVE FoundInv
  OBVIOUS
<1>1. /\ validated \in Versions /\ included \in 0 .. validated
      /\ history \in SUBSET (1 .. validated) /\ lost = {}
  BY DEF Init
<1>2. /\ wire = <<>> /\ version = validated /\ available = history
      /\ min = 0 /\ max = 0 /\ stage = "idle" /\ tx = NoTx /\ outcome = "none"
      /\ failed = FALSE /\ late = {}
  BY DEF Init
<1>3. wire \in Seq(Message) /\ Len(wire) = 0
  BY <1>2
<1>4. TypeOK
  <2>1. tx \in Tx
    BY <1>2, LookupAssumption DEF NoTx, Tx
  <2>2. included \in 0 .. MaxVersion /\ history \in SUBSET Versions
    BY <1>1, LookupAssumption DEF Versions
  <2>3. min \in 0 .. MaxVersion + 1 /\ max \in 0 .. MaxVersion + 1
    BY <1>2, LookupAssumption
  <2>4. QED
    BY <1>1, <1>2, <1>3, <2>1, <2>2, <2>3 DEF TypeOK
<1>5. ServerInv
  BY <1>1, LookupAssumption DEF ServerInv, Versions
<1>6. OneAnswer /\ AnswersKnown
  BY <1>3 DEF OneAnswer, AnswersKnown
<1>7. StageKnown /\ FoundIsValidated
  BY <1>2 DEF StageKnown, FoundIsValidated
<1>8. QED
  BY <1>4, <1>5, <1>6, <1>7 DEF FoundInv

(* Every step keeps FoundInv.                                              *)
LEMMA FoundStep == FoundInv /\ [Next]_vars => FoundInv'
<1> SUFFICES ASSUME FoundInv, [Next]_vars
             PROVE  ServerInv' /\ OneAnswer' /\ AnswersKnown' /\ StageKnown'
                    /\ FoundIsValidated'
  BY TypeStep DEF FoundInv
<1> DEFINE Goal == OneAnswer' /\ AnswersKnown' /\ StageKnown' /\ FoundIsValidated'
<1>1. TypeOK /\ ServerInv /\ TypeOK'
  BY TypeStep DEF FoundInv
<1>2. ASSUME LedgerCloses PROVE ServerInv' /\ Goal
  <2>1. /\ validated' = validated + 1 /\ history' = history \cup {validated'}
        /\ lost' = lost /\ included' \in {included, validated'}
        /\ included # 0 => included' = included
        /\ UNCHANGED callVars
        /\ wire' = Append(wire, [type |-> "ledgerClosed", version |-> validated',
                                 ledgers |-> history'])
    BY <1>2 DEF LedgerCloses, Send
  <2>2. validated \in Int /\ validated' \in Versions /\ history' \in SUBSET Versions
        /\ history \in SUBSET Versions /\ lost \in SUBSET Versions
        /\ included \in 0 .. MaxVersion
    BY <1>1 DEF TypeOK, Versions
  <2>3. ServerInv'
    BY <1>1, <2>1, <2>2 DEF ServerInv, Versions
  <2>4. Steady
    BY <2>1, <2>2 DEF Steady
  <2>5. \E m \in Message : Sent(m)
    <3>1. [type |-> "ledgerClosed", version |-> validated', ledgers |-> history']
            \in Message
      BY <2>2 DEF Message
    <3>2. QED
      BY <3>1, <2>1 DEF Sent
  <2>6. QED
    BY <2>1, <2>3, <2>4, <2>5, ServerStep
<1>3. ASSUME DeletesOldest PROVE ServerInv' /\ Goal
  <2>1. /\ (history' \cup lost') = (history \cup lost)
        /\ UNCHANGED <<included, validated, wire, viewVars, callVars>>
    BY <1>3 DEF DeletesOldest
  <2>2. ServerInv'
    BY <1>1, <2>1 DEF ServerInv
  <2>3. Steady
    BY <1>1, <2>1 DEF Steady, TypeOK, Versions
  <2>4. QED
    BY <2>1, <2>2, <2>3, ServerStep
<1>4. ASSUME NEW v \in Versions, Acquires(v) PROVE ServerInv' /\ Goal
  <2>1. /\ history' = history \cup {v} /\ lost' = lost /\ v < validated
        /\ UNCHANGED <<included, validated, wire, viewVars, callVars>>
    BY <1>4 DEF Acquires
  <2>2. ServerInv'
    BY <1>1, <2>1 DEF ServerInv, TypeOK, Versions
  <2>3. Steady
    BY <1>1, <2>1 DEF Steady, TypeOK, Versions
  <2>4. QED
    BY <2>1, <2>2, <2>3, ServerStep
<1>5. ASSUME AnswersTx PROVE ServerInv' /\ Goal
  <2>1. PICK t \in TxAnswers : wire' = Append(wire, [type |-> "tx", tx |-> t])
    BY <1>5 DEF AnswersTx, Send
  <2>2. UNCHANGED <<serverVars, viewVars, callVars>> /\ stage = "askedTx"
        /\ \A i \in 1 .. Len(wire) : wire[i].type # "tx"
    BY <1>5 DEF AnswersTx
  <2>3. ServerInv' /\ Steady
    BY <1>1, <2>2 DEF ServerInv, Steady, serverVars, TypeOK, Versions
  <2>4. \E m \in Message : Sent(m)
    <3>1. [type |-> "tx", tx |-> t] \in Message /\ Known(t)
      BY <1>1, AnswersTyped, AnswerFacts DEF Message, Known
    <3>2. \A i \in 1 .. Len(wire) : wire[i].type = "ledgerClosed"
      <4>1. \A i \in 1 .. Len(wire) : wire[i] \in Message
        BY <1>1 DEF TypeOK
      <4>2. \A i \in 1 .. Len(wire) : wire[i].type # "ledger"
        BY <2>2 DEF FoundInv, OneAnswer
      <4>3. QED
        BY <4>1, <4>2, <2>2, MessageFacts
    <3>3. Sent([type |-> "tx", tx |-> t])
      BY <2>1, <2>2, <3>1, <3>2 DEF Sent
    <3>4. QED
      BY <3>1, <3>3
  <2>5. QED
    BY <2>2, <2>3, <2>4, ServerStep
<1>6. ASSUME AnswersLedger PROVE ServerInv' /\ Goal
  <2>1. PICK f \in BOOLEAN : wire' = Append(wire, [type |-> "ledger", found |-> f])
    <3>1. (tx.ledger \in history) \in BOOLEAN
      OBVIOUS
    <3>2. QED
      BY <1>6, <3>1 DEF AnswersLedger, Send
  <2>2. UNCHANGED <<serverVars, viewVars, callVars>> /\ stage = "askedLedger"
        /\ \A i \in 1 .. Len(wire) : wire[i].type # "ledger"
    BY <1>6 DEF AnswersLedger
  <2>3. ServerInv' /\ Steady
    BY <1>1, <2>2 DEF ServerInv, Steady, serverVars, TypeOK, Versions
  <2>4. \E m \in Message : Sent(m)
    <3>1. [type |-> "ledger", found |-> f] \in Message
      BY DEF Message
    <3>2. \A i \in 1 .. Len(wire) : wire[i].type = "ledgerClosed"
      <4>1. \A i \in 1 .. Len(wire) : wire[i] \in Message
        BY <1>1 DEF TypeOK
      <4>2. \A i \in 1 .. Len(wire) : wire[i].type # "tx"
        BY <2>2 DEF FoundInv, OneAnswer
      <4>3. QED
        BY <4>1, <4>2, <2>2, MessageFacts
    <3>3. Sent([type |-> "ledger", found |-> f])
      BY <2>1, <2>2, <3>1, <3>2 DEF Sent
    <3>4. QED
      BY <3>1, <3>3
  <2>5. QED
    BY <2>2, <2>3, <2>4, ServerStep
<1>7. ASSUME GetTransaction PROVE ServerInv' /\ Goal
  <2>1. /\ stage = "idle" /\ stage' = "askedTx"
        /\ UNCHANGED <<serverVars, wire, viewVars, tx, failed, outcome, late>>
    BY <1>7 DEF GetTransaction
  <2>2. ServerInv' /\ AnswersKnown'
    BY <2>1 DEF FoundInv, ServerInv, AnswersKnown, Known, serverVars
  <2>3. outcome = "none"
    BY <2>1 DEF FoundInv, StageKnown
  <2>4. OneAnswer'
    BY <2>1 DEF FoundInv, OneAnswer
  <2>5. StageKnown' /\ FoundIsValidated'
    BY <2>1, <2>3 DEF StageKnown, FoundIsValidated
  <2>6. QED
    BY <2>2, <2>4, <2>5
<1>8. ASSUME Receive PROVE ServerInv' /\ Goal
  <2> DEFINE m == Head(wire)
  <2>1. /\ wire # <<>> /\ wire' = Tail(wire)
        /\ included' = included /\ validated' = validated
        /\ history' = history /\ lost' = lost
        /\ min' = min /\ max' = max /\ outcome' = outcome
    BY <1>8 DEF Receive, serverVars
  <2>2. /\ m = wire[1] /\ m \in Message /\ Len(wire) \in Nat /\ Len(wire) >= 1
        /\ Len(wire') = Len(wire) - 1
        /\ \A i \in 1 .. Len(wire') : wire'[i] = wire[i + 1]
    BY <1>1, <2>1, HeadTailProperties DEF TypeOK
  <2>3. ServerInv' /\ FoundIsValidated'
    BY <2>1 DEF FoundInv, ServerInv, FoundIsValidated
  <2>4. AnswersKnown'
    <3>1. ASSUME NEW i \in 1 .. Len(wire'), wire'[i].type = "tx"
          PROVE  Known(wire'[i].tx)
      BY <3>1, <2>2 DEF FoundInv, AnswersKnown
    <3>2. QED
      BY <2>1, <3>1 DEF AnswersKnown, Known
  <2>5. m.type # "ledgerClosed" =>
          \A i \in 1 .. Len(wire') : wire'[i].type = "ledgerClosed"
    <3>1. ASSUME m.type # "ledgerClosed", NEW i \in 1 .. Len(wire'),
                 wire'[i].type # "ledgerClosed"
          PROVE  FALSE
      <4>1. i + 1 \in 1 .. Len(wire) /\ 1 \in 1 .. Len(wire)
            /\ wire[i + 1].type # "ledgerClosed" /\ wire[1].type # "ledgerClosed"
        BY <2>2, <3>1
      <4>2. 1 = i + 1
        BY <4>1 DEF FoundInv, OneAnswer
      <4>3. QED
        BY <4>2
    <3>2. QED
      BY <3>1
  <2>6. \A i, j \in 1 .. Len(wire') :
          wire'[i].type # "ledgerClosed" /\ wire'[j].type # "ledgerClosed" => i = j
    <3>1. ASSUME NEW i \in 1 .. Len(wire'), NEW j \in 1 .. Len(wire'),
                 wire'[i].type # "ledgerClosed", wire'[j].type # "ledgerClosed"
          PROVE  i = j
      <4>1. i + 1 \in 1 .. Len(wire) /\ j + 1 \in 1 .. Len(wire)
            /\ wire[i + 1].type # "ledgerClosed" /\ wire[j + 1].type # "ledgerClosed"
        BY <2>2, <3>1
      <4>2. i + 1 = j + 1
        BY <4>1 DEF FoundInv, OneAnswer
      <4>3. QED
        BY <4>2
    <3>2. QED
      BY <3>1
  <2>7. CASE m.type = "ledgerClosed"
    <3>1. stage' = stage /\ tx' = tx
      BY <1>8, <2>7 DEF Receive
    <3>2. StageKnown'
      BY <2>1, <3>1 DEF FoundInv, StageKnown, Known
    <3>3. \A i \in 1 .. Len(wire') : /\ wire'[i].type = "tx" => stage' = "askedTx"
                                     /\ wire'[i].type = "ledger" => stage' = "askedLedger"
      <4>1. ASSUME NEW i \in 1 .. Len(wire')
            PROVE  wire'[i] = wire[i + 1] /\ i + 1 \in 1 .. Len(wire)
        BY <2>2
      <4>2. QED
        BY <3>1, <4>1 DEF FoundInv, OneAnswer
    <3>4. QED
      BY <2>3, <2>4, <2>6, <3>2, <3>3 DEF OneAnswer
  <2>8. CASE m.type = "tx"
    <3>1. stage' = "gotTx" /\ tx' = m.tx /\ stage = "askedTx" /\ Known(m.tx)
      BY <1>8, <2>8, <2>2 DEF Receive, FoundInv, OneAnswer, AnswersKnown
    <3>2. outcome = "none"
      BY <3>1 DEF FoundInv, StageKnown
    <3>3. StageKnown'
      BY <2>1, <3>1, <3>2 DEF StageKnown, Known
    <3>4. OneAnswer'
      BY <2>5, <2>8 DEF OneAnswer
    <3>5. QED
      BY <2>3, <2>4, <3>3, <3>4
  <2>9. CASE m.type = "ledger"
    <3>1. /\ stage' \in {"gotTx", "gotLedger"} /\ tx' \in {tx, NoTx}
          /\ stage = "askedLedger"
      BY <1>8, <2>9, <2>2 DEF Receive, FoundInv, OneAnswer
    <3>2. outcome = "none" /\ Known(tx) /\ Known(NoTx)
      BY <3>1 DEF FoundInv, StageKnown, Known, NoTx
    <3>3. StageKnown'
      BY <2>1, <3>1, <3>2 DEF StageKnown, Known
    <3>4. OneAnswer'
      BY <2>5, <2>9 DEF OneAnswer
    <3>5. QED
      BY <2>3, <2>4, <3>3, <3>4
  <2>10. QED
    BY <2>2, <2>7, <2>8, <2>9, MessageFacts
<1>9. ASSUME stage \in {"gotTx", "gotLedger"}
      PROVE  \A i \in 1 .. Len(wire) : wire[i].type = "ledgerClosed"
  <2>1. \A i \in 1 .. Len(wire) : wire[i] \in Message
    BY <1>1 DEF TypeOK
  <2>2. QED
    BY <1>9, <2>1, MessageFacts DEF FoundInv, OneAnswer
<1>10. convertError # "transaction"
  BY DEF convertError
<1>11. \A t : formatResponse(t) = "transaction" => t.validated /\ isTransactionInRange(t)
  BY <1>10 DEF formatResponse
<1>12. ASSUME TxArrived PROVE ServerInv' /\ Goal
  <2>1. stage = "gotTx" /\ UNCHANGED <<serverVars, wire, viewVars, min, max, tx, failed, late>>
    BY <1>12 DEF TxArrived
  <2>2. ServerInv' /\ Known(tx)
    BY <2>1 DEF FoundInv, ServerInv, StageKnown, serverVars
  <2>3. CASE Settle(convertError)
    BY <1>9, <1>10, <2>1, <2>2, <2>3, SettleStep
  <2>4. CASE Settle(formatResponse(tx))
    BY <1>9, <1>11, <2>1, <2>2, <2>4, SettleStep
  <2>5. CASE stage' = "askedLedger" /\ UNCHANGED outcome
    <3>1. OneAnswer' /\ AnswersKnown'
      BY <1>9, <2>1, <2>5 DEF OneAnswer, AnswersKnown
    <3>2. StageKnown' /\ FoundIsValidated'
      BY <2>1, <2>5 DEF FoundInv, StageKnown, FoundIsValidated, Known, serverVars
    <3>3. QED
      BY <2>2, <3>1, <3>2
  <2>6. QED
    BY <1>12, <2>3, <2>4, <2>5 DEF TxArrived
<1>13. ASSUME LedgerArrived PROVE ServerInv' /\ Goal
  <2>1. /\ stage = "gotLedger" /\ Settle(formatResponse(tx))
        /\ UNCHANGED <<serverVars, wire, viewVars, min, max, tx, failed, late>>
    BY <1>13 DEF LedgerArrived
  <2>2. ServerInv' /\ Known(tx)
    BY <2>1 DEF FoundInv, ServerInv, StageKnown, serverVars
  <2>3. QED
    BY <1>9, <1>11, <2>1, <2>2, SettleStep
<1>14. CASE UNCHANGED vars
  BY <1>14 DEF FoundInv, vars, serverVars, callVars, ServerInv, OneAnswer,
               AnswersKnown, StageKnown, Known, FoundIsValidated
<1>15. ASSUME LedgerRequestFails PROVE ServerInv' /\ Goal
  <2>1. /\ stage = "askedLedger" /\ stage' = "gotTx" /\ tx' = NoTx
        /\ \A i \in 1 .. Len(wire) : wire[i].type # "ledger"
        /\ UNCHANGED <<serverVars, wire, viewVars, min, max, outcome, late>>
    BY <1>15 DEF LedgerRequestFails
  <2>2. ServerInv' /\ AnswersKnown'
    BY <2>1 DEF FoundInv, ServerInv, AnswersKnown, Known, serverVars
  <2>3. OneAnswer'
    BY <2>1 DEF FoundInv, OneAnswer
  <2>4. outcome = "none"
    BY <2>1 DEF FoundInv, StageKnown
  <2>5. StageKnown' /\ FoundIsValidated'
    BY <2>1, <2>4 DEF StageKnown, FoundIsValidated, Known, NoTx
  <2>6. QED
    BY <2>2, <2>3, <2>5
<1>16. QED
  BY <1>2, <1>3, <1>4, <1>5, <1>6, <1>7, <1>8, <1>12, <1>13, <1>14, <1>15 DEF Next

(* The transaction that getTransaction resolves with is validated, and in  *)
(* the range of the options, whatever the order of messages.               *)
THEOREM ResolvedIsValidated == Spec => []FoundIsValidated
<1>1. FoundInv => FoundIsValidated
  BY DEF FoundInv
<1>2. QED
  BY <1>1, FoundInit, FoundStep, PTL DEF Spec

(* Every reachable state is well typed.                                    *)
THEOREM LookupTyped == Spec => []TypeOK
<1>1. FoundInv => TypeOK
  BY DEF FoundInv
<1>2. QED
  BY <1>1, FoundInit, FoundStep, PTL DEF Spec

(* ---------------------- The error that is final ------------------------ *)

(* Beside Steady: a transaction comes into a ledger that is validated now. *)
SteadyFuture ==
  /\ Steady
  /\ lost \subseteq lost'
  /\ included' = included \/ included' > validated

(* A message that tells what the server knows now.                         *)
Fresh(m) ==
  /\ m.type = "ledgerClosed" =>
       /\ m.version <= validated'
       /\ m.ledgers \subseteq (history' \cup lost')
       /\ \A l \in m.ledgers : l <= m.version
  /\ m.type = "tx" /\ ~m.tx.validated => included' \notin history
  /\ m.type = "ledger" /\ ~m.found /\ tx.validated => included' \in lost'

(* A step of the server leaves a transaction unseen in what was told.      *)
LEMMA FutureStep ==
  ASSUME FinalInv, SteadyFuture, UNCHANGED <<viewVars, callVars>>,
         wire' = wire \/ \E m \in Message : Sent(m) /\ Fresh(m)
  PROVE  Behind' /\ AnswersUnseen' /\ StageUnseen' /\ NotFoundIsFinal'
<1>1. /\ min' = min /\ max' = max /\ stage' = stage /\ tx' = tx
      /\ failed' = failed /\ outcome' = outcome /\ late' = late
      /\ version' = version /\ available' = available
  BY DEF callVars, viewVars
<1>2. /\ included \in 0 .. MaxVersion /\ validated \in Versions
      /\ version \in Versions /\ available \in SUBSET Versions
      /\ history \in SUBSET Versions /\ lost \in SUBSET Versions
      /\ validated <= validated' /\ validated' \in Versions
      /\ wire \in Seq(Message) /\ max \in 0 .. MaxVersion + 1
      /\ (history \cup lost) \subseteq (history' \cup lost')
  BY DEF FinalInv, FoundInv, TypeOK, SteadyFuture, Steady
<1>3. ASSUME NEW t, NEW L, NEW v, Past(L, v), v <= validated, v \in Versions,
             L \in SUBSET Versions, Unseen(t, L), ~t.validated
      PROVE  included' \notin L \ lost'
  <2>1. \A l \in L : l <= validated /\ l \in Versions
    BY <1>2, <1>3 DEF Past, Versions
  <2>2. included' = included \/ included' \notin L
    BY <1>2, <2>1 DEF SteadyFuture, Versions
  <2>3. QED
    BY <1>3, <2>2 DEF Unseen, SteadyFuture
<1>4. Past(available, version) /\ version <= validated
  BY DEF FinalInv, Behind
<1>5. StageUnseen'
  <2>1. Past(available \ late, version) /\ (available \ late) \in SUBSET Versions
    BY <1>2, <1>4 DEF Past
  <2>2. Unseen(tx, available \ late) /\ ~tx.validated => included' \notin (available \ late) \ lost'
    BY <1>2, <1>3, <1>4, <2>1
  <2>3. QED
    BY <1>1, <2>2 DEF FinalInv, StageUnseen, Unseen
<1>6. NotFoundIsFinal'
  <2>1. ASSUME outcome' = "NotFound", max' # 0, First' <= max'
        PROVE  /\ max' <= validated'
               /\ included' \in (First' .. max') \ lost' => failed' \/ included' \in late'
    <3>1. First' = First
      BY <1>1 DEF First
    <3>2. /\ max <= validated
          /\ included \in (First .. max) \ lost => failed \/ included \in late
      BY <1>1, <2>1, <3>1 DEF FinalInv, NotFoundIsFinal
    <3>3. included' = included \/ included' \notin First .. max
      BY <1>2, <3>2 DEF SteadyFuture, Versions
    <3>4. max <= validated'
      BY <1>2, <3>2 DEF Versions
    <3>5. QED
      BY <1>1, <3>1, <3>2, <3>3, <3>4 DEF SteadyFuture
  <2>2. QED
    BY <2>1 DEF NotFoundIsFinal
<1>7. ASSUME NEW i \in 1 .. Len(wire)
      PROVE  /\ wire[i].type = "ledgerClosed" =>
                  /\ wire[i].version <= validated' /\ wire[i].version <= validated
                  /\ Past(wire[i].ledgers, wire[i].version)
                  /\ wire[i].ledgers \subseteq (history' \cup lost')
                  /\ wire[i].version \in Versions
                  /\ wire[i].ledgers \in SUBSET Versions
             /\ wire[i] \in Message
  <2>1. wire[i] \in Message
    BY <1>2
  <2>2. QED
    BY <1>2, <2>1, MessageFacts DEF FinalInv, Behind, Past, Versions
<1>8. ASSUME NEW i \in 1 .. Len(wire)
      PROVE  /\ wire[i].type = "tx" /\ ~wire[i].tx.validated =>
                  /\ included' \notin available \ lost'
                  /\ \A j \in 1 .. Len(wire) :
                       j < i /\ wire[j].type = "ledgerClosed" =>
                         included' \notin wire[j].ledgers \ lost'
             /\ wire[i].type = "ledger" /\ ~wire[i].found /\ tx.validated =>
                  included' \in lost'
  <2>1. ASSUME wire[i].type = "tx", ~wire[i].tx.validated
        PROVE  included' \notin available \ lost'
    BY <1>2, <1>3, <1>4, <2>1 DEF FinalInv, AnswersUnseen
  <2>2. ASSUME wire[i].type = "tx", ~wire[i].tx.validated,
               NEW j \in 1 .. Len(wire), j < i, wire[j].type = "ledgerClosed"
        PROVE  included' \notin wire[j].ledgers \ lost'
    <3>1. Unseen(wire[i].tx, wire[j].ledgers)
      BY <2>2 DEF FinalInv, AnswersUnseen
    <3>2. QED
      BY <1>3, <1>7, <2>2, <3>1
  <2>3. ASSUME wire[i].type = "ledger", ~wire[i].found, tx.validated
        PROVE  included' \in lost'
    <3>1. included \in lost /\ included <= validated
      BY <2>3 DEF FinalInv, AnswersUnseen, FoundInv, ServerInv
    <3>2. included # 0
      BY <3>1, <1>2 DEF Versions
    <3>3. QED
      BY <3>1, <3>2 DEF SteadyFuture, Steady
  <2>4. QED
    BY <2>1, <2>2, <2>3
<1>9. Behind' /\ AnswersUnseen'
  <2>1. CASE wire' = wire
    <3>1. Behind'
      BY <1>1, <1>2, <1>4, <1>7, <2>1 DEF Behind, Past, Versions
    <3>2. AnswersUnseen'
      BY <1>1, <1>8, <2>1 DEF AnswersUnseen, Unseen
    <3>3. QED
      BY <3>1, <3>2
  <2>2. ASSUME NEW m \in Message, Sent(m), Fresh(m) PROVE Behind' /\ AnswersUnseen'
    <3> DEFINE n == Len(wire) + 1
    <3>1. /\ Len(wire) \in Nat /\ Len(wire') = n /\ wire'[n] = m
          /\ \A i \in 1 .. Len(wire) : wire'[i] = wire[i]
      BY <1>2, <2>2, AppendProperties DEF Sent
    <3>2. \A i \in 1 .. Len(wire') : i = n \/ i \in 1 .. Len(wire)
      BY <3>1
    <3> HIDE DEF n
    <3>3. Behind'
      <4>1. /\ available' \subseteq (history' \cup lost') /\ version' <= validated'
            /\ \A l \in available' : l <= version'
        BY <1>1, <1>2, <1>4 DEF Past, Versions
      <4>2. ASSUME NEW i \in 1 .. Len(wire'), wire'[i].type = "ledgerClosed"
            PROVE  /\ wire'[i].version <= validated'
                   /\ wire'[i].ledgers \subseteq (history' \cup lost')
                   /\ \A l \in wire'[i].ledgers : l <= wire'[i].version
        <5>1. CASE i = n
          BY <5>1, <4>2, <3>1, <2>2 DEF Fresh
        <5>2. CASE i \in 1 .. Len(wire)
          BY <5>2, <4>2, <3>1, <1>7 DEF Past
        <5>3. QED
          BY <5>1, <5>2, <3>2
      <4>3. QED
        BY <4>1, <4>2 DEF Behind, Past
    <3>4. AnswersUnseen'
      <4>1. ASSUME NEW i \in 1 .. Len(wire'), wire'[i].type = "tx",
                   ~wire'[i].tx.validated
            PROVE  included' \notin available \ lost'
        <5>1. CASE i = n
          <6>1. included' \notin history
            BY <5>1, <4>1, <3>1, <2>2 DEF Fresh
          <6>2. QED
            BY <6>1, <1>4 DEF Past, SteadyFuture
        <5>2. CASE i \in 1 .. Len(wire)
          BY <5>2, <4>1, <3>1, <1>8
        <5>3. QED
          BY <5>1, <5>2, <3>2
      <4>2. ASSUME NEW i \in 1 .. Len(wire'), wire'[i].type = "tx",
                   ~wire'[i].tx.validated, NEW j \in 1 .. Len(wire'), j < i,
                   wire'[j].type = "ledgerClosed"
            PROVE  included' \notin wire'[j].ledgers \ lost'
        <5>1. j \in 1 .. Len(wire)
          BY <4>2, <3>1, <3>2 DEF n
        <5>2. CASE i = n
          <6>1. included' \notin history
            BY <5>2, <4>2, <3>1, <2>2 DEF Fresh
          <6>2. wire'[j] = wire[j] /\ Past(wire[j].ledgers, wire[j].version)
            BY <5>1, <4>2, <3>1, <1>7
          <6>3. QED
            BY <6>1, <6>2 DEF Past, SteadyFuture
        <5>3. CASE i \in 1 .. Len(wire)
          BY <5>1, <5>3, <4>2, <3>1, <1>8
        <5>4. QED
          BY <5>2, <5>3, <3>2
      <4>3. ASSUME NEW i \in 1 .. Len(wire'), wire'[i].type = "ledger",
                   ~wire'[i].found, tx.validated
            PROVE  included' \in lost'
        <5>1. CASE i = n
          BY <5>1, <4>3, <3>1, <2>2 DEF Fresh
        <5>2. CASE i \in 1 .. Len(wire)
          BY <5>2, <4>3, <3>1, <1>8
        <5>3. QED
          BY <5>1, <5>2, <3>2
      <4>4. QED
        BY <1>1, <4>1, <4>2, <4>3 DEF AnswersUnseen, Unseen
    <3>5. QED
      BY <3>3, <3>4
  <2>3. QED
    BY <2>1, <2>2
<1>10. QED
  BY <1>5, <1>6, <1>9

(* A call that settles with NotFound: the range is complete, and does not  *)
(* have the transaction, the ledgers of late apart.                        *)
LEMMA NotFoundStep ==
  ASSUME FinalInv, NEW how, Settle(how),
         how = "NotFound" =>
           /\ hasCompleteLedgerRange
           /\ \/ failed
              \/ included \notin (available \ late) \ lost
              \/ tx.validated /\ ~isTransactionInRange(tx),
         \A i \in 1 .. Len(wire) : wire[i].type = "ledgerClosed",
         Known(tx),
         UNCHANGED <<serverVars, wire, viewVars, min, max, tx, failed, late>>
  PROVE  Behind' /\ AnswersUnseen' /\ StageUnseen' /\ NotFoundIsFinal'
<1>1. /\ stage' = "settled" /\ outcome' = how /\ wire' = wire /\ tx' = tx
      /\ failed' = failed
      /\ included' = included /\ validated' = validated /\ history' = history
      /\ lost' = lost /\ min' = min /\ max' = max
      /\ version' = version /\ available' = available /\ late' = late
  BY DEF Settle, serverVars, viewVars
<1>2. Behind' /\ AnswersUnseen' /\ StageUnseen'
  BY <1>1 DEF FinalInv, Behind, Past, AnswersUnseen, StageUnseen
<1>3. ASSUME how = "NotFound", max # 0, First <= max
      PROVE  /\ max <= validated
             /\ included \in (First .. max) \ lost => failed \/ included \in late
  <2>1. PICK a \in available, b \in available :
          a .. b \subseteq available /\ a <= First /\ max <= b
    BY <1>3 DEF hasCompleteLedgerRange, containsRange, First
  <2>2. /\ available \in SUBSET Versions /\ version \in Versions
        /\ validated \in Versions /\ included \in 0 .. MaxVersion
        /\ min \in 0 .. MaxVersion + 1 /\ max \in 0 .. MaxVersion + 1
    BY DEF FinalInv, FoundInv, TypeOK
  <2>3. b <= version /\ version <= validated
    BY DEF FinalInv, Behind, Past
  <2>4. max <= validated
    BY <2>1, <2>2, <2>3, LookupAssumption DEF Versions
  <2>5. First \in Int /\ First >= 1
    BY <2>2, LookupAssumption DEF First
  <2>6. First .. max \subseteq available
    BY <2>1, <2>2, <2>5, LookupAssumption DEF Versions
  <2>7. CASE failed \/ included \notin (available \ late) \ lost
    BY <2>4, <2>6, <2>7
  <2>8. CASE tx.validated /\ ~isTransactionInRange(tx)
    <3>1. tx.ledger = included
      BY <2>8 DEF Known
    <3>2. (min # 0 /\ included < min) \/ included > max
      BY <2>2, <2>8, <3>1, LookupAssumption DEF isTransactionInRange
    <3>3. included \notin First .. max
      BY <2>2, <3>2, LookupAssumption DEF First
    <3>4. QED
      BY <2>4, <3>3
  <2>9. QED
    BY <1>3, <2>7, <2>8
<1>4. NotFoundIsFinal'
  <2>1. First' = First
    BY <1>1 DEF First
  <2>2. QED
    BY <1>1, <1>3, <2>1 DEF NotFoundIsFinal
<1>5. QED
  BY <1>2, <1>4

(* The initial states.                                                     *)
LEMMA FinalInit == Init => FinalInv
<1> SUFFICES ASSUME Init PROVE FinalInv
  OBVIOUS
<1>1. FoundInv
  BY FoundInit
<1>2. /\ history \in SUBSET (1 .. validated) /\ version = validated
      /\ available = history /\ validated \in Versions
      /\ stage = "idle" /\ outcome = "none" /\ wire = <<>> /\ failed = FALSE
  BY DEF Init
<1>3. Len(wire) = 0
  BY <1>2
<1>4. Behind
  BY <1>2, <1>3 DEF Behind, Past, Versions
<1>5. AnswersUnseen /\ StageUnseen /\ NotFoundIsFinal
  BY <1>2, <1>3 DEF AnswersUnseen, StageUnseen, NotFoundIsFinal
<1>6. QED
  BY <1>1, <1>4, <1>5 DEF FinalInv

(* Every step keeps FinalInv.                                              *)
LEMMA FinalStep == FinalInv /\ [Next]_vars => FinalInv'
<1> DEFINE Goal == Behind' /\ AnswersUnseen' /\ StageUnseen' /\ NotFoundIsFinal'
<1> SUFFICES ASSUME FinalInv, [Next]_vars PROVE Goal
  BY FoundStep DEF FinalInv
<1>1. FoundInv /\ TypeOK /\ ServerInv /\ TypeOK'
  BY TypeStep DEF FinalInv, FoundInv
<1>2. /\ validated \in Int /\ validated \in Versions
      /\ history \in SUBSET Versions /\ lost \in SUBSET Versions
      /\ included \in 0 .. MaxVersion
      /\ validated' \in Versions /\ history' \in SUBSET Versions
  BY <1>1 DEF TypeOK, Versions
<1>3. ASSUME LedgerCloses PROVE Goal
  <2>1. /\ validated' = validated + 1 /\ history' = history \cup {validated'}
        /\ lost' = lost /\ included' \in {included, validated'}
        /\ included # 0 => included' = included
        /\ UNCHANGED <<viewVars, callVars>>
        /\ wire' = Append(wire, [type |-> "ledgerClosed", version |-> validated',
                                 ledgers |-> history'])
    BY <1>3 DEF LedgerCloses, Send
  <2>2. SteadyFuture
    BY <1>2, <2>1 DEF SteadyFuture, Steady
  <2>3. \A l \in history' : l <= validated'
    BY <1>1, <1>2, <2>1 DEF ServerInv, Versions
  <2> DEFINE m == [type |-> "ledgerClosed", version |-> validated',
                   ledgers |-> history']
  <2>4. m \in Message
    BY <1>2 DEF Message
  <2>5. Sent(m)
    BY <2>1, <2>4 DEF Sent
  <2>6. Fresh(m)
    BY <1>2, <2>3 DEF Fresh, Versions
  <2>7. QED
    BY <2>1, <2>2, <2>4, <2>5, <2>6, FutureStep
<1>4. ASSUME DeletesOldest PROVE Goal
  <2>1. /\ (history' \cup lost') = (history \cup lost) /\ lost \subseteq lost'
        /\ UNCHANGED <<included, validated, wire, viewVars, callVars>>
    BY <1>4 DEF DeletesOldest
  <2>2. SteadyFuture
    BY <1>2, <2>1 DEF SteadyFuture, Steady, Versions
  <2>3. QED
    BY <2>1, <2>2, FutureStep
<1>5. ASSUME NEW v \in Versions, Acquires(v) PROVE Goal
  <2>1. /\ history' = history \cup {v} /\ lost' = lost
        /\ UNCHANGED <<included, validated, wire, viewVars, callVars>>
    BY <1>5 DEF Acquires
  <2>2. SteadyFuture
    BY <1>2, <2>1 DEF SteadyFuture, Steady, Versions
  <2>3. QED
    BY <2>1, <2>2, FutureStep
<1>6. ASSUME AnswersTx PROVE Goal
  <2>1. PICK t \in TxAnswers : wire' = Append(wire, [type |-> "tx", tx |-> t])
    BY <1>6 DEF AnswersTx, Send
  <2>2. UNCHANGED <<serverVars, viewVars, callVars>> /\ stage = "askedTx"
        /\ \A i \in 1 .. Len(wire) : wire[i].type # "tx"
    BY <1>6 DEF AnswersTx
  <2>3. SteadyFuture
    BY <1>2, <2>2 DEF SteadyFuture, Steady, serverVars, Versions
  <2> DEFINE m == [type |-> "tx", tx |-> t]
  <2>4. m \in Message /\ Known(t)
    BY <1>1, AnswersTyped, AnswerFacts DEF Message, Known
  <2>5. \A i \in 1 .. Len(wire) : wire[i].type = "ledgerClosed"
    <3>1. \A i \in 1 .. Len(wire) : wire[i] \in Message
      BY <1>1 DEF TypeOK
    <3>2. \A i \in 1 .. Len(wire) : wire[i].type # "ledger"
      BY <1>1, <2>2 DEF FoundInv, OneAnswer
    <3>3. QED
      BY <3>1, <3>2, <2>2, MessageFacts
  <2>6. Sent(m)
    BY <2>1, <2>2, <2>4, <2>5 DEF Sent
  <2>7. ~t.validated => included' \notin history
    BY <2>2, AnswerFacts DEF serverVars
  <2>8. Fresh(m)
    BY <2>7 DEF Fresh
  <2>9. QED
    BY <2>2, <2>3, <2>4, <2>6, <2>8, FutureStep
<1>7. ASSUME AnswersLedger PROVE Goal
  <2> DEFINE m == [type |-> "ledger", found |-> tx.ledger \in history]
  <2>1. /\ UNCHANGED <<serverVars, viewVars, callVars>> /\ stage = "askedLedger"
        /\ \A i \in 1 .. Len(wire) : wire[i].type # "ledger"
        /\ wire' = Append(wire, m)
    BY <1>7 DEF AnswersLedger, Send
  <2>2. SteadyFuture
    BY <1>2, <2>1 DEF SteadyFuture, Steady, serverVars, Versions
  <2>3. m \in Message
    <3>1. (tx.ledger \in history) \in BOOLEAN
      OBVIOUS
    <3>2. QED
      BY <3>1 DEF Message
  <2>4. \A i \in 1 .. Len(wire) : wire[i].type = "ledgerClosed"
    <3>1. \A i \in 1 .. Len(wire) : wire[i] \in Message
      BY <1>1 DEF TypeOK
    <3>2. \A i \in 1 .. Len(wire) : wire[i].type # "tx"
      BY <1>1, <2>1 DEF FoundInv, OneAnswer
    <3>3. QED
      BY <3>1, <3>2, <2>1, MessageFacts
  <2>5. Sent(m)
    BY <2>1, <2>3, <2>4 DEF Sent
  <2>6. tx.ledger \notin history /\ tx.validated => included' \in lost'
    BY <1>1, <2>1 DEF FoundInv, StageKnown, Known, serverVars
  <2>7. Fresh(m)
    BY <2>6 DEF Fresh
  <2>8. QED
    BY <2>1, <2>2, <2>3, <2>5, <2>7, FutureStep
<1>8. ASSUME GetTransaction PROVE Goal
  <2>1. /\ stage = "idle" /\ stage' = "askedTx"
        /\ UNCHANGED <<serverVars, wire, viewVars, tx, failed, outcome, late>>
    BY <1>8 DEF GetTransaction
  <2>2. outcome' # "NotFound"
    BY <1>1, <2>1 DEF FoundInv, StageKnown
  <2>3. QED
    BY <2>1, <2>2 DEF FinalInv, Behind, Past, AnswersUnseen, Unseen, StageUnseen,
                      NotFoundIsFinal, serverVars, viewVars, FoundInv, OneAnswer
<1>9. ASSUME Receive PROVE Goal
  <2> DEFINE m == Head(wire)
  <2>1. /\ wire # <<>> /\ wire' = Tail(wire)
        /\ included' = included /\ validated' = validated
        /\ history' = history /\ lost' = lost
        /\ min' = min /\ max' = max /\ outcome' = outcome
        /\ failed' = failed
    BY <1>9 DEF Receive, serverVars
  <2>2. /\ m = wire[1] /\ m \in Message /\ Len(wire) \in Nat /\ Len(wire) >= 1
        /\ Len(wire') = Len(wire) - 1
        /\ \A i \in 1 .. Len(wire') : wire'[i] = wire[i + 1]
    BY <1>1, <2>1, HeadTailProperties DEF TypeOK
  <2>3. 1 \in 1 .. Len(wire)
    BY <2>2
  <2>4. ASSUME NEW i \in 1 .. Len(wire')
        PROVE  wire'[i] = wire[i + 1] /\ i + 1 \in 1 .. Len(wire) /\ 1 < i + 1
    BY <2>2
  <2> HIDE DEF m
  <2>5. NotFoundIsFinal'
    <3>1. outcome = "NotFound" => stage = "settled" /\ m.type = "ledgerClosed"
      BY <2>2, <2>3, MessageFacts DEF FinalInv, FoundInv, StageKnown, OneAnswer
    <3>2. outcome = "NotFound" => late' = late
      BY <1>9, <3>1 DEF Receive, m
    <3>3. QED
      BY <2>1, <3>2 DEF FinalInv, NotFoundIsFinal, First
  <2>6. \A i \in 1 .. Len(wire') : wire'[i].type = "ledgerClosed" =>
          wire'[i].version <= validated' /\ Past(wire'[i].ledgers, wire'[i].version)
    BY <2>4, <2>1 DEF FinalInv, Behind
  <2>7. CASE m.type = "ledgerClosed"
    <3>1. /\ stage' = stage /\ tx' = tx
          /\ version' = m.version /\ available' = m.ledgers
          /\ late' = IF stage = "settled" THEN late
                     ELSE late \cup (m.ledgers \ available)
      BY <1>9, <2>7 DEF Receive, UpdateLedgerVersions, m
    <3>2. m.version <= validated /\ Past(m.ledgers, m.version)
      BY <2>2, <2>3, <2>7 DEF FinalInv, Behind
    <3>3. Behind'
      BY <2>1, <2>6, <3>1, <3>2 DEF Behind, Past
    <3>4. ASSUME NEW i \in 1 .. Len(wire')
          PROVE  /\ wire'[i].type = "tx" =>
                      /\ Unseen(wire'[i].tx, m.ledgers)
                      /\ \A j \in 1 .. Len(wire') :
                           j < i /\ wire'[j].type = "ledgerClosed" =>
                             Unseen(wire'[i].tx, wire'[j].ledgers)
                 /\ wire'[i].type = "ledger" /\ ~wire'[i].found /\ tx.validated =>
                      included \in lost
      <4>1. wire'[i] = wire[i + 1] /\ i + 1 \in 1 .. Len(wire) /\ 1 < i + 1
        BY <2>4
      <4>2. wire'[i].type = "tx" => Unseen(wire'[i].tx, m.ledgers)
        BY <4>1, <2>2, <2>3, <2>7 DEF FinalInv, AnswersUnseen
      <4>3. ASSUME NEW j \in 1 .. Len(wire'), j < i
            PROVE  wire'[j] = wire[j + 1] /\ j + 1 \in 1 .. Len(wire) /\ j + 1 < i + 1
        BY <2>4, <4>3
      <4>4. QED
        BY <4>1, <4>2, <4>3 DEF FinalInv, AnswersUnseen
    <3>5. AnswersUnseen'
      BY <2>1, <3>1, <3>4 DEF AnswersUnseen, Unseen
    <3>6. StageUnseen'
      <4>1. stage # "settled" => (available' \ late') \subseteq (available \ late)
        BY <3>1
      <4>2. QED
        BY <2>1, <3>1, <4>1 DEF FinalInv, StageUnseen, Unseen
    <3>7. QED
      BY <2>5, <3>3, <3>5, <3>6
  <2>8. m.type # "ledgerClosed" => Behind' /\ AnswersUnseen'
    <3>1. ASSUME m.type # "ledgerClosed" PROVE Behind' /\ AnswersUnseen'
      <4>1. version' = version /\ available' = available
        BY <1>9, <3>1 DEF Receive, viewVars, m
      <4>2. Behind'
        BY <2>1, <2>6, <4>1 DEF FinalInv, Behind, Past
      <4>3. ASSUME NEW i \in 1 .. Len(wire') PROVE wire'[i].type = "ledgerClosed"
        <5>1. wire'[i] = wire[i + 1] /\ i + 1 \in 1 .. Len(wire) /\ 1 # i + 1
          BY <2>4
        <5>2. wire[i + 1].type = "ledgerClosed"
          BY <5>1, <2>2, <2>3, <3>1 DEF FinalInv, FoundInv, OneAnswer
        <5>3. QED
          BY <5>1, <5>2
      <4>4. QED
        BY <4>2, <4>3 DEF AnswersUnseen
    <3>2. QED
      BY <3>1
  <2>9. CASE m.type = "tx"
    <3>1. /\ stage' = "gotTx" /\ tx' = m.tx
          /\ version' = version /\ available' = available /\ late' = {}
      BY <1>9, <2>9 DEF Receive, viewVars, m
    <3>2. Unseen(m.tx, available) /\ ~failed
      BY <2>2, <2>3, <2>9 DEF FinalInv, AnswersUnseen, StageUnseen, FoundInv, OneAnswer
    <3>3. StageUnseen'
      BY <2>1, <3>1, <3>2 DEF StageUnseen, Unseen
    <3>4. QED
      BY <2>5, <2>8, <2>9, <3>3
  <2>10. CASE m.type = "ledger"
    <3>1. /\ stage' = IF m.found THEN "gotLedger" ELSE "gotTx"
          /\ tx' = IF m.found THEN tx ELSE NoTx
          /\ version' = version /\ available' = available /\ late' = late
      BY <1>9, <2>10 DEF Receive, viewVars, m
    <3>2. ~m.found /\ tx.validated => included \in lost
      BY <2>2, <2>3, <2>10 DEF FinalInv, AnswersUnseen
    <3>3. ~failed /\ Unseen(tx, available \ late)
      BY <2>2, <2>3, <2>10 DEF FinalInv, FoundInv, OneAnswer, StageUnseen
    <3>4. StageUnseen'
      BY <2>1, <3>1, <3>2, <3>3 DEF StageUnseen, Unseen, NoTx
    <3>5. QED
      BY <2>5, <2>8, <2>10, <3>4
  <2>11. QED
    BY <2>2, <2>7, <2>9, <2>10, MessageFacts
<1>10. ASSUME stage \in {"gotTx", "gotLedger"}
       PROVE  \A i \in 1 .. Len(wire) : wire[i].type = "ledgerClosed"
  <2>1. \A i \in 1 .. Len(wire) : wire[i] \in Message
    BY <1>1 DEF TypeOK
  <2>2. QED
    BY <1>1, <1>10, <2>1, MessageFacts DEF FoundInv, OneAnswer
<1>11. convertError = "NotFound" => hasCompleteLedgerRange
  BY DEF convertError
<1>12. \A l \in available : l <= version /\ l \in Versions
  BY <1>1 DEF FinalInv, Behind, Past, TypeOK
<1>13. ASSUME TxArrived PROVE Goal
  <2>1. stage = "gotTx" /\ UNCHANGED <<serverVars, wire, viewVars, min, max, tx, failed, late>>
    BY <1>13 DEF TxArrived
  <2>2. /\ Known(tx) /\ tx \in Tx
        /\ ~failed => Unseen(tx, available \ late)
        /\ failed => ~tx.found
    BY <1>1, <2>1 DEF FinalInv, FoundInv, StageKnown, StageUnseen, TypeOK
  <2>3. CASE ~tx.found /\ Settle(convertError)
    <3>1. ~failed => included \notin (available \ late) \ lost
      BY <2>2, <2>3 DEF Known, Unseen
    <3>2. QED
      BY <1>10, <1>11, <2>1, <2>2, <2>3, <3>1, NotFoundStep
  <2>4. CASE tx.found /\ tx.dated /\ Settle(formatResponse(tx))
    <3>1. formatResponse(tx) = "NotFound" =>
            /\ hasCompleteLedgerRange
            /\ \/ included \notin (available \ late) \ lost
               \/ tx.validated /\ ~isTransactionInRange(tx)
      BY <1>11, <2>2, <2>4 DEF formatResponse, Unseen
    <3>2. QED
      BY <1>10, <2>1, <2>2, <2>4, <3>1, NotFoundStep
  <2>5. CASE tx.found /\ (tx.ledger = 0 \/ tx.ledger > version) /\ Settle(convertError)
    <3>1. included \notin (available \ late) \ lost
      <4>1. CASE tx.validated
        BY <4>1, <1>1, <1>12, <2>2, <2>5 DEF Known, TypeOK, Versions
      <4>2. CASE ~tx.validated
        BY <4>2, <2>2, <2>5 DEF Unseen
      <4>3. QED
        BY <4>1, <4>2
    <3>2. QED
      BY <1>10, <1>11, <2>1, <2>2, <2>5, <3>1, NotFoundStep
  <2>6. CASE /\ tx.found /\ ~(tx.ledger = 0 \/ tx.ledger > version)
             /\ stage' = "askedLedger" /\ UNCHANGED outcome
    <3>1. Unseen(tx, available \ late)
      BY <2>2, <2>6
    <3>2. /\ Behind' /\ NotFoundIsFinal'
      BY <2>1, <2>6 DEF FinalInv, Behind, Past, NotFoundIsFinal, First, serverVars,
                        viewVars
    <3>3. StageUnseen'
      BY <2>1, <2>2, <2>6, <3>1 DEF StageUnseen, Unseen, serverVars, viewVars
    <3>4. AnswersUnseen'
      BY <1>10, <2>1 DEF AnswersUnseen
    <3>5. QED
      BY <3>2, <3>3, <3>4
  <2>7. QED
    BY <1>13, <2>3, <2>4, <2>5, <2>6 DEF TxArrived
<1>14. ASSUME LedgerArrived PROVE Goal
  <2>1. /\ stage = "gotLedger" /\ Settle(formatResponse(tx))
        /\ UNCHANGED <<serverVars, wire, viewVars, min, max, tx, failed, late>>
    BY <1>14 DEF LedgerArrived
  <2>2. Known(tx) /\ Unseen(tx, available \ late)
    BY <1>1, <2>1 DEF FinalInv, FoundInv, StageKnown, StageUnseen
  <2>3. formatResponse(tx) = "NotFound" =>
          /\ hasCompleteLedgerRange
          /\ \/ included \notin (available \ late) \ lost
             \/ tx.validated /\ ~isTransactionInRange(tx)
    BY <1>11, <2>2 DEF formatResponse, Unseen
  <2>4. QED
    BY <1>10, <2>1, <2>2, <2>3, NotFoundStep
<1>15. CASE UNCHANGED vars
  BY <1>15 DEF FinalInv, vars, serverVars, viewVars, callVars, Behind, Past,
               AnswersUnseen, Unseen, StageUnseen, NotFoundIsFinal, First
<1>16. ASSUME LedgerRequestFails PROVE Goal
  <2>1. /\ stage = "askedLedger" /\ stage' = "gotTx" /\ tx' = NoTx /\ failed'
        /\ UNCHANGED <<serverVars, wire, viewVars, min, max, outcome, late>>
    BY <1>16 DEF LedgerRequestFails
  <2>2. Behind' /\ AnswersUnseen'
    BY <2>1 DEF FinalInv, Behind, Past, AnswersUnseen, Unseen, NoTx, serverVars, viewVars
  <2>3. StageUnseen' /\ NotFoundIsFinal'
    BY <1>1, <2>1 DEF StageUnseen, NotFoundIsFinal, NoTx, FoundInv, StageKnown
  <2>4. QED
    BY <2>2, <2>3
<1>17. QED
  BY <1>3, <1>4, <1>5, <1>6, <1>7, <1>8, <1>9, <1>13, <1>14, <1>15, <1>16 DEF Next

(* A NotFoundError is final, whatever the order of the messages: the range *)
(* is validated to its end, and has no ledger with the transaction but one *)
(* that the server has deleted, that the connection learnt of too late, or *)
(* whose request has failed.                                               *)
THEOREM NotFoundIsDefinite == Spec => []NotFoundIsFinal
<1>1. FinalInv => NotFoundIsFinal
  BY DEF FinalInv
<1>2. QED
  BY <1>1, FinalInit, FinalStep, PTL DEF Spec

=============================================================================
