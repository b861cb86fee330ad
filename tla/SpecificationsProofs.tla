------------------------- MODULE SpecificationsProofs -------------------------
(***************************************************************************)
(* That escrows and the claims of a payment channel do what was asked for, *)
(* that the paths which are found for a payment can be paid and do what    *)
(* was asked for, that what a payment delivered is told, that a book of    *)
(* orders is that of a ledger, that reads give what was asked for, and     *)
(* that the specification of a transaction of the history is that of the   *)
(* same transaction, for every amount, every time and every condition.     *)
(*                                                                         *)
(* The modules of each kind are instances in Specifications, and no step   *)
(* of another topic changes their state.                                   *)
(***************************************************************************)
EXTENDS Specifications, FiniteSetTheorems, SequenceTheorems, TLAPS

(* ------------------------------- Escrows ------------------------------- *)

(* What is prepared is what prepare makes of some specification.           *)
PreparedInv ==
  \/ prepared = E!None
  \/ \E spec \in E!Creations :
       prepared = [spec |-> spec, tx |-> E!createEscrowCreationTransaction(spec)]
  \/ \E spec \in E!Executions :
       prepared = [spec |-> spec, tx |-> E!createEscrowExecutionTransaction(spec)]
  \/ \E spec \in E!Cancellations :
       prepared = [spec |-> spec, tx |-> E!createEscrowCancellationTransaction(spec)]

(* The escrow in the ledger is one that was asked for, and not refused.    *)
Keeps(e) ==
  \E spec \in E!Creations :
    /\ e.asked = spec
    /\ e.entry.Condition = spec.condition
    /\ e.entry.CancelAfter = E!Optional(spec.allowCancelAfter, E!iso8601ToRippleTime)
    /\ e.entry.FinishAfter = E!Optional(spec.allowExecuteAfter, E!iso8601ToRippleTime)

(* The first part of EscrowAsAsked, of the last transaction.               *)
AsAsked(v) ==
  LET time == E!rippleTimeToISO8601(v.time)
  IN /\ v.tx.TransactionType = "EscrowFinish" =>
          /\ v.asked.allowExecuteAfter # undefined => time > v.asked.allowExecuteAfter
          /\ v.asked.condition # undefined => v.tx.Fulfillment = "f"
     /\ v.tx.TransactionType = "EscrowCancel" =>
          v.asked.allowCancelAfter # undefined /\ time > v.asked.allowCancelAfter

EscrowInv ==
  /\ closeTime \in Int
  /\ PreparedInv
  /\ escrow # E!None => Keeps(escrow)
  /\ validated # E!None => AsAsked(validated)

(* A time that rounds to one before a second s is before the second s.     *)
LEMMA RoundedBefore ==
  ASSUME NEW time \in Int, NEW s \in Int, E!iso8601ToRippleTime(time) < s
  PROVE  time < E!rippleTimeToISO8601(s)
BY DEF E!iso8601ToRippleTime, E!rippleTimeToISO8601

LEMMA CreationFacts ==
  ASSUME NEW spec \in E!Creations,
         "TransactionType" \in DOMAIN E!createEscrowCreationTransaction(spec)
  PROVE  LET t == E!createEscrowCreationTransaction(spec)
         IN /\ t.TransactionType = "EscrowCreate"
            /\ t.Condition = spec.condition
            /\ t.CancelAfter = E!Optional(spec.allowCancelAfter, E!iso8601ToRippleTime)
            /\ t.FinishAfter = E!Optional(spec.allowExecuteAfter, E!iso8601ToRippleTime)
            /\ t.CancelAfter # undefined /\ t.FinishAfter # undefined =>
                 ~E!Contradicts(spec)
<1>1. E!createEscrowCreationTransaction(spec) # E!ValidationError
  BY DEF E!ValidationError
<1>2. QED
  BY <1>1 DEF E!createEscrowCreationTransaction, E!Optional

(* What accepts a creation, an execution or a cancellation of the ledger.  *)
LEMMA AcceptedFacts ==
  ASSUME EscrowInv, E!Validated
  PROVE  /\ escrow' # E!None => Keeps(escrow')
         /\ AsAsked(validated')
<1> DEFINE t == prepared.tx
           creates == t.TransactionType = "EscrowCreate"
           meaning == IF creates THEN prepared.spec ELSE escrow.asked
<1>1. /\ prepared # E!None /\ "TransactionType" \in DOMAIN t /\ E!Accepts(t)
      /\ escrow' = IF creates THEN [entry |-> t, asked |-> meaning] ELSE E!None
      /\ validated' = [tx |-> t, time |-> closeTime, asked |-> meaning]
  BY DEF E!Validated, E!IsTransaction
<1>2. CASE creates
  <2>1. PICK spec \in E!Creations :
          prepared = [spec |-> spec, tx |-> E!createEscrowCreationTransaction(spec)]
    <3>1. ASSUME NEW spec \in E!Executions,
                 prepared = [spec |-> spec, tx |-> E!createEscrowExecutionTransaction(spec)]
          PROVE  FALSE
      BY <1>1, <1>2, <3>1 DEF E!createEscrowExecutionTransaction, E!ReferenceError
    <3>2. ASSUME NEW spec \in E!Cancellations,
                 prepared = [spec |-> spec, tx |-> E!createEscrowCancellationTransaction(spec)]
          PROVE  FALSE
      BY <1>1, <1>2, <3>2 DEF E!createEscrowCancellationTransaction
    <3>3. QED
      BY <1>1, <3>1, <3>2 DEF EscrowInv, PreparedInv
  <2>2. t = E!createEscrowCreationTransaction(spec) /\ meaning = spec
    BY <1>2, <2>1
  <2>3. Keeps(escrow')
    BY <1>1, <1>2, <2>2, CreationFacts DEF Keeps
  <2>4. AsAsked(validated')
    BY <1>1, <1>2 DEF AsAsked
  <2>5. QED
    BY <2>3, <2>4
<1>3. CASE ~creates
  <2>1. escrow' = E!None /\ meaning = escrow.asked /\ escrow # E!None
    BY <1>1, <1>3 DEF E!Accepts, E!AcceptsExecution, E!AcceptsCancellation, E!Found
  <2>2. PICK spec \in E!Creations :
          /\ escrow.asked = spec
          /\ escrow.entry.Condition = spec.condition
          /\ escrow.entry.CancelAfter
               = E!Optional(spec.allowCancelAfter, E!iso8601ToRippleTime)
          /\ escrow.entry.FinishAfter
               = E!Optional(spec.allowExecuteAfter, E!iso8601ToRippleTime)
    BY <2>1 DEF EscrowInv, Keeps
  <2>3. /\ spec.allowExecuteAfter # undefined => spec.allowExecuteAfter \in Int
        /\ spec.allowCancelAfter # undefined => spec.allowCancelAfter \in Int
    BY NumbersAssumption DEF E!Creations
  <2>4. \A time \in Int : E!iso8601ToRippleTime(time) \in Int
                          /\ E!iso8601ToRippleTime(time) # undefined
    BY NumbersAssumption DEF E!iso8601ToRippleTime
  <2>5. ASSUME t.TransactionType = "EscrowFinish"
        PROVE  /\ meaning.allowExecuteAfter # undefined =>
                    E!rippleTimeToISO8601(closeTime) > meaning.allowExecuteAfter
               /\ meaning.condition # undefined => t.Fulfillment = "f"
    <3>1. E!AcceptsExecution(t)
      BY <1>1, <2>5 DEF E!Accepts
    <3>2. meaning.condition # undefined => t.Fulfillment = "f"
      BY <2>1, <2>2, <3>1 DEF E!AcceptsExecution
    <3>3. ASSUME meaning.allowExecuteAfter # undefined
          PROVE  E!rippleTimeToISO8601(closeTime) > meaning.allowExecuteAfter
      <4>1. spec.allowExecuteAfter \in Int /\ spec.allowExecuteAfter # undefined
        BY <2>1, <2>2, <2>3, <3>3
      <4>2. escrow.entry.FinishAfter = E!iso8601ToRippleTime(spec.allowExecuteAfter)
        BY <2>2, <4>1 DEF E!Optional
      <4>3. E!iso8601ToRippleTime(spec.allowExecuteAfter) < closeTime
        BY <2>4, <3>1, <4>1, <4>2 DEF E!AcceptsExecution
      <4>4. closeTime \in Int
        BY DEF EscrowInv
      <4>5. spec.allowExecuteAfter < E!rippleTimeToISO8601(closeTime)
        BY <4>1, <4>3, <4>4, RoundedBefore
      <4>6. QED
        BY <2>1, <2>2, <4>1, <4>4, <4>5 DEF E!rippleTimeToISO8601
    <3>4. QED
      BY <3>2, <3>3
  <2>6. ASSUME t.TransactionType = "EscrowCancel"
        PROVE  /\ meaning.allowCancelAfter # undefined
               /\ E!rippleTimeToISO8601(closeTime) > meaning.allowCancelAfter
    <3>1. E!AcceptsCancellation(t)
      BY <1>1, <2>6 DEF E!Accepts
    <3>2. spec.allowCancelAfter \in Int /\ spec.allowCancelAfter # undefined
      BY <2>2, <2>3, <3>1 DEF E!AcceptsCancellation, E!Optional
    <3>3. escrow.entry.CancelAfter = E!iso8601ToRippleTime(spec.allowCancelAfter)
      BY <2>2, <3>2 DEF E!Optional
    <3>4. E!iso8601ToRippleTime(spec.allowCancelAfter) < closeTime
      BY <3>1, <3>3 DEF E!AcceptsCancellation
    <3>5. closeTime \in Int
      BY DEF EscrowInv
    <3>6. spec.allowCancelAfter < E!rippleTimeToISO8601(closeTime)
      BY <3>2, <3>4, <3>5, RoundedBefore
    <3>7. QED
      BY <2>1, <2>2, <3>2, <3>5, <3>6 DEF E!rippleTimeToISO8601
  <2>7. AsAsked(validated')
    BY <1>1, <2>5, <2>6 DEF AsAsked
  <2>8. QED
    BY <2>1, <2>7
<1>4. QED
  BY <1>2, <1>3

LEMMA EscrowStep == EscrowInv /\ [Next]_vars => EscrowInv'
<1> SUFFICES ASSUME EscrowInv, [Next]_vars PROVE EscrowInv'
  OBVIOUS
<1>1. ASSUME UNCHANGED escrowVars PROVE EscrowInv'
  BY <1>1 DEF escrowVars, EscrowInv, PreparedInv
<1>2. CASE E!PrepareEscrowCreation \/ E!PrepareEscrowExecution
           \/ E!PrepareEscrowCancellation
  BY <1>2 DEF E!PrepareEscrowCreation, E!PrepareEscrowExecution,
              E!PrepareEscrowCancellation, E!Prepare, EscrowInv, PreparedInv
<1>3. CASE E!Validated
  <2>1. prepared' = E!None /\ UNCHANGED closeTime
    BY <1>3 DEF E!Validated
  <2>2. QED
    BY <1>3, <2>1, AcceptedFacts DEF EscrowInv, PreparedInv
<1>4. CASE E!LedgerCloses
  BY <1>4 DEF E!LedgerCloses, EscrowInv, PreparedInv
<1>5. CASE Hold
  BY <1>2, <1>3, <1>4, <1>5 DEF Hold, E!Next
<1>6. CASE Pay \/ Trade \/ Set \/ Claim
  BY <1>1, <1>6 DEF Pay, Trade, Set, Claim
<1>7. CASE UNCHANGED vars
  BY <1>1, <1>7 DEF vars
<1>8. QED
  BY <1>5, <1>6, <1>7 DEF Next

(* The second part of EscrowAsAsked: rippled takes the two times.          *)
LEMMA TimesInOrder ==
  ASSUME EscrowInv, E!IsTransaction, prepared.tx.TransactionType = "EscrowCreate",
         prepared.tx.CancelAfter # undefined, prepared.tx.FinishAfter # undefined
  PROVE  prepared.tx.FinishAfter < prepared.tx.CancelAfter
<1> DEFINE t == prepared.tx
<1>1. prepared # E!None /\ "TransactionType" \in DOMAIN t
  BY DEF E!IsTransaction
<1>2. PICK spec \in E!Creations :
        prepared = [spec |-> spec, tx |-> E!createEscrowCreationTransaction(spec)]
  <2>1. ASSUME NEW spec \in E!Executions,
               prepared = [spec |-> spec, tx |-> E!createEscrowExecutionTransaction(spec)]
        PROVE  FALSE
    BY <1>1, <2>1 DEF E!createEscrowExecutionTransaction, E!ReferenceError
  <2>2. ASSUME NEW spec \in E!Cancellations,
               prepared = [spec |-> spec, tx |-> E!createEscrowCancellationTransaction(spec)]
        PROVE  FALSE
    BY <1>1, <2>2 DEF E!createEscrowCancellationTransaction
  <2>3. QED
    BY <1>1, <2>1, <2>2 DEF EscrowInv, PreparedInv
<1>3. t = E!createEscrowCreationTransaction(spec)
  BY <1>2
<1>4. /\ ~E!Contradicts(spec)
      /\ t.CancelAfter = E!Optional(spec.allowCancelAfter, E!iso8601ToRippleTime)
      /\ t.FinishAfter = E!Optional(spec.allowExecuteAfter, E!iso8601ToRippleTime)
  BY <1>1, <1>3, CreationFacts
<1>5. /\ spec.allowCancelAfter # undefined /\ spec.allowExecuteAfter # undefined
      /\ t.CancelAfter = E!iso8601ToRippleTime(spec.allowCancelAfter)
      /\ t.FinishAfter = E!iso8601ToRippleTime(spec.allowExecuteAfter)
  BY <1>4 DEF E!Optional
<1>6. spec.allowCancelAfter \in Int /\ spec.allowExecuteAfter \in Int
  BY <1>5, NumbersAssumption DEF E!Creations
<1>7. t.CancelAfter \in Int /\ t.FinishAfter \in Int
  BY <1>5, <1>6 DEF E!iso8601ToRippleTime
<1>8. QED
  BY <1>4, <1>5, <1>7 DEF E!Contradicts

(* No escrow is executed or cancelled before its time, nor executed        *)
(* without its fulfillment, whatever the fractions of the times.           *)
THEOREM EscrowsAsAsked == Spec => []EscrowAsAsked
<1>1. Init => EscrowInv
  <2>1. Init => closeTime = 1 /\ prepared = E!None /\ escrow = E!None
                /\ validated = E!None
    BY DEF Init, E!Init
  <2>2. QED
    BY <2>1 DEF EscrowInv, PreparedInv
<1>2. EscrowInv => EscrowAsAsked
  <2> SUFFICES ASSUME EscrowInv PROVE E!EscrowAsAsked
    BY DEF EscrowAsAsked
  <2>1. validated # E!None => AsAsked(validated)
    BY DEF EscrowInv
  <2>2. QED
    BY <2>1, TimesInOrder DEF E!EscrowAsAsked, AsAsked
<1>3. QED
  BY <1>1, <1>2, EscrowStep, PTL DEF Spec

(* -------------------------------- Claims ------------------------------- *)

(* The payer has one key, and signs for whole drops.                       *)
ClaimInv ==
  /\ channel # C!None =>
       "PublicKey" \in DOMAIN channel /\ channel.PublicKey = C!Key
  /\ signed # C!None =>
       \E amount \in ChannelAmounts :
         signed = [amount |-> amount,
                   signature |-> C!signPaymentChannelClaim(amount, C!Key)]

LEMMA ClaimStep == ClaimInv /\ [Next]_vars => ClaimInv'
<1> SUFFICES ASSUME ClaimInv, [Next]_vars PROVE ClaimInv'
  OBVIOUS
<1>1. ASSUME UNCHANGED channelVars PROVE ClaimInv'
  BY <1>1 DEF channelVars, ClaimInv
<1>2. CASE C!Creates
  <2>1. PICK amount \in ChannelAmounts, cancelAfter \in {undefined} \cup ChannelTimes :
          C!IncludeCreate([amount |-> amount, destination |-> "payee",
                           settleDelay |-> 1, publicKey |-> C!Key,
                           cancelAfter |-> cancelAfter])
    BY <1>2 DEF C!Creates
  <2>2. UNCHANGED signed /\ "PublicKey" \in DOMAIN channel' /\ channel'.PublicKey = C!Key
    BY <2>1 DEF C!IncludeCreate, C!Include, C!createPaymentChannelCreateTransaction
  <2>3. QED
    BY <2>2 DEF ClaimInv
<1>3. CASE C!Funds
  <2>1. PICK amount \in ChannelAmounts, expiration \in {undefined} \cup ChannelTimes :
          C!IncludeFund([amount |-> amount, expiration |-> expiration])
    BY <1>3 DEF C!Funds
  <2>2. UNCHANGED signed /\ channel # C!None
        /\ (channel' = C!None
            \/ \E a, e : channel' = [channel EXCEPT !.Amount = a, !.Expiration = e])
    BY <2>1 DEF C!IncludeFund, C!Include
  <2>3. QED
    BY <2>2 DEF ClaimInv
<1>4. CASE C!ClaimsSome
  <2>1. PICK by \in C!Parties, spec \in C!Claims : C!IncludeClaim(by, spec)
    BY <1>4 DEF C!ClaimsSome
  <2> DEFINE u == C!createPaymentChannelClaimTransaction(spec)
             node == [channel EXCEPT !.Balance = C!Or(u.Balance, @),
                                     !.Expiration = IF C!claimFlags.Renew \in u.Flags
                                                    THEN undefined ELSE @]
             end == C!Earlier(node.Expiration, closed + channel.SettleDelay)
  <2>2. /\ UNCHANGED signed /\ channel # C!None
        /\ channel' \in {C!None, node, [node EXCEPT !.Expiration = end]}
    BY <2>1 DEF C!IncludeClaim, C!Include, C!AcceptsClaim
  <2>3. "PublicKey" \in DOMAIN channel /\ channel.PublicKey = C!Key
    BY <2>2 DEF ClaimInv
  <2>4. "PublicKey" \in DOMAIN node /\ node.PublicKey = C!Key
    BY <2>3
  <2> HIDE DEF node, end
  <2>5. channel' # C!None => "PublicKey" \in DOMAIN channel' /\ channel'.PublicKey = C!Key
    BY <2>2, <2>4
  <2>6. QED
    BY <2>2, <2>5 DEF ClaimInv
<1>5. CASE C!Signs
  BY <1>5 DEF C!Signs, ClaimInv
<1>6. CASE C!LedgerCloses
  BY <1>6 DEF C!LedgerCloses, ClaimInv
<1>7. CASE Claim
  BY <1>2, <1>3, <1>4, <1>5, <1>6, <1>7 DEF Claim, C!Next
<1>8. CASE Pay \/ Trade \/ Set \/ Hold
  BY <1>1, <1>8 DEF Pay, Trade, Set, Hold
<1>9. CASE UNCHANGED vars
  BY <1>1, <1>9 DEF vars
<1>10. QED
  BY <1>7, <1>8, <1>9 DEF Next

(* A claim that is signed for an amount with a fraction of a drop is of no *)
(* more than that, and the ledger takes what prepare makes of it.          *)
THEOREM ClaimsAreHonoured == Spec => []ClaimsHonoured
<1>1. Init => ClaimInv
  <2>1. Init => channel = C!None /\ signed = C!None
    BY DEF Init, C!Init
  <2>2. QED
    BY <2>1 DEF ClaimInv
<1>2. ClaimInv => ClaimsHonoured
  <2> SUFFICES ASSUME ClaimInv, signed # C!None PROVE C!ClaimsHonoured
    BY DEF ClaimsHonoured, C!ClaimsHonoured
  <2>1. PICK amount \in ChannelAmounts :
          signed = [amount |-> amount,
                    signature |-> C!signPaymentChannelClaim(amount, C!Key)]
    BY DEF ClaimInv
  <2> DEFINE drops == C!xrpToDrops(amount)
             spec == [balance |-> signed.amount, amount |-> signed.amount,
                      signature |-> signed.signature, publicKey |-> C!Key,
                      options |-> {}]
             t == C!createPaymentChannelClaimTransaction(spec)
  <2>2. amount \in Int /\ amount # undefined /\ drops \in Int /\ drops # undefined
    BY NumbersAssumption DEF C!xrpToDrops, C!Tenths
  <2>3. /\ signed.amount = amount
        /\ signed.signature = [drops |-> drops, key |-> C!Key]
    BY <2>1 DEF C!signPaymentChannelClaim, C!encodeForSigningClaim
  <2>4. signed.signature # undefined /\ C!Key # undefined
    BY <2>2, <2>3, KeysAssumption DEF C!Key
  <2>5. /\ t.Balance = drops /\ t.Amount = drops
        /\ t.Signature = signed.signature /\ t.Flags = {}
    <3>1. ~((spec.signature = undefined) # (spec.publicKey = undefined))
      BY <2>4
    <3>2. /\ ~({"renew", "close"} \subseteq spec.options)
          /\ "renew" \notin spec.options /\ "close" \notin spec.options
      OBVIOUS
    <3>3. t = [TransactionType |-> "PaymentChannelClaim",
               Balance |-> C!Optional(spec.balance, C!xrpToDrops),
               Amount |-> C!Optional(spec.amount, C!xrpToDrops),
               Signature |-> spec.signature, PublicKey |-> spec.publicKey,
               Flags |-> C!Flag("renew" \in spec.options, C!claimFlags.Renew)
                           \cup C!Flag("close" \in spec.options, C!claimFlags.Close)]
      BY <3>1, <3>2, Zenon DEF C!createPaymentChannelClaimTransaction
    <3>4. C!Optional(spec.balance, C!xrpToDrops) = drops
          /\ C!Optional(spec.amount, C!xrpToDrops) = drops
      BY <2>2, <2>3 DEF C!Optional
    <3>5. \A bit : C!Flag("renew" \in spec.options, bit) = {}
                   /\ C!Flag("close" \in spec.options, bit) = {}
      BY <3>2 DEF C!Flag
    <3> HIDE DEF t, drops
    <3>6. t.Flags = {}
      BY <3>3, <3>5
    <3>7. QED
      BY <2>3, <3>3, <3>4, <3>6
  <2>6. C!dropsToXrp(drops) <= amount
    BY <2>2 DEF C!dropsToXrp, C!xrpToDrops, C!Tenths
  <2>7. C!verifyPaymentChannelClaim(signed.amount, signed.signature, C!Key)
    BY <2>3 DEF C!verifyPaymentChannelClaim, C!encodeForSigningClaim
  <2>8. ASSUME channel # C!None, channel.Balance < t.Balance, t.Balance <= channel.Amount
        PROVE  C!AcceptsClaim("payee", t)
    <3>1. C!Or(t.Amount, t.Balance) = drops
      BY <2>2, <2>5 DEF C!Or
    <3>2. t.Signature = C!encodeForSigningClaim(drops, channel.PublicKey)
      BY <2>3, <2>5, <2>8 DEF ClaimInv, C!encodeForSigningClaim
    <3>3. t.Balance <= t.Amount /\ t.Balance > channel.Balance
      BY <2>2, <2>5, <2>8
    <3>4. QED
      BY <2>4, <2>5, <2>8, <3>1, <3>2, <3>3 DEF C!AcceptsClaim
  <2>9. QED
    BY <2>3, <2>6, <2>7, <2>8 DEF C!ClaimsHonoured
<1>3. QED
  BY <1>1, <1>2, ClaimStep, PTL DEF Spec

(* ------------------------------- Amounts ------------------------------- *)

LEMMA ParsedFacts ==
  ASSUME NEW x \in RippledAmounts
  PROVE  /\ P!parseAmount(x) \in GivenAmounts
         /\ P!isDrops(x) => /\ x \in [drops : Int]
                            /\ P!parseAmount(x) = [currency |-> "XRP", value |-> 10 * x.drops,
                                                   counterparty |-> undefined]
         /\ ~P!isDrops(x) => /\ x \in [currency : {"USD"}, issuer : Accounts, value : Int]
                             /\ P!parseAmount(x) = [currency |-> "USD", value |-> x.value,
                                                    counterparty |-> x.issuer]
<1>1. CASE x \in [drops : Int]
  <2>1. P!isDrops(x) /\ x.drops \in Int
    BY <1>1 DEF P!isDrops
  <2>2. P!parseAmount(x) = [currency |-> "XRP", value |-> 10 * x.drops, counterparty |-> undefined]
    BY <2>1 DEF P!parseAmount, P!Amount, P!dropsToXrp, P!Tenths
  <2> QED
    BY <1>1, <2>1, <2>2 DEF GivenAmounts
<1>2. CASE x \in [currency : {"USD"}, issuer : Accounts, value : Int]
  <2>1. ~P!isDrops(x) /\ x.currency = "USD" /\ x.issuer \in Accounts /\ x.value \in Int
    BY <1>2 DEF P!isDrops
  <2>2. P!parseAmount(x) = [currency |-> "USD", value |-> x.value, counterparty |-> x.issuer]
    BY <2>1 DEF P!parseAmount, P!Amount
  <2> QED
    BY <1>2, <2>1, <2>2 DEF GivenAmounts
<1> QED
  BY <1>1, <1>2 DEF RippledAmounts

(* The counterparty that a read leaves out is the one that prepare puts in *)
(* again.                                                                  *)
LEMMA ReencodedFacts ==
  ASSUME NEW x \in RippledAmounts, NEW address \in Accounts
  PROVE  LET given == P!removeGenericCounterparty(P!parseAmount(x), address)
             again == P!Encoded(given, address)
         IN /\ given \in GivenAmounts /\ given # undefined
            /\ again \in GivenAmounts /\ again # undefined
            /\ P!toRippledAmount(again) = x
            /\ again.currency = "XRP" <=> P!isDrops(x)
<1> DEFINE parsed == P!parseAmount(x)
           given == P!removeGenericCounterparty(parsed, address)
           again == P!Encoded(given, address)
<1>0. undefined \notin Accounts /\ undefined \notin GivenAmounts
  BY AbsentAssumption
<1>1. CASE P!isDrops(x)
  <2>1. x \in [drops : Int] /\ x.drops \in Int
        /\ parsed = [currency |-> "XRP", value |-> 10 * x.drops, counterparty |-> undefined]
    BY <1>1, ParsedFacts
  <2> HIDE DEF parsed
  <2>2. given = parsed
    BY <2>1 DEF P!removeGenericCounterparty
  <2>3. again = parsed
    BY <2>1, <2>2 DEF P!Encoded, P!isIOUWithoutCounterparty
  <2>4. P!xrpToDrops(10 * x.drops) = x.drops
    BY <2>1 DEF P!xrpToDrops, P!Tenths
  <2>5. P!toRippledAmount(parsed) = [drops |-> x.drops]
    BY <2>1, <2>4 DEF P!toRippledAmount, P!Drops
  <2>6. parsed \in GivenAmounts /\ parsed # undefined /\ parsed.currency = "XRP"
    BY <1>0, <2>1 DEF GivenAmounts
  <2>7. x = [drops |-> x.drops]
    BY <2>1
  <2> HIDE DEF given, again
  <2> QED
    BY <1>1, <2>2, <2>3, <2>5, <2>6, <2>7 DEF parsed, given, again
<1>2. CASE ~P!isDrops(x)
  <2>1. /\ x \in [currency : {"USD"}, issuer : Accounts, value : Int]
        /\ x.value \in Int /\ x.issuer \in Accounts
        /\ parsed = [currency |-> "USD", value |-> x.value, counterparty |-> x.issuer]
    BY <1>2, ParsedFacts
  <2> HIDE DEF parsed
  <2>2. given = [currency |-> "USD", value |-> x.value,
                 counterparty |-> IF x.issuer = address THEN undefined ELSE x.issuer]
    BY <2>1 DEF P!removeGenericCounterparty
  <2>3. given \in GivenAmounts /\ given # undefined
    BY <1>0, <2>1, <2>2 DEF GivenAmounts
  <2> HIDE DEF given
  <2>4. again = parsed
    BY <1>0, <2>1, <2>2, <2>3 DEF P!Encoded, P!isIOUWithoutCounterparty
  <2>5. parsed \in GivenAmounts /\ parsed # undefined /\ parsed.currency = "USD"
    BY <1>0, <2>1 DEF GivenAmounts
  <2>6. P!toRippledAmount(parsed) = [currency |-> "USD", issuer |-> x.issuer, value |-> x.value]
    BY <2>1 DEF P!toRippledAmount
  <2>7. x = [currency |-> "USD", issuer |-> x.issuer, value |-> x.value]
    BY <2>1
  <2> HIDE DEF again
  <2> QED
    BY <1>2, <2>3, <2>4, <2>5, <2>6, <2>7 DEF parsed, given, again
<1> QED
  BY <1>1, <1>2

(* ------------------------------ Requests ------------------------------- *)

LEMMA AskedAmounts ==
  /\ P!XrpAmounts \subseteq GivenAmounts
  /\ \A address \in Accounts : P!IssuedAmounts(address) \subseteq GivenAmounts
  /\ \A a \in P!XrpAmounts : a.currency = "XRP" /\ a.value \in Nat
  /\ \A address \in Accounts : \A a \in P!IssuedAmounts(address) : a.currency = "USD"
<1> USE AbsentAssumption, PaymentsAssumption
<1>1. \A a \in P!XrpAmounts : a \in GivenAmounts /\ a.currency = "XRP" /\ a.value \in Nat
  BY DEF P!XrpAmounts, P!Amount, GivenAmounts
<1>2. ASSUME NEW address \in Accounts, NEW a \in P!IssuedAmounts(address)
      PROVE  a \in GivenAmounts /\ a.currency = "USD"
  <2>1. PICK v \in IssuedValues, c \in {undefined, address, Gateway} :
          a = [currency |-> "USD", value |-> v, counterparty |-> c]
    BY DEF P!IssuedAmounts, P!Amount
  <2>2. v \in Int /\ c \in {undefined} \cup Accounts
    BY DEF Accounts
  <2> QED
    BY <2>1, <2>2 DEF GivenAmounts
<1> QED
  BY <1>1, <1>2

LEMMA IssuerGiven ==
  ASSUME NEW a \in GivenAmounts, NEW address \in Accounts
  PROVE  LET x == P!WithIssuer(P!toRippledAmount(a), address)
         IN /\ x \in RippledAmounts
            /\ P!isDrops(x) <=> a.currency = "XRP"
            /\ a.currency = "XRP" => x.drops = a.value \div 10
            /\ a.currency # "XRP" => x.value = a.value
<1>0. a.value \in Int /\ a.currency \in {"XRP", "USD"} /\ a.counterparty \in {undefined} \cup Accounts
  BY DEF GivenAmounts
<1>1. CASE a.currency = "XRP"
  <2>1. P!toRippledAmount(a) = [drops |-> a.value \div 10] /\ a.value \div 10 \in Int
    BY <1>0, <1>1 DEF P!toRippledAmount, P!Drops, P!xrpToDrops, P!Tenths
  <2> DEFINE x == [drops |-> a.value \div 10]
  <2>2. P!isDrops(x) /\ x \in RippledAmounts
    BY <2>1 DEF P!isDrops, RippledAmounts
  <2>3. P!WithIssuer(x, address) = x
    BY <2>2 DEF P!WithIssuer
  <2> QED
    BY <1>1, <2>1, <2>2, <2>3
<1>2. CASE a.currency # "XRP"
  <2> DEFINE x == [currency |-> "USD", issuer |-> a.counterparty, value |-> a.value]
             y == P!WithIssuer(x, address)
  <2>1. P!toRippledAmount(a) = x
    BY <1>0, <1>2 DEF P!toRippledAmount
  <2>2. ~P!isDrops(x)
    BY DEF P!isDrops
  <2>3. y = [currency |-> "USD", value |-> a.value,
             issuer |-> IF a.counterparty = undefined THEN address ELSE a.counterparty]
    BY <2>2 DEF P!WithIssuer
  <2>4. y \in RippledAmounts /\ ~P!isDrops(y) /\ y.value = a.value
    BY <1>0, <2>3 DEF P!isDrops, RippledAmounts
  <2> QED
    BY <1>2, <2>1, <2>4
<1> QED
  BY <1>1, <1>2

(* What the request of getPaths has.                                       *)
LEMMA RequestFacts ==
  ASSUME NEW pathfind \in P!Pathfinds
  PROVE  LET r == P!RequestOf(pathfind)
             given == pathfind.source.amount
         IN /\ r.source_account = Payer /\ r.destination_account = Payee
            /\ r.destination_amount \in RippledAmounts
            /\ given = undefined => r.send_max = undefined
            /\ given # undefined => r.send_max \in RippledAmounts
            /\ r.send_max \in RippledAmounts /\ ~P!isDrops(r.send_max) =>
                 r.send_max.value = given.value
            /\ given = undefined /\ P!isDrops(r.destination_amount) =>
                 r.destination_amount.drops \in Nat
<1> USE AbsentAssumption, PaymentsAssumption
<1> DEFINE r == P!RequestOf(pathfind)
           from == pathfind.source
           to == pathfind.destination
<1>1. /\ from.address = Payer /\ to.address = Payee
      /\ from.amount = undefined \/ from.amount \in GivenAmounts
      /\ from.amount = undefined => to.amount.value # undefined
      /\ \E a \in P!XrpAmounts \cup P!IssuedAmounts(Payee) :
           to.amount = a \/ to.amount = [a EXCEPT !.value = undefined]
  <2>1. Payer \in Accounts /\ Payee \in Accounts
    BY DEF Accounts
  <2>2. /\ from.address = Payer /\ to.address = Payee
        /\ from.amount \in {undefined} \cup P!XrpAmounts \cup P!IssuedAmounts(Payer)
        /\ from.amount = undefined => to.amount.value # undefined
        /\ to.amount \in UNION {{a, [a EXCEPT !.value = undefined]} :
                                  a \in P!XrpAmounts \cup P!IssuedAmounts(Payee)}
    BY DEF P!Pathfinds
  <2> HIDE DEF from, to
  <2>3. from.amount = undefined \/ from.amount \in GivenAmounts
    BY <2>1, <2>2, AskedAmounts
  <2>4. \E a \in P!XrpAmounts \cup P!IssuedAmounts(Payee) :
           to.amount = a \/ to.amount = [a EXCEPT !.value = undefined]
    BY <2>2
  <2> QED
    BY <2>2, <2>3, <2>4
<1>2. /\ r.source_account = from.address /\ r.destination_account = to.address
      /\ r.destination_amount
           = P!WithIssuer(P!toRippledAmount(P!Asked(to.amount)), to.address)
      /\ r.send_max = IF from.amount = undefined THEN undefined
                      ELSE P!WithIssuer(P!toRippledAmount(from.amount), from.address)
  BY DEF P!RequestOf
<1> HIDE DEF r, from, to
<1>3. PICK a \in P!XrpAmounts \cup P!IssuedAmounts(Payee) :
        to.amount = a \/ to.amount = [a EXCEPT !.value = undefined]
  BY <1>1
<1>4. a \in GivenAmounts /\ (a.currency = "XRP" => a.value \in Nat)
      /\ Payer \in Accounts /\ Payee \in Accounts
  <2>1. Payee \in Accounts /\ Payer \in Accounts
    BY DEF Accounts
  <2> QED
    BY <2>1, <1>3, AskedAmounts
<1> DEFINE wanted == P!Asked(to.amount)
<1>5. /\ wanted \in GivenAmounts
      /\ to.amount.value # undefined /\ wanted.currency = "XRP" => wanted.value \in Nat
  <2>1. /\ a.value \in Int /\ a.currency \in {"XRP", "USD"}
        /\ a.counterparty \in {undefined} \cup Accounts
        /\ a = [currency |-> a.currency, value |-> a.value, counterparty |-> a.counterparty]
    BY <1>4 DEF GivenAmounts
  <2>2. to.amount.currency = a.currency /\ to.amount.counterparty = a.counterparty
        /\ to.amount.value \in {a.value, undefined}
        /\ to.amount = [currency |-> a.currency, value |-> to.amount.value,
                        counterparty |-> a.counterparty]
    BY <1>3, <2>1
  <2>3. wanted = [currency |-> a.currency, counterparty |-> a.counterparty,
                 value |-> IF to.amount.value # undefined THEN to.amount.value
                           ELSE IF a.currency = "XRP" THEN -(10 * DropsPerXrp) ELSE -1]
    BY <2>2 DEF P!Asked, P!Tenths
  <2>4. -(10 * DropsPerXrp) \in Int /\ -1 \in Int
    OBVIOUS
  <2>5. wanted.value \in Int /\ (to.amount.value # undefined => wanted.value = a.value)
    BY <2>1, <2>2, <2>3, <2>4
  <2>6. wanted = [currency |-> a.currency, counterparty |-> a.counterparty, value |-> wanted.value]
    BY <2>3
  <2> HIDE DEF wanted
  <2>7. wanted \in GivenAmounts
    BY <2>1, <2>5, <2>6 DEF GivenAmounts
  <2>8. wanted.currency = a.currency
    BY <2>6
  <2> QED
    BY <1>4, <2>5, <2>7, <2>8
<1> HIDE DEF wanted
<1>6. /\ r.destination_amount \in RippledAmounts
      /\ P!isDrops(r.destination_amount) => /\ wanted.currency = "XRP"
                                            /\ r.destination_amount.drops = wanted.value \div 10
  BY <1>1, <1>2, <1>4, <1>5, IssuerGiven DEF wanted
<1>7. ASSUME from.amount # undefined
      PROVE  /\ r.send_max \in RippledAmounts
             /\ ~P!isDrops(r.send_max) => r.send_max.value = from.amount.value
  BY <1>1, <1>2, <1>4, <1>7, IssuerGiven
<1>8. ASSUME from.amount = undefined, P!isDrops(r.destination_amount)
      PROVE  r.destination_amount.drops \in Nat
  <2>1. wanted.value \in Nat /\ r.destination_amount.drops = wanted.value \div 10
    BY <1>1, <1>5, <1>6, <1>8
  <2> QED
    BY <2>1
<1>9. from.amount = undefined => r.send_max = undefined
  BY <1>2
<1>10. r.source_account = Payer /\ r.destination_account = Payee
  BY <1>1, <1>2
<1>11. undefined \notin RippledAmounts
  OBVIOUS
<1> QED
  BY <1>6, <1>7, <1>8, <1>9, <1>10, <1>11 DEF r, from

(* ----------------------------- Alternatives ---------------------------- *)

Texts == {<<>>, <<<<[account |-> Gateway]>>>>}

(* What a server tells of a path.                                          *)
LEMMA AlternativeFacts ==
  ASSUME NEW pathfind \in P!Pathfinds, NEW a \in P!Alternatives(P!RequestOf(pathfind))
  PROVE  LET r == P!RequestOf(pathfind)
         IN /\ a.source_amount \in RippledAmounts
            /\ r.send_max = undefined => a.destination_amount = undefined
            /\ r.send_max # undefined => a.destination_amount \in RippledAmounts
            /\ ~(P!isDrops(a.source_amount) /\ P!isDrops(r.destination_amount))
            /\ r.send_max # undefined /\ P!isDrops(a.destination_amount) =>
                 P!isDrops(r.destination_amount)
            /\ P!parsePaths(a.paths_computed) \in Texts
            /\ r.send_max # undefined /\ ~P!isDrops(a.source_amount)
                 /\ a.source_amount.value = pathfind.source.amount.value =>
                 a.source_amount = r.send_max
<1> DEFINE r == P!RequestOf(pathfind)
           given == pathfind.source.amount
<1>1. /\ r.source_account = Payer /\ r.destination_account = Payee
      /\ r.destination_amount \in RippledAmounts
      /\ given = undefined => r.send_max = undefined
      /\ given # undefined => r.send_max \in RippledAmounts
      /\ r.send_max \in RippledAmounts /\ ~P!isDrops(r.send_max) =>
           r.send_max.value = given.value
  BY RequestFacts
<1>2. /\ a.source_amount \in P!Sources(r)
      /\ a.destination_amount \in
           IF r.send_max = undefined THEN {undefined}
           ELSE IF P!isDrops(r.destination_amount) THEN {P!Drops(3)}
           ELSE {[r.destination_amount EXCEPT !.value = 3]}
      /\ a.paths_computed \in {<<>>, <<<<[account |-> Gateway, type |-> 1]>>>>}
      /\ ~(P!isDrops(a.source_amount) /\ P!isDrops(r.destination_amount))
  BY DEF P!Alternatives
<1> HIDE DEF r, given
<1>3. \A x \in RippledAmounts : P!isDrops(x) => x \in [drops : Int]
  BY ParsedFacts
<1>4. \A x \in RippledAmounts, v \in Int : ~P!isDrops(x) =>
        /\ [x EXCEPT !.value = v] \in RippledAmounts
        /\ ~P!isDrops([x EXCEPT !.value = v])
        /\ [x EXCEPT !.value = v].value = v
        /\ x.value = v => [x EXCEPT !.value = v] = x
  <2> SUFFICES ASSUME NEW x \in RippledAmounts, NEW v \in Int, ~P!isDrops(x)
               PROVE  /\ [x EXCEPT !.value = v] \in RippledAmounts
                      /\ ~P!isDrops([x EXCEPT !.value = v])
                      /\ [x EXCEPT !.value = v].value = v
                      /\ x.value = v => [x EXCEPT !.value = v] = x
    OBVIOUS
  <2>1. x \in [currency : {"USD"}, issuer : Accounts, value : Int]
    BY ParsedFacts
  <2> QED
    BY <2>1 DEF RippledAmounts, P!isDrops
<1>5. \A n \in Int : P!Drops(n) \in RippledAmounts /\ P!isDrops(P!Drops(n))
  BY DEF P!Drops, P!isDrops, RippledAmounts
<1> DEFINE Goal ==
             /\ a.source_amount \in RippledAmounts
             /\ r.send_max = undefined => a.destination_amount = undefined
             /\ r.send_max # undefined => a.destination_amount \in RippledAmounts
             /\ r.send_max # undefined /\ P!isDrops(a.destination_amount) =>
                  P!isDrops(r.destination_amount)
             /\ r.send_max # undefined /\ ~P!isDrops(a.source_amount)
                  /\ a.source_amount.value = given.value => a.source_amount = r.send_max
<1>6. ASSUME r.send_max = undefined PROVE Goal
  <2>1. a.source_amount \in
          {[currency |-> "USD", issuer |-> i, value |-> v] :
             i \in {Gateway, Payer}, v \in IssuedValues} \cup {P!Drops(2)}
    BY <1>1, <1>2, <1>6 DEF P!Sources
  <2>2. a.source_amount \in RippledAmounts
    <3>1. CASE a.source_amount = P!Drops(2)
      BY <1>5, <3>1
    <3>2. ASSUME NEW i \in {Gateway, Payer}, NEW v \in IssuedValues,
                 a.source_amount = [currency |-> "USD", issuer |-> i, value |-> v]
          PROVE  a.source_amount \in RippledAmounts
      BY <3>2, PaymentsAssumption DEF RippledAmounts, Accounts
    <3> QED
      BY <2>1, <3>1, <3>2
  <2>3. a.destination_amount = undefined
    BY <1>2, <1>6
  <2> QED
    BY <1>6, <2>2, <2>3
<1>7. ASSUME r.send_max # undefined PROVE Goal
  <2>1. r.send_max \in RippledAmounts
    BY <1>1, <1>7
  <2>2. a.source_amount \in {r.send_max} \cup IF P!isDrops(r.send_max) THEN {P!Drops(1)}
                                             ELSE {[r.send_max EXCEPT !.value = 1]}
    BY <1>2, <1>7 DEF P!Sources
  <2>3. a.source_amount \in RippledAmounts
    BY <1>4, <1>5, <2>1, <2>2
  <2>4. a.destination_amount \in RippledAmounts
        /\ (P!isDrops(a.destination_amount) => P!isDrops(r.destination_amount))
    <3>1. CASE P!isDrops(r.destination_amount)
      <4>1. a.destination_amount = P!Drops(3)
        BY <1>2, <1>7, <3>1
      <4> QED
        BY <1>5, <3>1, <4>1
    <3>2. CASE ~P!isDrops(r.destination_amount)
      <4>1. a.destination_amount = [r.destination_amount EXCEPT !.value = 3]
        BY <1>2, <1>7, <3>2
      <4> QED
        BY <1>1, <1>4, <3>2, <4>1
    <3> QED
      BY <3>1, <3>2
  <2>5. ASSUME ~P!isDrops(a.source_amount), a.source_amount.value = given.value
        PROVE  a.source_amount = r.send_max
    <3>1. CASE P!isDrops(r.send_max)
      BY <1>5, <2>2, <2>5, <3>1
    <3>2. CASE ~P!isDrops(r.send_max)
      <4>1. r.send_max.value = given.value
        BY <1>1, <2>1, <3>2
      <4>2. CASE a.source_amount = [r.send_max EXCEPT !.value = 1]
        <5>1. a.source_amount.value = 1
          BY <1>4, <2>1, <3>2, <4>2
        <5>2. r.send_max.value = 1
          BY <2>5, <4>1, <5>1
        <5> QED
          BY <1>4, <2>1, <3>2, <4>2, <5>2
      <4>3. CASE a.source_amount = r.send_max
        BY <4>3
      <4>4. a.source_amount \in {r.send_max} \cup {[r.send_max EXCEPT !.value = 1]}
        BY <2>2, <3>2
      <4> QED
        BY <4>2, <4>3, <4>4
    <3> QED
      BY <3>1, <3>2
  <2> QED
    BY <1>7, <2>3, <2>4, <2>5
<1>8. P!parsePaths(a.paths_computed) \in Texts
  <2>1. CASE a.paths_computed = <<>>
    BY <2>1 DEF P!parsePaths, Texts
  <2>2. CASE a.paths_computed = <<<<[account |-> Gateway, type |-> 1]>>>>
    BY <2>2 DEF P!parsePaths, Texts
  <2> QED
    BY <1>2, <2>1, <2>2
<1> QED
  BY <1>2, <1>6, <1>7, <1>8 DEF r, given

(* ------------------------- What is prepared ---------------------------- *)

MaybeGiven == {undefined} \cup GivenAmounts

(* The payments that can be asked for: of one amount on either side.       *)
Payables ==
  {p \in [source : [address : {Payer}, tag : {undefined}, amount : MaybeGiven,
                    maxAmount : MaybeGiven],
          destination : [address : {Payee}, tag : {undefined, 0}, amount : MaybeGiven,
                         minAmount : MaybeGiven],
          paths : {undefined} \cup [text : Texts], invoiceID : {undefined},
          options : SUBSET {"allowPartialPayment", "noDirectRipple", "limitQuality"}] :
     /\ (p.source.amount = undefined) # (p.source.maxAmount = undefined)
     /\ (p.destination.amount = undefined) # (p.destination.minAmount = undefined)}

(* createPaymentTransaction, of the encoded amounts.                       *)
Transaction(p, sa, sm, da, dm) ==
  LET xrp == P!Or(sm, sa).currency = "XRP" /\ P!Or(da, dm).currency = "XRP"
      partial == "allowPartialPayment" \in p.options
  IN IF (sm # undefined /\ dm # undefined) \/ (sa # undefined /\ da # undefined) \/ (xrp /\ partial)
     THEN P!ValidationError
     ELSE [TransactionType |-> "Payment", Account |-> Payer, Destination |-> Payee,
           Amount |-> P!toRippledAmount(IF dm # undefined /\ ~xrp
                                        THEN P!createMaximalAmount(dm) ELSE P!Or(da, dm)),
           InvoiceID |-> p.invoiceID, SourceTag |-> p.source.tag,
           DestinationTag |-> p.destination.tag,
           Flags |-> P!Flag("noDirectRipple" \in p.options, 16)
                       \cup P!Flag("limitQuality" \in p.options, 18)
                       \cup P!Flag(~xrp /\ (partial \/ dm # undefined), 17),
           SendMax |-> IF xrp THEN undefined ELSE P!toRippledAmount(P!Or(sm, sa)),
           DeliverMin |-> IF xrp \/ dm = undefined THEN undefined ELSE P!toRippledAmount(dm),
           Paths |-> IF xrp THEN undefined ELSE P!JSONparse(p.paths)]

LEMMA CreateFacts ==
  ASSUME NEW p \in Payables, NEW address
  PROVE  LET sa == P!Encoded(p.source.amount, Payer)
             sm == P!Encoded(p.source.maxAmount, Payer)
             da == P!Encoded(p.destination.amount, Payee)
             dm == P!Encoded(p.destination.minAmount, Payee)
         IN P!createPaymentTransaction(address, p)
              = IF address # Payer THEN P!ValidationError ELSE Transaction(p, sa, sm, da, dm)
<1> DEFINE e == P!applyAnyCounterpartyEncoding(p)
           sa == P!Encoded(p.source.amount, Payer)
           sm == P!Encoded(p.source.maxAmount, Payer)
           da == P!Encoded(p.destination.amount, Payee)
           dm == P!Encoded(p.destination.minAmount, Payee)
<1>1. /\ p.source \in [address : {Payer}, tag : {undefined}, amount : MaybeGiven,
                       maxAmount : MaybeGiven]
      /\ p.destination \in [address : {Payee}, tag : {undefined, 0}, amount : MaybeGiven,
                            minAmount : MaybeGiven]
      /\ p \in [source : [address : {Payer}, tag : {undefined}, amount : MaybeGiven,
                    maxAmount : MaybeGiven],
          destination : [address : {Payee}, tag : {undefined, 0}, amount : MaybeGiven,
                         minAmount : MaybeGiven],
          paths : {undefined} \cup [text : Texts], invoiceID : {undefined},
          options : SUBSET {"allowPartialPayment", "noDirectRipple", "limitQuality"}]
  BY DEF Payables
<1>2. p.source.address = Payer /\ p.destination.address = Payee
  BY <1>1
<1>3. /\ e.source.address = Payer /\ e.destination.address = Payee
      /\ e.source.amount = sa /\ e.source.maxAmount = sm
      /\ e.destination.amount = da /\ e.destination.minAmount = dm
      /\ e.source.tag = p.source.tag /\ e.destination.tag = p.destination.tag
      /\ e.paths = p.paths /\ e.invoiceID = p.invoiceID /\ e.options = p.options
  <2> HIDE DEF sa, sm, da, dm
  <2> QED
    BY <1>1, <1>2 DEF P!applyAnyCounterpartyEncoding, sa, sm, da, dm
<1>4. P!PaymentFlags.NoRippleDirect = 16 /\ P!PaymentFlags.PartialPayment = 17
      /\ P!PaymentFlags.LimitQuality = 18
  BY DEF P!PaymentFlags
<1> HIDE DEF sa, sm, da, dm, e
<1>5. P!isXRPToXRPPayment(e)
        = (P!Or(sm, sa).currency = "XRP" /\ P!Or(da, dm).currency = "XRP")
  BY <1>3 DEF P!isXRPToXRPPayment
<1>6. CASE address # Payer
  BY <1>3, <1>6 DEF P!createPaymentTransaction, e
<1>7. CASE address = Payer
  <2>1. P!createPaymentTransaction(address, p) = Transaction(p, sa, sm, da, dm)
    BY <1>3, <1>4, <1>5, <1>7, Zenon DEF P!createPaymentTransaction, Transaction, e
  <2> QED
    BY <1>7, <2>1 DEF sa, sm, da, dm
<1> QED
  BY <1>6, <1>7

LEMMA NothingEncoded == \A address : P!Encoded(undefined, address) = undefined
BY DEF P!Encoded, P!isIOUWithoutCounterparty

LEMMA EncodedFacts ==
  ASSUME NEW a \in GivenAmounts, NEW address \in Accounts
  PROVE  LET e == P!Encoded(a, address)
             most == P!createMaximalAmount(e)
         IN /\ e \in GivenAmounts /\ e # undefined
            /\ P!toRippledAmount(e) \in RippledAmounts
            /\ P!isDrops(P!toRippledAmount(e)) <=> e.currency = "XRP"
            /\ P!toRippledAmount(most) \in RippledAmounts
            /\ P!isDrops(P!toRippledAmount(most)) <=> e.currency = "XRP"
<1> DEFINE e == P!Encoded(a, address)
           most == P!createMaximalAmount(e)
<1>0. undefined \notin Accounts /\ undefined \notin GivenAmounts
  BY AbsentAssumption
<1>1. a \in [currency : {"XRP", "USD"}, value : Int, counterparty : {undefined} \cup Accounts]
  BY DEF GivenAmounts
<1>2. /\ e = [currency |-> a.currency, value |-> a.value, counterparty |-> e.counterparty]
      /\ e.counterparty \in {undefined} \cup Accounts
      /\ a.currency # "XRP" => e.counterparty \in Accounts
  BY <1>0, <1>1 DEF P!Encoded, P!isIOUWithoutCounterparty
<1> HIDE DEF e
<1>3. e \in GivenAmounts /\ e # undefined /\ e.currency \in {"XRP", "USD"} /\ e.value \in Int
  BY <1>0, <1>1, <1>2 DEF GivenAmounts
<1>4. \A g : /\ g.currency = "XRP" /\ g.value \in Int =>
                 P!toRippledAmount(g) \in RippledAmounts /\ P!isDrops(P!toRippledAmount(g))
             /\ g.currency = "USD" /\ g.value \in Int /\ g.counterparty \in Accounts =>
                 P!toRippledAmount(g) \in RippledAmounts /\ ~P!isDrops(P!toRippledAmount(g))
  <2> TAKE g
  <2>1. ASSUME g.currency = "XRP", g.value \in Int
        PROVE  P!toRippledAmount(g) \in RippledAmounts /\ P!isDrops(P!toRippledAmount(g))
    <3>1. P!toRippledAmount(g) = [drops |-> g.value \div 10] /\ g.value \div 10 \in Int
      BY <2>1 DEF P!toRippledAmount, P!Drops, P!xrpToDrops, P!Tenths
    <3> QED
      BY <3>1 DEF RippledAmounts, P!isDrops
  <2>2. ASSUME g.currency = "USD", g.value \in Int, g.counterparty \in Accounts
        PROVE  P!toRippledAmount(g) \in RippledAmounts /\ ~P!isDrops(P!toRippledAmount(g))
    <3>1. P!toRippledAmount(g)
            = [currency |-> "USD", issuer |-> g.counterparty, value |-> g.value]
      BY <2>2 DEF P!toRippledAmount
    <3> QED
      BY <2>2, <3>1 DEF RippledAmounts, P!isDrops
  <2> QED
    BY <2>1, <2>2
<1>5. most.currency = e.currency /\ most.value \in Int /\ most.counterparty = e.counterparty
  BY <1>2, <1>3 DEF P!createMaximalAmount, P!MaxXrp, P!MaxIssued
<1> HIDE DEF most
<1>6. e.currency = "USD" => e.counterparty \in Accounts
  BY <1>2
<1> QED
  BY <1>3, <1>4, <1>5, <1>6 DEF e, most

(* ------------------------- What was prepared --------------------------- *)

(* What the history will read again.  An amount of XRP is paid in XRP, or  *)
(* it is not.                                                              *)
PaymentTyped(t) ==
  /\ t \in [TransactionType : {"Payment"}, Account : {Payer}, Destination : {Payee},
            Amount : RippledAmounts, InvoiceID : {undefined}, SourceTag : {undefined},
            DestinationTag : {undefined, 0}, Flags : SUBSET {16, 17, 18, 31},
            SendMax : {undefined} \cup RippledAmounts,
            DeliverMin : {undefined} \cup RippledAmounts, Paths : {undefined} \cup Texts]
  /\ t.SendMax = undefined =>
       /\ P!isDrops(t.Amount) /\ 17 \notin t.Flags
       /\ t.DeliverMin = undefined /\ t.Paths = undefined
  /\ t.SendMax # undefined => ~(P!isDrops(t.SendMax) /\ P!isDrops(t.Amount))

LEMMA PreparedFacts ==
  ASSUME NEW p \in Payables, NEW address,
         P!createPaymentTransaction(address, p) # P!ValidationError
  PROVE  PaymentTyped(P!createPaymentTransaction(address, p))
<1> DEFINE sa == P!Encoded(p.source.amount, Payer)
           sm == P!Encoded(p.source.maxAmount, Payer)
           da == P!Encoded(p.destination.amount, Payee)
           dm == P!Encoded(p.destination.minAmount, Payee)
           s == P!Or(sm, sa)
           d == P!Or(da, dm)
           amount == IF dm # undefined /\ ~(s.currency = "XRP" /\ d.currency = "XRP")
                     THEN P!createMaximalAmount(dm) ELSE d
           xrp == s.currency = "XRP" /\ d.currency = "XRP"
           partial == "allowPartialPayment" \in p.options
           t == P!createPaymentTransaction(address, p)
<1>0. undefined \notin Accounts /\ undefined \notin GivenAmounts /\ undefined \notin RippledAmounts
      /\ Payer \in Accounts /\ Payee \in Accounts
  BY AbsentAssumption DEF Accounts
<1>1. t = Transaction(p, sa, sm, da, dm) /\ Transaction(p, sa, sm, da, dm) # P!ValidationError
  BY CreateFacts
<1>2. /\ p.source.amount \in MaybeGiven /\ p.source.maxAmount \in MaybeGiven
      /\ p.destination.amount \in MaybeGiven /\ p.destination.minAmount \in MaybeGiven
      /\ (p.source.amount = undefined) # (p.source.maxAmount = undefined)
      /\ (p.destination.amount = undefined) # (p.destination.minAmount = undefined)
      /\ p.paths \in {undefined} \cup [text : Texts] /\ p.invoiceID = undefined
      /\ p.source.tag = undefined /\ p.destination.tag \in {undefined, 0}
  BY DEF Payables
<1>3. \A a \in MaybeGiven : a # undefined => a \in GivenAmounts
  BY DEF MaybeGiven
<1>4. /\ s \in GivenAmounts /\ P!toRippledAmount(s) \in RippledAmounts
      /\ P!isDrops(P!toRippledAmount(s)) <=> s.currency = "XRP"
  <2>1. CASE p.source.maxAmount # undefined
    <3>1. s = sm
      BY <1>0, <1>2, <1>3, <2>1, EncodedFacts DEF P!Or
    <3> HIDE DEF sm, s
    <3> QED
      BY <1>0, <1>2, <1>3, <2>1, <3>1, EncodedFacts DEF sm
  <2>2. CASE p.source.maxAmount = undefined
    <3>1. s = sa
      BY <2>2, NothingEncoded DEF P!Or
    <3> HIDE DEF sa, s
    <3> QED
      BY <1>0, <1>2, <1>3, <2>2, <3>1, EncodedFacts DEF sa
  <2> QED
    BY <2>1, <2>2
<1>5. /\ d \in GivenAmounts /\ P!toRippledAmount(d) \in RippledAmounts
      /\ P!isDrops(P!toRippledAmount(d)) <=> d.currency = "XRP"
      /\ dm # undefined => /\ d = dm /\ P!toRippledAmount(P!createMaximalAmount(dm)) \in RippledAmounts
                           /\ P!isDrops(P!toRippledAmount(P!createMaximalAmount(dm)))
                                <=> d.currency = "XRP"
  <2>1. CASE p.destination.amount # undefined
    <3>1. d = da
      BY <1>0, <1>2, <1>3, <2>1, EncodedFacts DEF P!Or
    <3>2. dm = undefined
      BY <1>2, <2>1, NothingEncoded
    <3> HIDE DEF da, d, dm
    <3> QED
      BY <1>0, <1>2, <1>3, <2>1, <3>1, <3>2, EncodedFacts DEF da
  <2>2. CASE p.destination.amount = undefined
    <3>1. d = dm
      BY <2>2, NothingEncoded DEF P!Or
    <3> HIDE DEF dm, d, da
    <3> QED
      BY <1>0, <1>2, <1>3, <2>2, <3>1, EncodedFacts DEF dm
  <2> QED
    BY <2>1, <2>2
<1> HIDE DEF sa, sm, da, dm, s, d, t
<1>6. /\ P!toRippledAmount(amount) \in RippledAmounts
      /\ P!isDrops(P!toRippledAmount(amount)) <=> d.currency = "XRP"
  BY <1>5
<1>7. ~(xrp /\ partial)
  BY <1>1 DEF Transaction, s, d
<1>8. t = [TransactionType |-> "Payment", Account |-> Payer, Destination |-> Payee,
           Amount |-> P!toRippledAmount(amount),
           InvoiceID |-> p.invoiceID, SourceTag |-> p.source.tag,
           DestinationTag |-> p.destination.tag,
           Flags |-> P!Flag("noDirectRipple" \in p.options, 16)
                       \cup P!Flag("limitQuality" \in p.options, 18)
                       \cup P!Flag(~xrp /\ (partial \/ dm # undefined), 17),
           SendMax |-> IF xrp THEN undefined ELSE P!toRippledAmount(s),
           DeliverMin |-> IF xrp \/ dm = undefined THEN undefined ELSE P!toRippledAmount(dm),
           Paths |-> IF xrp THEN undefined ELSE P!JSONparse(p.paths)]
  BY <1>1, Zenon DEF Transaction, s, d
<1>9. P!JSONparse(p.paths) \in {undefined} \cup Texts
  BY <1>2 DEF P!JSONparse
<1> DEFINE flags == P!Flag("noDirectRipple" \in p.options, 16)
                       \cup P!Flag("limitQuality" \in p.options, 18)
                       \cup P!Flag(~xrp /\ (partial \/ dm # undefined), 17)
<1>10. flags \in SUBSET {16, 17, 18, 31} /\ (xrp => 17 \notin flags)
  BY DEF P!Flag
<1>11. dm # undefined => P!toRippledAmount(dm) \in RippledAmounts
  BY <1>5
<1> HIDE DEF amount, xrp, partial, flags
<1>12. /\ t.Amount = P!toRippledAmount(amount) /\ t.Flags = flags
       /\ t.SendMax = IF xrp THEN undefined ELSE P!toRippledAmount(s)
       /\ t.DeliverMin = IF xrp \/ dm = undefined THEN undefined ELSE P!toRippledAmount(dm)
       /\ t.Paths = IF xrp THEN undefined ELSE P!JSONparse(p.paths)
       /\ t = [TransactionType |-> "Payment", Account |-> Payer, Destination |-> Payee,
               Amount |-> t.Amount, InvoiceID |-> p.invoiceID, SourceTag |-> p.source.tag,
               DestinationTag |-> p.destination.tag, Flags |-> t.Flags,
               SendMax |-> t.SendMax, DeliverMin |-> t.DeliverMin, Paths |-> t.Paths]
  <2>1. t = [TransactionType |-> "Payment", Account |-> Payer, Destination |-> Payee,
           Amount |-> P!toRippledAmount(amount),
           InvoiceID |-> p.invoiceID, SourceTag |-> p.source.tag,
           DestinationTag |-> p.destination.tag, Flags |-> flags,
           SendMax |-> IF xrp THEN undefined ELSE P!toRippledAmount(s),
           DeliverMin |-> IF xrp \/ dm = undefined THEN undefined ELSE P!toRippledAmount(dm),
           Paths |-> IF xrp THEN undefined ELSE P!JSONparse(p.paths)]
    BY <1>8, Zenon DEF flags
  <2> QED
    BY <2>1
<1>13. /\ t.Amount \in RippledAmounts /\ t.Flags \in SUBSET {16, 17, 18, 31}
       /\ t.SendMax \in {undefined} \cup RippledAmounts
       /\ t.DeliverMin \in {undefined} \cup RippledAmounts
       /\ t.Paths \in {undefined} \cup Texts
  BY <1>4, <1>6, <1>9, <1>10, <1>11, <1>12
<1>14. t \in [TransactionType : {"Payment"}, Account : {Payer}, Destination : {Payee},
            Amount : RippledAmounts, InvoiceID : {undefined}, SourceTag : {undefined},
            DestinationTag : {undefined, 0}, Flags : SUBSET {16, 17, 18, 31},
            SendMax : {undefined} \cup RippledAmounts,
            DeliverMin : {undefined} \cup RippledAmounts, Paths : {undefined} \cup Texts]
  BY <1>2, <1>12, <1>13
<1>15. ASSUME t.SendMax = undefined PROVE xrp
  BY <1>0, <1>4, <1>12, <1>15
<1>16. xrp => P!isDrops(t.Amount)
  BY <1>6, <1>12 DEF xrp
<1>17. ~xrp => ~(P!isDrops(P!toRippledAmount(s)) /\ P!isDrops(t.Amount))
  BY <1>4, <1>6, <1>12 DEF xrp
<1> QED
  BY <1>10, <1>12, <1>14, <1>15, <1>16, <1>17 DEF PaymentTyped, t

(* ------------------------ Paths can be paid ---------------------------- *)

(* The transaction, when the checks before it pass.                        *)
LEMMA TransactionFields ==
  ASSUME NEW p, NEW sa, NEW sm, NEW da, NEW dm, NEW s, NEW d,
         sm = undefined \/ dm = undefined, sa = undefined \/ da = undefined,
         p.options = {}, s = P!Or(sm, sa), d = P!Or(da, dm),
         dm # undefined => ~(s.currency = "XRP" /\ d.currency = "XRP")
  PROVE  LET t == Transaction(p, sa, sm, da, dm)
             xrp == s.currency = "XRP" /\ d.currency = "XRP"
         IN /\ t # P!ValidationError
            /\ t.Amount = P!toRippledAmount(IF dm # undefined THEN P!createMaximalAmount(dm)
                                            ELSE d)
            /\ 17 \in t.Flags <=> dm # undefined
            /\ t.SendMax = IF xrp THEN undefined ELSE P!toRippledAmount(s)
            /\ t.DeliverMin = IF dm = undefined THEN undefined ELSE P!toRippledAmount(dm)
            /\ t.Paths = IF xrp THEN undefined ELSE P!JSONparse(p.paths)
<1> DEFINE xrp == s.currency = "XRP" /\ d.currency = "XRP"
           amount == P!toRippledAmount(IF dm # undefined THEN P!createMaximalAmount(dm) ELSE d)
           flags == P!Flag(FALSE, 16) \cup P!Flag(FALSE, 18) \cup P!Flag(dm # undefined, 17)
           sends == IF xrp THEN undefined ELSE P!toRippledAmount(s)
           least == IF dm = undefined THEN undefined ELSE P!toRippledAmount(dm)
           way == IF xrp THEN undefined ELSE P!JSONparse(p.paths)
           t == Transaction(p, sa, sm, da, dm)
           partial == "allowPartialPayment" \in p.options
<1>1. ~partial /\ ~("noDirectRipple" \in p.options) /\ ~("limitQuality" \in p.options)
  OBVIOUS
<1> DEFINE x == P!Or(sm, sa).currency = "XRP" /\ P!Or(da, dm).currency = "XRP"
<1>2. x <=> xrp
  OBVIOUS
<1>3. ~((sm # undefined /\ dm # undefined) \/ (sa # undefined /\ da # undefined) \/ (x /\ partial))
  BY <1>1
<1> HIDE DEF partial, x
<1>4. t = [TransactionType |-> "Payment", Account |-> Payer, Destination |-> Payee,
           Amount |-> P!toRippledAmount(IF dm # undefined /\ ~x
                                        THEN P!createMaximalAmount(dm) ELSE P!Or(da, dm)),
           InvoiceID |-> p.invoiceID, SourceTag |-> p.source.tag,
           DestinationTag |-> p.destination.tag,
           Flags |-> P!Flag("noDirectRipple" \in p.options, 16)
                       \cup P!Flag("limitQuality" \in p.options, 18)
                       \cup P!Flag(~x /\ (partial \/ dm # undefined), 17),
           SendMax |-> IF x THEN undefined ELSE P!toRippledAmount(P!Or(sm, sa)),
           DeliverMin |-> IF x \/ dm = undefined THEN undefined ELSE P!toRippledAmount(dm),
           Paths |-> IF x THEN undefined ELSE P!JSONparse(p.paths)]
  BY <1>3, Zenon DEF Transaction, x, partial
<1> HIDE DEF t
<1>5. /\ t.Amount = P!toRippledAmount(IF dm # undefined /\ ~x
                                      THEN P!createMaximalAmount(dm) ELSE P!Or(da, dm))
      /\ t.Flags = P!Flag("noDirectRipple" \in p.options, 16)
                       \cup P!Flag("limitQuality" \in p.options, 18)
                       \cup P!Flag(~x /\ (partial \/ dm # undefined), 17)
      /\ t.SendMax = IF x THEN undefined ELSE P!toRippledAmount(P!Or(sm, sa))
      /\ t.DeliverMin = IF x \/ dm = undefined THEN undefined ELSE P!toRippledAmount(dm)
      /\ t.Paths = IF x THEN undefined ELSE P!JSONparse(p.paths)
      /\ t # P!ValidationError
  BY <1>4 DEF P!ValidationError
<1>6. 17 \in t.Flags <=> dm # undefined
  BY <1>1, <1>2, <1>5 DEF P!Flag
<1>7. t.Amount = amount /\ t.SendMax = sends /\ t.DeliverMin = least /\ t.Paths = way
  BY <1>2, <1>5
<1> HIDE DEF amount, sends, least, way
<1> QED
  BY <1>5, <1>6, <1>7 DEF amount, sends, least, way, t

(* What preparePayment makes of a path to an amount: that amount.          *)
LEMMA PathToAmount ==
  ASSUME NEW told, told.source_account = Payer, told.destination_account = Payee,
         told.destination_amount \in RippledAmounts,
         NEW a, a.source_amount \in RippledAmounts, a.destination_amount = undefined,
         P!parsePaths(a.paths_computed) \in Texts
  PROVE  LET path == P!parseAlternative(told, a)
             t == P!createPaymentTransaction(Payer, path)
             xrp == P!isDrops(a.source_amount) /\ P!isDrops(told.destination_amount)
         IN /\ path \in Payables /\ t # P!ValidationError /\ 17 \notin t.Flags
            /\ t.Amount = told.destination_amount /\ t.DeliverMin = undefined
            /\ t.SendMax = IF xrp THEN undefined ELSE a.source_amount
            /\ ~xrp => t.Paths = P!parsePaths(a.paths_computed)
<1> DEFINE path == P!parseAlternative(told, a)
           t == P!createPaymentTransaction(Payer, path)
           sent == P!removeGenericCounterparty(P!parseAmount(a.source_amount), Payer)
           got == P!removeGenericCounterparty(P!parseAmount(told.destination_amount), Payee)
           text == P!parsePaths(a.paths_computed)
<1>0. Payer \in Accounts /\ Payee \in Accounts /\ undefined \notin [text : Texts]
  BY AbsentAssumption DEF Accounts, Texts
<1>1. path = [source |-> [address |-> Payer, tag |-> undefined,
                          amount |-> undefined, maxAmount |-> sent],
              destination |-> [address |-> Payee, tag |-> undefined,
                               amount |-> got, minAmount |-> undefined],
              paths |-> [text |-> text], invoiceID |-> undefined, options |-> {}]
  BY DEF P!parseAlternative, P!JSONtext
<1> DEFINE sm == P!Encoded(sent, Payer)
           da == P!Encoded(got, Payee)
<1>2. /\ sent \in GivenAmounts /\ sent # undefined /\ sm # undefined
      /\ P!toRippledAmount(sm) = a.source_amount
      /\ sm.currency = "XRP" <=> P!isDrops(a.source_amount)
  BY <1>0, ReencodedFacts
<1>3. /\ got \in GivenAmounts /\ got # undefined /\ da # undefined
      /\ P!toRippledAmount(da) = told.destination_amount
      /\ da.currency = "XRP" <=> P!isDrops(told.destination_amount)
  BY <1>0, ReencodedFacts
<1> HIDE DEF path, sent, got, sm, da, text
<1>4. text \in Texts
  BY DEF text
<1>5. /\ path \in Payables
      /\ path.source.amount = undefined /\ path.source.maxAmount = sent
      /\ path.destination.amount = got /\ path.destination.minAmount = undefined
      /\ path.paths = [text |-> text] /\ path.options = {}
  BY <1>1, <1>2, <1>3, <1>4 DEF Payables, MaybeGiven
<1>6. t = Transaction(path, undefined, sm, da, undefined)
  BY <1>5, CreateFacts, NothingEncoded DEF sm, da
<1>7. P!Or(sm, undefined) = sm /\ P!Or(da, undefined) = da
  BY <1>2, <1>3 DEF P!Or
<1> DEFINE xrp == sm.currency = "XRP" /\ da.currency = "XRP"
<1> HIDE DEF t
<1>8. /\ t # P!ValidationError /\ t.Amount = P!toRippledAmount(da) /\ 17 \notin t.Flags
      /\ t.SendMax = IF xrp THEN undefined ELSE P!toRippledAmount(sm)
      /\ t.DeliverMin = undefined
      /\ t.Paths = IF xrp THEN undefined ELSE P!JSONparse(path.paths)
  BY <1>5, <1>6, <1>7, TransactionFields
<1> HIDE DEF xrp
<1>11. P!JSONparse(path.paths) = text
  BY <1>0, <1>4, <1>5 DEF P!JSONparse
<1>12. xrp <=> P!isDrops(a.source_amount) /\ P!isDrops(told.destination_amount)
  BY <1>2, <1>3 DEF xrp
<1> QED
  BY <1>2, <1>3, <1>5, <1>8, <1>11, <1>12 DEF path, t, text

(* What it makes of a path for all of an amount: that amount, for no less  *)
(* than the path promises.                                                 *)
LEMMA PathOfAmount ==
  ASSUME NEW told, told.source_account = Payer, told.destination_account = Payee,
         NEW a, a.source_amount \in RippledAmounts, ~P!isDrops(a.source_amount),
         a.destination_amount \in RippledAmounts,
         P!parsePaths(a.paths_computed) \in Texts
  PROVE  LET path == P!parseAlternative(told, a)
             t == P!createPaymentTransaction(Payer, path)
         IN /\ path \in Payables /\ t # P!ValidationError /\ 17 \in t.Flags
            /\ t.SendMax = a.source_amount /\ t.DeliverMin = a.destination_amount
            /\ t.Paths = P!parsePaths(a.paths_computed)
<1> DEFINE path == P!parseAlternative(told, a)
           t == P!createPaymentTransaction(Payer, path)
           sent == P!removeGenericCounterparty(P!parseAmount(a.source_amount), Payer)
           got == P!removeGenericCounterparty(P!parseAmount(a.destination_amount), Payee)
           text == P!parsePaths(a.paths_computed)
<1>0. Payer \in Accounts /\ Payee \in Accounts /\ undefined \notin [text : Texts]
      /\ undefined \notin RippledAmounts
  BY AbsentAssumption DEF Accounts, Texts
<1>1. path = [source |-> [address |-> Payer, tag |-> undefined,
                          amount |-> sent, maxAmount |-> undefined],
              destination |-> [address |-> Payee, tag |-> undefined,
                               amount |-> undefined, minAmount |-> got],
              paths |-> [text |-> text], invoiceID |-> undefined, options |-> {}]
  BY <1>0 DEF P!parseAlternative, P!JSONtext
<1> DEFINE sa == P!Encoded(sent, Payer)
           dm == P!Encoded(got, Payee)
<1>2. /\ sent \in GivenAmounts /\ sent # undefined /\ sa # undefined
      /\ P!toRippledAmount(sa) = a.source_amount
      /\ sa.currency = "XRP" <=> P!isDrops(a.source_amount)
  BY <1>0, ReencodedFacts
<1>3. /\ got \in GivenAmounts /\ got # undefined /\ dm # undefined
      /\ P!toRippledAmount(dm) = a.destination_amount
  BY <1>0, ReencodedFacts
<1> HIDE DEF path, sent, got, sa, dm, text
<1>4. text \in Texts
  BY DEF text
<1>5. /\ path \in Payables
      /\ path.source.amount = sent /\ path.source.maxAmount = undefined
      /\ path.destination.amount = undefined /\ path.destination.minAmount = got
      /\ path.paths = [text |-> text] /\ path.options = {}
  BY <1>1, <1>2, <1>3, <1>4 DEF Payables, MaybeGiven
<1>6. t = Transaction(path, sa, undefined, undefined, dm)
  BY <1>5, CreateFacts, NothingEncoded DEF sa, dm
<1>7. P!Or(undefined, sa) = sa /\ P!Or(undefined, dm) = dm /\ sa.currency # "XRP"
  BY <1>2, <1>3 DEF P!Or
<1> HIDE DEF t
<1>8. /\ t # P!ValidationError /\ 17 \in t.Flags
      /\ t.SendMax = P!toRippledAmount(sa) /\ t.DeliverMin = P!toRippledAmount(dm)
      /\ t.Paths = P!JSONparse(path.paths)
  BY <1>3, <1>5, <1>6, <1>7, TransactionFields
<1>11. P!JSONparse(path.paths) = text
  BY <1>0, <1>4, <1>5 DEF P!JSONparse
<1> QED
  BY <1>2, <1>3, <1>5, <1>8, <1>11 DEF path, t, text

(* A call, once the server has told of paths.                              *)
Told(c) ==
  /\ c.paths.source_account = Payer /\ c.paths.destination_account = Payee
  /\ c.paths.destination_amount = c.request.destination_amount
  /\ c.paths.alternatives \subseteq P!Alternatives(c.request)

(* What PathsCanBePaid says of one path.                                   *)
PayableAs(c, path) ==
  LET t == P!createPaymentTransaction(Payer, path)
      all == c.request.send_max # undefined
      Along(a) == /\ t.SendMax = a.source_amount
                  /\ t.DeliverMin = a.destination_amount
                  /\ t.Paths = P!parsePaths(a.paths_computed)
  IN /\ path \in Payables /\ t # P!ValidationError
     /\ P!isPartialPayment(t) <=> all
     /\ IF all THEN t.SendMax = c.request.send_max
        ELSE t.Amount = c.request.destination_amount
     /\ \/ \E a \in c.paths.alternatives : Along(a)
        \/ /\ t.SendMax = undefined /\ P!isDrops(t.Amount)
           /\ c.drops # undefined /\ c.drops >= t.Amount.drops

LEMMA ToldPath ==
  ASSUME NEW c, c.pathfind \in P!Pathfinds, c.request = P!RequestOf(c.pathfind), Told(c),
         NEW a \in c.paths.alternatives,
         c.pathfind.source.amount # undefined => P!sendsAll(c.pathfind, a)
  PROVE  PayableAs(c, P!parseAlternative(c.paths, a))
<1> DEFINE path == P!parseAlternative(c.paths, a)
           t == P!createPaymentTransaction(Payer, path)
           r == c.request
           given == c.pathfind.source.amount
<1>0. P!PaymentFlags.PartialPayment = 17 /\ undefined \notin RippledAmounts
  BY AbsentAssumption DEF P!PaymentFlags
<1>1. /\ r.destination_amount \in RippledAmounts
      /\ given = undefined => r.send_max = undefined
      /\ given # undefined => r.send_max \in RippledAmounts
  BY RequestFacts
<1>2. a \in P!Alternatives(P!RequestOf(c.pathfind))
  BY DEF Told
<1>3. /\ a.source_amount \in RippledAmounts
      /\ r.send_max = undefined => a.destination_amount = undefined
      /\ r.send_max # undefined => a.destination_amount \in RippledAmounts
      /\ ~(P!isDrops(a.source_amount) /\ P!isDrops(r.destination_amount))
      /\ P!parsePaths(a.paths_computed) \in Texts
      /\ r.send_max # undefined /\ ~P!isDrops(a.source_amount)
           /\ a.source_amount.value = given.value =>
           a.source_amount = r.send_max
  BY <1>2, AlternativeFacts
<1>4. c.paths.source_account = Payer /\ c.paths.destination_account = Payee
      /\ c.paths.destination_amount = r.destination_amount
  BY DEF Told
<1>5. CASE r.send_max = undefined
  <2>1. /\ path \in Payables /\ t # P!ValidationError /\ 17 \notin t.Flags
        /\ t.Amount = r.destination_amount /\ t.DeliverMin = undefined
        /\ t.SendMax = IF P!isDrops(a.source_amount) /\ P!isDrops(r.destination_amount)
                       THEN undefined ELSE a.source_amount
        /\ ~(P!isDrops(a.source_amount) /\ P!isDrops(r.destination_amount)) =>
             t.Paths = P!parsePaths(a.paths_computed)
    BY <1>1, <1>3, <1>4, <1>5, PathToAmount
  <2>2. t.SendMax = a.source_amount /\ t.DeliverMin = a.destination_amount
        /\ t.Paths = P!parsePaths(a.paths_computed)
    BY <1>3, <1>5, <2>1
  <2> HIDE DEF t, path
  <2> QED
    BY <1>0, <1>5, <2>1, <2>2, Zenon DEF PayableAs, P!isPartialPayment, t, path
<1>6. CASE r.send_max # undefined
  <2>1. given # undefined
    BY <1>1, <1>6
  <2>2. ~P!isDrops(a.source_amount) /\ a.source_amount.value = given.value
    BY <2>1 DEF P!sendsAll
  <2>3. a.source_amount = r.send_max
    BY <1>3, <1>6, <2>2
  <2>4. /\ path \in Payables /\ t # P!ValidationError /\ 17 \in t.Flags
        /\ t.SendMax = a.source_amount /\ t.DeliverMin = a.destination_amount
        /\ t.Paths = P!parsePaths(a.paths_computed)
    BY <1>3, <1>4, <1>6, <2>2, PathOfAmount
  <2> HIDE DEF t, path
  <2> QED
    BY <1>0, <1>6, <2>3, <2>4, Zenon DEF PayableAs, P!isPartialPayment, t, path
<1> QED
  BY <1>5, <1>6

(* The alternative that addDirectXrpPath adds.                             *)
Direct(c) ==
  [paths_computed |-> <<>>, source_amount |-> c.paths.destination_amount,
   destination_amount |-> undefined]

LEMMA EnoughDrops ==
  ASSUME NEW D \in Nat \ {0}, NEW n \in Nat, NEW b \in Nat, 10 * b >= 10 * D * n
  PROVE  b >= n
<1>1. PICK k \in Nat : D = 1 + k
  <2>1. D - 1 \in Nat /\ D = 1 + (D - 1)
    OBVIOUS
  <2> QED
    BY <2>1
<1>2. k * n \in Nat
  OBVIOUS
<1>3. 10 * D * n = 10 * n + 10 * (k * n)
  BY <1>1
<1> QED
  BY <1>2, <1>3

LEMMA DirectPath ==
  ASSUME NEW c, c.pathfind \in P!Pathfinds, c.request = P!RequestOf(c.pathfind), Told(c),
         P!acceptsXrp(c.paths), c.pathfind.source.amount = undefined,
         c.drops \in Nat,
         P!dropsToXrp(c.drops) >= 10 * DropsPerXrp * c.paths.destination_amount.drops
  PROVE  PayableAs(c, P!parseAlternative(c.paths, Direct(c)))
<1> DEFINE a == Direct(c)
           path == P!parseAlternative(c.paths, a)
           t == P!createPaymentTransaction(Payer, path)
           r == c.request
<1>0. P!PaymentFlags.PartialPayment = 17 /\ undefined \notin Int
  BY NumbersAssumption DEF P!PaymentFlags
<1>1. c.paths.source_account = Payer /\ c.paths.destination_account = Payee
      /\ c.paths.destination_amount = r.destination_amount
      /\ P!isDrops(r.destination_amount)
  BY DEF Told, P!acceptsXrp
<1>2. /\ r.destination_amount \in RippledAmounts /\ r.send_max = undefined
      /\ r.destination_amount.drops \in Nat
  BY <1>1, RequestFacts
<1>3. /\ a.paths_computed = <<>> /\ a.source_amount = r.destination_amount
      /\ a.destination_amount = undefined
  BY <1>1 DEF Direct
<1> HIDE DEF a
<1>4. P!parsePaths(a.paths_computed) \in Texts
  BY <1>3 DEF P!parsePaths, Texts
<1>5. /\ path \in Payables /\ t # P!ValidationError /\ 17 \notin t.Flags
      /\ t.Amount = r.destination_amount /\ t.DeliverMin = undefined
      /\ t.SendMax = IF P!isDrops(a.source_amount) /\ P!isDrops(r.destination_amount)
                     THEN undefined ELSE a.source_amount
  BY <1>1, <1>2, <1>3, <1>4, PathToAmount
<1>6. t.SendMax = undefined
  BY <1>1, <1>3, <1>5
<1>7. c.drops >= r.destination_amount.drops /\ c.drops # undefined
  BY <1>0, <1>1, <1>2, PaymentsAssumption, EnoughDrops DEF P!dropsToXrp, P!Tenths
<1> HIDE DEF t, path
<1> QED
  BY <1>0, <1>1, <1>2, <1>5, <1>6, <1>7, Zenon DEF PayableAs, P!isPartialPayment, t, path, a

LEMMA SameParse ==
  ASSUME NEW x, NEW y, NEW a, x.source_account = y.source_account,
         x.destination_account = y.destination_account,
         x.destination_amount = y.destination_amount
  PROVE  P!parseAlternative(x, a) = P!parseAlternative(y, a)
BY DEF P!parseAlternative

(* Whatever was found is no paths, or some.                                *)
Found(c, f) ==
  \/ "paths" \notin DOMAIN f
  \/ f = [paths |-> f.paths] /\ \A path \in f.paths : PayableAs(c, path)

LEMMA NoPaths == "paths" \notin DOMAIN P!NotANumber /\ "paths" \notin DOMAIN P!NotFoundError
                 /\ "paths" \notin DOMAIN P!None
BY DEF P!NotANumber, P!NotFoundError, P!None

LEMMA FormatFacts ==
  ASSUME NEW c, c.pathfind \in P!Pathfinds, c.request = P!RequestOf(c.pathfind), Told(c),
         NEW p, p.source_account = Payer, p.destination_account = Payee,
         p.destination_amount = c.request.destination_amount,
         \A a \in p.alternatives :
           \/ a \in c.paths.alternatives
           \/ /\ a = Direct(c) /\ P!acceptsXrp(c.paths) /\ c.drops \in Nat
              /\ P!dropsToXrp(c.drops) >= 10 * DropsPerXrp * c.paths.destination_amount.drops,
         NEW throws \in BOOLEAN
  PROVE  Found(c, P!formatResponse(c.pathfind, p, throws))
<1> DEFINE filtering == c.pathfind.source.amount # undefined
           kept == IF filtering THEN {a \in p.alternatives : P!sendsAll(c.pathfind, a)}
                   ELSE p.alternatives
           f == P!formatResponse(c.pathfind, p, throws)
           offered == {P!parseAlternative(p, a) : a \in kept}
<1>1. f = P!NotANumber \/ f = P!NotFoundError \/ f = [paths |-> offered]
  BY DEF P!formatResponse
<1>2. ASSUME NEW a \in kept PROVE PayableAs(c, P!parseAlternative(p, a))
  <2>1. a \in p.alternatives /\ (filtering => P!sendsAll(c.pathfind, a))
    BY <1>2
  <2>2. P!parseAlternative(p, a) = P!parseAlternative(c.paths, a)
    BY SameParse DEF Told
  <2>3. CASE a \in c.paths.alternatives
    BY <2>1, <2>2, <2>3, ToldPath
  <2>4. CASE a \notin c.paths.alternatives
    <3>1. /\ a = Direct(c) /\ P!acceptsXrp(c.paths) /\ c.drops \in Nat
          /\ P!dropsToXrp(c.drops) >= 10 * DropsPerXrp * c.paths.destination_amount.drops
      BY <2>1, <2>4
    <3>2. P!isDrops(a.source_amount)
      BY <3>1 DEF P!acceptsXrp, Direct
    <3>3. ~filtering
      BY <2>1, <3>2 DEF P!sendsAll
    <3> QED
      BY <2>2, <3>1, <3>3, DirectPath
  <2> QED
    BY <2>3, <2>4
<1>3. \A path \in offered : PayableAs(c, path)
  BY <1>2
<1> HIDE DEF f, offered
<1>4. ASSUME f = [paths |-> offered] PROVE Found(c, f)
  BY <1>3, <1>4 DEF Found
<1>5. ASSUME f = P!NotANumber \/ f = P!NotFoundError PROVE Found(c, f)
  <2>1. "paths" \notin DOMAIN f
    BY <1>5, NoPaths
  <2> QED
    BY <2>1, Zenon DEF Found
<1> QED
  BY <1>1, <1>4, <1>5 DEF f

LEMMA PaymentsPayable == P!Payments \subseteq Payables
<1> SUFFICES ASSUME NEW p \in P!Payments PROVE p \in Payables
  OBVIOUS
<1> DEFINE options == SUBSET {"allowPartialPayment", "noDirectRipple", "limitQuality"}
<1>1. p \in [source : P!Senders, destination : P!Receivers,
             paths : {undefined, P!JSONtext(<<<<[account |-> Gateway]>>>>)},
             invoiceID : {undefined}, options : options]
  BY DEF P!Payments
<1>2. P!XrpAmounts \cup P!IssuedAmounts(Payer) \subseteq GivenAmounts
      /\ P!XrpAmounts \cup P!IssuedAmounts(Payee) \subseteq GivenAmounts
  BY AskedAmounts DEF Accounts
<1>3. undefined \notin GivenAmounts
  BY AbsentAssumption
<1>4. /\ p.source \in [address : {Payer}, tag : {undefined}, amount : MaybeGiven,
                       maxAmount : MaybeGiven]
      /\ (p.source.amount = undefined) # (p.source.maxAmount = undefined)
  <2>1. p.source \in P!Senders
    BY <1>1
  <2>2. PICK a \in P!XrpAmounts \cup P!IssuedAmounts(Payer) :
          \/ p.source = [address |-> Payer, tag |-> undefined, amount |-> a, maxAmount |-> undefined]
          \/ p.source = [address |-> Payer, tag |-> undefined, amount |-> undefined, maxAmount |-> a]
    BY <2>1 DEF P!Senders
  <2>3. a \in GivenAmounts /\ a # undefined
    BY <1>2, <1>3
  <2> QED
    BY <2>2, <2>3 DEF MaybeGiven
<1>5. /\ p.destination \in [address : {Payee}, tag : {undefined, 0}, amount : MaybeGiven,
                            minAmount : MaybeGiven]
      /\ (p.destination.amount = undefined) # (p.destination.minAmount = undefined)
  <2>1. p.destination \in P!Receivers
    BY <1>1
  <2>2. PICK a \in P!XrpAmounts \cup P!IssuedAmounts(Payee), tag \in {undefined, 0} :
          \/ p.destination = [address |-> Payee, tag |-> tag, amount |-> a, minAmount |-> undefined]
          \/ p.destination = [address |-> Payee, tag |-> tag, amount |-> undefined, minAmount |-> a]
    BY <2>1 DEF P!Receivers
  <2>3. a \in GivenAmounts /\ a # undefined
    BY <1>2, <1>3
  <2> QED
    BY <2>2, <2>3 DEF MaybeGiven
<1>6. p.paths \in {undefined} \cup [text : Texts] /\ p.invoiceID \in {undefined}
      /\ p.options \in options
  <2>1. P!JSONtext(<<<<[account |-> Gateway]>>>>) \in [text : Texts]
    BY DEF P!JSONtext, Texts
  <2> QED
    BY <1>1, <2>1
<1>7. p = [source |-> p.source, destination |-> p.destination, paths |-> p.paths,
           invoiceID |-> p.invoiceID, options |-> p.options]
  BY <1>1
<1> QED
  BY <1>4, <1>5, <1>6, <1>7 DEF Payables

LEMMA SignedTyped ==
  ASSUME NEW t, PaymentTyped(t)
  PROVE  PaymentTyped(P!setCanonicalFlag(t)) /\ P!setCanonicalFlag(t) # P!ValidationError
<1> DEFINE u == P!setCanonicalFlag(t)
<1>1. t \in [TransactionType : {"Payment"}, Account : {Payer}, Destination : {Payee},
            Amount : RippledAmounts, InvoiceID : {undefined}, SourceTag : {undefined},
            DestinationTag : {undefined, 0}, Flags : SUBSET {16, 17, 18, 31},
            SendMax : {undefined} \cup RippledAmounts,
            DeliverMin : {undefined} \cup RippledAmounts, Paths : {undefined} \cup Texts]
  BY DEF PaymentTyped
<1>2. /\ u = [t EXCEPT !.Flags = @ \cup {31}] /\ t.Flags \in SUBSET {16, 17, 18, 31}
      /\ t.Flags \cup {31} \in SUBSET {16, 17, 18, 31}
  BY <1>1 DEF P!setCanonicalFlag, P!FullyCanonicalSig
<1>3. u \in [TransactionType : {"Payment"}, Account : {Payer}, Destination : {Payee},
            Amount : RippledAmounts, InvoiceID : {undefined}, SourceTag : {undefined},
            DestinationTag : {undefined, 0}, Flags : SUBSET {16, 17, 18, 31},
            SendMax : {undefined} \cup RippledAmounts,
            DeliverMin : {undefined} \cup RippledAmounts, Paths : {undefined} \cup Texts]
  BY <1>1, <1>2
<1>4. /\ u.SendMax = t.SendMax /\ u.Amount = t.Amount /\ u.DeliverMin = t.DeliverMin
      /\ u.Paths = t.Paths /\ (17 \in u.Flags <=> 17 \in t.Flags)
  BY <1>1, <1>2
<1>5. u # P!ValidationError
  BY <1>1, <1>2 DEF P!ValidationError
<1> HIDE DEF u
<1>6. PaymentTyped(u)
  BY <1>3, <1>4 DEF PaymentTyped
<1> QED
  BY <1>5, <1>6 DEF u

(* ----------------------------- The invariant --------------------------- *)

CallTyped(c) ==
  /\ c = [pathfind |-> c.pathfind, request |-> c.request, paths |-> c.paths, drops |-> c.drops]
  /\ c.pathfind \in P!Pathfinds /\ c.request = P!RequestOf(c.pathfind)
  /\ c.paths # P!None => Told(c)

(* What a ledger tells of a payment t that it has.                         *)
ToldOf(t, l) ==
  LET partial == 17 \in t.Flags
      told == partial => l.version > LastUnrecorded
      adds == l.meta.delivered_amount # undefined
      says == l.meta.DeliveredAmount # undefined
  IN /\ l.version \in Int /\ l.delivered \in RippledAmounts
     /\ ~partial => l.delivered = t.Amount
     /\ adds => /\ l.meta.TransactionResult = "tesSUCCESS"
                /\ l.meta.delivered_amount = IF told THEN l.delivered ELSE unavailable
     /\ says => l.meta.DeliveredAmount = l.delivered
     /\ ~says => ~(partial /\ told /\ l.delivered # t.Amount)

PaymentInv ==
  /\ balance \in Nat
  /\ paths # P!None => CallTyped(paths)
  /\ paths # P!None /\ found = P!None /\ paths.paths # P!None => P!acceptsXrp(paths.paths)
  /\ Found(paths, found)
  /\ payment # P!None /\ payment # P!ValidationError => PaymentTyped(payment)
  /\ ledger # P!None => /\ payment # P!None /\ payment # P!ValidationError
                        /\ ToldOf(payment, ledger)

LEMMA PaymentInit == Init => PaymentInv
<1> SUFFICES ASSUME Init PROVE PaymentInv
  OBVIOUS
<1>1. balance \in Balances /\ paths = P!None /\ found = P!None /\ payment = P!None
      /\ ledger = P!None
  BY DEF Init, P!Init
<1>2. Found(paths, found)
  BY <1>1, NoPaths, Zenon DEF Found
<1> QED
  BY <1>1, <1>2, PaymentsAssumption DEF PaymentInv

LEMMA ResolvesFacts ==
  \A pathfind, told, throws : P!formatResponse(pathfind, told, throws) # P!None
BY DEF P!formatResponse, P!None, P!NotANumber, P!NotFoundError

LEMMA GetPathsStep ==
  ASSUME PaymentInv, NEW pathfind \in P!Pathfinds, P!GetPaths(pathfind)
  PROVE  PaymentInv'
<1>1. /\ paths = P!None /\ payment = P!None
      /\ paths' = [pathfind |-> pathfind, request |-> P!RequestOf(pathfind),
                   paths |-> P!None, drops |-> undefined]
      /\ found' = P!ValidationError \/ found' = P!None
      /\ UNCHANGED <<balance, payment, ledger>>
  BY DEF P!GetPaths
<1>2. "paths" \notin DOMAIN found'
  BY <1>1, NoPaths DEF P!ValidationError
<1>3. Found(paths', found')
  BY <1>2, Zenon DEF Found
<1>4. /\ paths'.pathfind = pathfind /\ paths'.request = P!RequestOf(pathfind)
      /\ paths'.paths = P!None
      /\ paths' = [pathfind |-> paths'.pathfind, request |-> paths'.request,
                   paths |-> paths'.paths, drops |-> paths'.drops]
  BY <1>1
<1>5. CallTyped(paths')
  BY <1>4 DEF CallTyped
<1> QED
  BY <1>1, <1>3, <1>4, <1>5 DEF PaymentInv

LEMMA PathsArrivedStep ==
  ASSUME PaymentInv, NEW alternatives \in SUBSET P!Alternatives(paths.request),
         NEW currencies, NEW amount \in {undefined, paths.request.destination_amount},
         P!PathsArrived([alternatives |-> alternatives, destination_currencies |-> currencies,
                         destination_account |-> paths.request.destination_account,
                         destination_amount |-> amount])
  PROVE  PaymentInv'
<1> DEFINE answer == [alternatives |-> alternatives, destination_currencies |-> currencies,
                      destination_account |-> paths.request.destination_account,
                      destination_amount |-> amount]
           told == P!addParams(paths.request, answer)
<1>1. /\ paths # P!None /\ found = P!None
      /\ paths' = [paths EXCEPT !.paths = told]
      /\ UNCHANGED <<balance, payment, ledger>>
  BY DEF P!PathsArrived
<1>2. PICK throws \in BOOLEAN :
        found' = IF P!acceptsXrp(told) THEN P!None
                 ELSE P!formatResponse(paths.pathfind, told, throws)
  BY DEF P!PathsArrived
<1>3. /\ paths = [pathfind |-> paths.pathfind, request |-> paths.request,
                  paths |-> paths.paths, drops |-> paths.drops]
      /\ paths.pathfind \in P!Pathfinds /\ paths.request = P!RequestOf(paths.pathfind)
  BY <1>1 DEF PaymentInv, CallTyped
<1>4. paths.request.source_account = Payer /\ paths.request.destination_account = Payee
  BY <1>3, RequestFacts
<1>5. /\ told.alternatives = alternatives /\ told.source_account = Payer
      /\ told.destination_account = Payee
      /\ told.destination_amount = paths.request.destination_amount
  BY <1>4 DEF P!addParams
<1> HIDE DEF told
<1>6. /\ paths' = [pathfind |-> paths'.pathfind, request |-> paths'.request,
                   paths |-> paths'.paths, drops |-> paths'.drops]
      /\ paths'.pathfind = paths.pathfind /\ paths'.request = paths.request
      /\ paths'.paths = told
  BY <1>1, <1>3
<1>7. Told(paths')
  BY <1>5, <1>6 DEF Told
<1>8. CallTyped(paths')
  BY <1>3, <1>6, <1>7 DEF CallTyped
<1>9. Found(paths', found')
  <2>1. CASE P!acceptsXrp(told)
    BY <1>2, <2>1, NoPaths DEF Found
  <2>2. CASE ~P!acceptsXrp(told)
    <3>1. \A a \in told.alternatives : a \in paths'.paths.alternatives
      BY <1>6
    <3>2. Found(paths', P!formatResponse(paths'.pathfind, told, throws))
      BY <1>3, <1>5, <1>6, <1>7, <3>1, FormatFacts
    <3> QED
      BY <1>2, <1>6, <2>2, <3>2
  <2> QED
    BY <2>1, <2>2
<1>10. found' = P!None => P!acceptsXrp(told)
  <2> SUFFICES ASSUME found' = P!None, ~P!acceptsXrp(told) PROVE FALSE
    OBVIOUS
  <2>1. found' = P!formatResponse(paths.pathfind, told, throws)
    BY <1>2
  <2> QED
    BY <2>1, ResolvesFacts
<1> QED
  BY <1>1, <1>6, <1>8, <1>9, <1>10 DEF PaymentInv

LEMMA BalanceArrivedStep ==
  ASSUME PaymentInv, P!BalanceArrived
  PROVE  PaymentInv'
<1> DEFINE told == P!addDirectXrpPath(paths.paths, P!dropsToXrp(balance))
<1>1. /\ paths # P!None /\ found = P!None /\ paths.paths # P!None
      /\ paths' = [paths EXCEPT !.drops = balance]
      /\ UNCHANGED <<balance, payment, ledger>>
  BY DEF P!BalanceArrived
<1>2. PICK throws \in BOOLEAN :
        found' = P!formatResponse(paths.pathfind, told, throws)
  BY DEF P!BalanceArrived
<1>3. /\ paths = [pathfind |-> paths.pathfind, request |-> paths.request,
                  paths |-> paths.paths, drops |-> paths.drops]
      /\ paths.pathfind \in P!Pathfinds /\ paths.request = P!RequestOf(paths.pathfind)
      /\ Told(paths) /\ P!acceptsXrp(paths.paths) /\ balance \in Nat
  BY <1>1 DEF PaymentInv, CallTyped
<1>4. /\ paths' = [pathfind |-> paths'.pathfind, request |-> paths'.request,
                   paths |-> paths'.paths, drops |-> paths'.drops]
      /\ paths'.pathfind = paths.pathfind /\ paths'.request = paths.request
      /\ paths'.paths = paths.paths /\ paths'.drops = balance
  BY <1>1, <1>3
<1>5. Told(paths')
  BY <1>3, <1>4 DEF Told
<1>6. CallTyped(paths')
  BY <1>3, <1>4, <1>5 DEF CallTyped
<1>7. /\ told.source_account = paths.paths.source_account
      /\ told.destination_account = paths.paths.destination_account
      /\ told.destination_amount = paths.paths.destination_amount
      /\ \A a \in told.alternatives :
           \/ a \in paths.paths.alternatives
           \/ /\ a = Direct(paths)
              /\ P!dropsToXrp(balance) >= 10 * DropsPerXrp * paths.paths.destination_amount.drops
  BY DEF P!addDirectXrpPath, Direct, P!Tenths
<1> HIDE DEF told
<1>8. Direct(paths') = Direct(paths)
  BY <1>4 DEF Direct
<1>9. /\ told.source_account = Payer /\ told.destination_account = Payee
      /\ told.destination_amount = paths'.request.destination_amount
  BY <1>3, <1>4, <1>7 DEF Told
<1>10. \A a \in told.alternatives :
         \/ a \in paths'.paths.alternatives
         \/ /\ a = Direct(paths') /\ P!acceptsXrp(paths'.paths) /\ paths'.drops \in Nat
            /\ P!dropsToXrp(paths'.drops)
                 >= 10 * DropsPerXrp * paths'.paths.destination_amount.drops
  BY <1>3, <1>4, <1>7, <1>8
<1>11. Found(paths', P!formatResponse(paths'.pathfind, told, throws))
  BY <1>3, <1>4, <1>5, <1>9, <1>10, FormatFacts
<1>12. Found(paths', found')
  BY <1>2, <1>4, <1>11
<1>13. found' # P!None
  BY <1>2, ResolvesFacts
<1> QED
  BY <1>1, <1>3, <1>6, <1>12, <1>13 DEF PaymentInv

LEMMA BalanceChangesStep ==
  ASSUME PaymentInv, P!BalanceChanges
  PROVE  PaymentInv'
BY PaymentsAssumption DEF P!BalanceChanges, PaymentInv, Found, CallTyped, Told, PayableAs, ToldOf

LEMMA PaysStep ==
  ASSUME PaymentInv, P!Pays
  PROVE  PaymentInv'
<1>1. PICK address \in {Payer, Payee},
           specification \in IF paths = P!None THEN P!Payments ELSE P!FoundPaths :
        P!PreparePayment(address, specification)
  BY DEF P!Pays
<1> DEFINE t == P!createPaymentTransaction(address, specification)
<1>2. /\ payment = P!None
      /\ payment' = IF t = P!ValidationError THEN t ELSE P!setCanonicalFlag(t)
      /\ UNCHANGED <<balance, paths, found, ledger>>
  BY <1>1 DEF P!PreparePayment
<1>3. specification \in Payables
  <2>1. CASE specification \in P!Payments
    BY <2>1, PaymentsPayable
  <2>2. CASE specification \in P!FoundPaths
    <3>1. "paths" \in DOMAIN found /\ specification \in found.paths
      BY <2>2 DEF P!FoundPaths
    <3> QED
      BY <3>1 DEF PaymentInv, Found, PayableAs
  <2> QED
    BY <1>1, <2>1, <2>2
<1>4. t # P!ValidationError => PaymentTyped(t)
  BY <1>3, PreparedFacts
<1> HIDE DEF t
<1>5. payment' # P!ValidationError => PaymentTyped(payment')
  BY <1>2, <1>4, SignedTyped
<1>6. ledger = P!None
  BY <1>2 DEF PaymentInv
<1> QED
  BY <1>2, <1>5, <1>6 DEF PaymentInv, Found, CallTyped, Told, PayableAs

LEMMA ValidatedStep ==
  ASSUME PaymentInv, P!Validated
  PROVE  PaymentInv'
<1>1. /\ payment # P!None /\ payment # P!ValidationError /\ ledger = P!None
      /\ UNCHANGED <<balance, paths, found, payment>>
  BY DEF P!Validated
<1>2. PICK version \in 1 .. MaxVersion, part \in {0, 1}, adds \in BOOLEAN,
           result \in {"tesSUCCESS", "tecPATH_DRY"} :
       LET partial == P!isPartialPayment(payment)
           delivered == IF part = 0 \/ ~partial THEN payment.Amount
                        ELSE IF P!isDrops(payment.Amount) THEN P!Drops(1)
                        ELSE [payment.Amount EXCEPT !.value = 1]
           told == partial => version > LastUnrecorded
       IN ledger' =
            [version |-> version, delivered |-> delivered,
             meta |-> [TransactionResult |-> result,
                       delivered_amount |->
                         IF ~adds \/ result # "tesSUCCESS" THEN undefined
                         ELSE IF told THEN delivered ELSE unavailable,
                       DeliveredAmount |->
                         IF partial /\ told /\ delivered # payment.Amount THEN delivered
                         ELSE undefined]]
  BY DEF P!Validated
<1> DEFINE partial == 17 \in payment.Flags
           delivered == IF part = 0 \/ ~partial THEN payment.Amount
                        ELSE IF P!isDrops(payment.Amount) THEN P!Drops(1)
                        ELSE [payment.Amount EXCEPT !.value = 1]
           told == partial => version > LastUnrecorded
<1>3. P!isPartialPayment(payment) <=> partial
  BY DEF P!isPartialPayment, P!PaymentFlags
<1>4. payment.Amount \in RippledAmounts
  BY <1>1 DEF PaymentInv, PaymentTyped
<1>5. delivered \in RippledAmounts /\ (~partial => delivered = payment.Amount)
  <2>1. P!Drops(1) \in RippledAmounts
    BY DEF P!Drops, RippledAmounts
  <2>2. ~P!isDrops(payment.Amount) => [payment.Amount EXCEPT !.value = 1] \in RippledAmounts
    <3> SUFFICES ASSUME ~P!isDrops(payment.Amount)
                 PROVE  [payment.Amount EXCEPT !.value = 1] \in RippledAmounts
      OBVIOUS
    <3>1. payment.Amount \in [currency : {"USD"}, issuer : Accounts, value : Int]
      BY <1>4, ParsedFacts
    <3> QED
      BY <3>1 DEF RippledAmounts
  <2> QED
    BY <1>4, <2>1, <2>2
<1> HIDE DEF partial, delivered, told
<1>6. ledger' = [version |-> version, delivered |-> delivered,
                 meta |-> [TransactionResult |-> result,
                       delivered_amount |->
                         IF ~adds \/ result # "tesSUCCESS" THEN undefined
                         ELSE IF told THEN delivered ELSE unavailable,
                       DeliveredAmount |->
                         IF partial /\ told /\ delivered # payment.Amount THEN delivered
                         ELSE undefined]]
  BY <1>2, <1>3 DEF delivered, told
<1>7. /\ ledger'.version = version /\ ledger'.delivered = delivered
      /\ ledger'.meta.TransactionResult = result
      /\ ledger'.meta.delivered_amount =
           IF ~adds \/ result # "tesSUCCESS" THEN undefined
           ELSE IF told THEN delivered ELSE unavailable
      /\ ledger'.meta.DeliveredAmount =
           IF partial /\ told /\ delivered # payment.Amount THEN delivered ELSE undefined
  BY <1>6
<1>8. delivered # undefined
  BY <1>5, AbsentAssumption
<1>9. ToldOf(payment, ledger')
  <2>1. version \in Int
    OBVIOUS
  <2> QED
    BY <1>5, <1>7, <1>8, <2>1 DEF ToldOf, partial, told
<1>10. ToldOf(payment', ledger') /\ payment' = payment
  BY <1>1, <1>9
<1> QED
  BY <1>1, <1>10 DEF PaymentInv, Found, CallTyped, Told, PayableAs

LEMMA PaymentStep == PaymentInv /\ [Next]_vars => PaymentInv'
<1> SUFFICES ASSUME PaymentInv, [Next]_vars PROVE PaymentInv'
  OBVIOUS
<1>1. ASSUME UNCHANGED payVars PROVE PaymentInv'
  BY <1>1 DEF payVars, PaymentInv, Found, CallTyped, Told, PayableAs, ToldOf
<1>2. ASSUME P!AnswersPaths PROVE PaymentInv'
  <2>1. PICK alternatives \in {{}} \cup {{a} : a \in P!Alternatives(paths.request)},
             currencies \in {{"USD"}, {"XRP", "USD"}},
             amount \in {undefined, paths.request.destination_amount} :
          P!PathsArrived([alternatives |-> alternatives, destination_currencies |-> currencies,
                          destination_account |-> paths.request.destination_account,
                          destination_amount |-> amount])
    BY <1>2 DEF P!AnswersPaths
  <2>2. alternatives \in SUBSET P!Alternatives(paths.request)
    OBVIOUS
  <2> QED
    BY <2>1, <2>2, PathsArrivedStep
<1>3. CASE Pay
  BY <1>2, <1>3, GetPathsStep, BalanceArrivedStep, BalanceChangesStep, PaysStep, ValidatedStep
     DEF Pay, P!Next
<1>4. CASE Trade \/ Set \/ Hold \/ Claim
  BY <1>1, <1>4 DEF Trade, Set, Hold, Claim
<1>5. CASE UNCHANGED vars
  BY <1>1, <1>5 DEF vars
<1> QED
  BY <1>3, <1>4, <1>5 DEF Next

(* Every path that getPaths resolves with is taken by preparePayment, pays *)
(* what was asked for and along what the server told, and a payment in XRP *)
(* itself is offered only to a payer whose balance covers it.              *)
THEOREM PathsArePayable == Spec => []PathsCanBePaid
<1>1. PaymentInv => PathsCanBePaid
  <2> SUFFICES ASSUME PaymentInv, NEW path \in P!FoundPaths
               PROVE  PayableAs(paths, path)
    BY Zenon DEF PathsCanBePaid, P!PathsCanBePaid, PayableAs
  <2>1. "paths" \in DOMAIN found /\ path \in found.paths
    BY DEF P!FoundPaths
  <2> QED
    BY <2>1 DEF PaymentInv, Found
<1> QED
  BY <1>1, PaymentInit, PaymentStep, PTL DEF Spec

(* getTransaction says what a payment delivered, or nothing: and nothing   *)
(* only of payments that failed and of the partial ones of old ledgers.    *)
THEOREM OutcomesTellDelivered == Spec => []DeliveredIsTold
<1>1. PaymentInv => DeliveredIsTold
  <2> SUFFICES ASSUME PaymentInv, ledger # P!None PROVE P!DeliveredIsTold
    BY DEF DeliveredIsTold, P!DeliveredIsTold
  <2> DEFINE t == payment
             l == ledger
             partial == 17 \in t.Flags
             told == P!parseDeliveredAmount(t, l.meta, l.version)
  <2>1. PaymentTyped(t) /\ ToldOf(t, l)
    BY DEF PaymentInv
  <2>2. P!isPartialPayment(t) <=> partial
    BY DEF P!isPartialPayment, P!PaymentFlags
  <2>3. l.delivered \in RippledAmounts /\ t.Amount \in RippledAmounts
        /\ undefined \notin RippledAmounts /\ unavailable \notin RippledAmounts
        /\ undefined \notin GivenAmounts
        /\ l.version \in Int /\ LastUnrecorded \in Int
    BY <2>1, AbsentAssumption, PaymentsAssumption DEF ToldOf, PaymentTyped
  <2>4. P!parseAmount(l.delivered) # undefined /\ P!parseAmount(t.Amount) # undefined
    BY <2>3, ParsedFacts
  <2> DEFINE Goal == /\ told # undefined =>
                          /\ l.meta.TransactionResult = "tesSUCCESS"
                          /\ told = P!parseAmount(l.delivered)
                     /\ told = undefined =>
                          \/ l.meta.TransactionResult # "tesSUCCESS"
                          \/ partial /\ l.version <= LastUnrecorded
  <2>5. ASSUME l.meta.TransactionResult # "tesSUCCESS"
       PROVE  Goal
    BY <2>5 DEF P!parseDeliveredAmount
  <2>6. ASSUME l.meta.TransactionResult = "tesSUCCESS" /\ l.meta.delivered_amount # undefined
       PROVE  Goal
    <3>1. l.meta.delivered_amount = IF partial => l.version > LastUnrecorded
                                    THEN l.delivered ELSE unavailable
      BY <2>1, <2>6 DEF ToldOf
    <3>2. ASSUME partial => l.version > LastUnrecorded PROVE Goal
      <4>1. told = P!parseAmount(l.delivered)
        BY <2>3, <2>6, <3>1, <3>2 DEF P!parseDeliveredAmount
      <4> HIDE DEF told
      <4> QED
        BY <2>4, <2>6, <4>1
    <3>3. ASSUME partial /\ ~(l.version > LastUnrecorded) PROVE Goal
      <4>1. told = undefined
        BY <3>1, <3>3 DEF P!parseDeliveredAmount
      <4> HIDE DEF told
      <4> QED
        BY <2>3, <3>3, <4>1
    <3> QED
      BY <3>2, <3>3
  <2>7. ASSUME l.meta.TransactionResult = "tesSUCCESS" /\ l.meta.delivered_amount = undefined
             /\ l.meta.DeliveredAmount # undefined
       PROVE  Goal
    <3>1. l.meta.DeliveredAmount = l.delivered
      BY <2>1, <2>7 DEF ToldOf
    <3>2. undefined # unavailable
      BY AbsentAssumption
    <3>3. told = P!parseAmount(l.delivered)
      BY <2>7, <3>1, <3>2 DEF P!parseDeliveredAmount
    <3> HIDE DEF told
    <3> QED
      BY <2>4, <2>7, <3>3
  <2>8. ASSUME l.meta.TransactionResult = "tesSUCCESS" /\ l.meta.delivered_amount = undefined
             /\ l.meta.DeliveredAmount = undefined
       PROVE  Goal
    <3>1. undefined # unavailable
      BY AbsentAssumption
    <3>2. told = IF ~partial \/ l.version > LastUnrecorded THEN P!parseAmount(t.Amount)
                 ELSE undefined
      BY <2>2, <2>8, <3>1 DEF P!parseDeliveredAmount
    <3>3. ~(partial /\ (partial => l.version > LastUnrecorded) /\ l.delivered # t.Amount)
          /\ (~partial => l.delivered = t.Amount)
      BY <2>1, <2>8 DEF ToldOf
    <3>4. ~partial \/ l.version > LastUnrecorded => l.delivered = t.Amount
      BY <3>3
    <3> HIDE DEF told, partial
    <3>5. ASSUME ~partial \/ l.version > LastUnrecorded PROVE Goal
      BY <2>4, <2>8, <3>2, <3>4, <3>5
    <3>6. ASSUME ~(~partial \/ l.version > LastUnrecorded) PROVE Goal
      BY <2>3, <3>2, <3>6
    <3> QED
      BY <3>5, <3>6
  <2> HIDE DEF told, Goal
  <2>9. Goal
    BY <2>5, <2>6, <2>7, <2>8
  <2> QED
    BY <2>2, <2>9 DEF P!DeliveredIsTold, told, Goal
<1> QED
  BY <1>1, PaymentInit, PaymentStep, PTL DEF Spec

(* ------------------------------ Order books ---------------------------- *)

Value == Nat \ {0}
RippledIssued == [currency : {"USD"}, issuer : Issuers, value : Value]
Offer == [Account : Makers, Sequence : Nat, TakerGets : RippledIssued,
          TakerPays : RippledIssued, Flags : SUBSET {16, 17}]

LEMMA QualityTyped == \A o \in Offer : O!Quality(o) \in Int
<1>1. \A x, y \in Value : x \div y \in Int
  BY DEF Value
<1>2. \A o \in Offer : o.TakerPays.value \in Value /\ o.TakerGets.value \in Value
  BY DEF Offer, RippledIssued
<1> QED
  BY <1>1, <1>2, Zenon DEF O!Quality

(* The amounts of an issue, there and back.                                *)
LEMMA AmountThereAndBack ==
  /\ \A issue \in O!Issues : \A n \in Value :
       LET amount == [currency |-> issue.currency, value |-> n,
                      counterparty |-> issue.counterparty]
       IN O!toRippledAmount(amount) \in RippledIssued
  /\ \A amount \in RippledIssued :
       O!parseAmount(amount) = [currency |-> amount.currency, value |-> amount.value,
                                counterparty |-> amount.issuer]
<1>1. ASSUME NEW issue \in O!Issues, NEW n \in Value
      PROVE  O!toRippledAmount([currency |-> issue.currency, value |-> n,
                                counterparty |-> issue.counterparty]) \in RippledIssued
  <2>1. issue.currency = "USD" /\ issue.counterparty \in Issuers
    BY DEF O!Issues
  <2>2. O!toRippledAmount([currency |-> issue.currency, value |-> n,
                           counterparty |-> issue.counterparty])
          = [currency |-> issue.currency, issuer |-> issue.counterparty, value |-> n]
    BY <2>1 DEF O!toRippledAmount
  <2> QED
    BY <2>1, <2>2 DEF RippledIssued
<1>2. ASSUME NEW amount \in RippledIssued
      PROVE  O!parseAmount(amount) = [currency |-> amount.currency, value |-> amount.value,
                                      counterparty |-> amount.issuer]
  <2>1. ~O!isDrops(amount)
    BY DEF RippledIssued, O!isDrops
  <2> QED
    BY <2>1, Zenon DEF O!parseAmount, O!Amount
<1> QED
  BY <1>1, <1>2

Direction(side) == IF side = "asks" THEN "sell" ELSE "buy"

(* An offer of a side of the book of base and counter, turned to the base. *)
LEMMA TurnedToBase ==
  ASSUME NEW o \in Offer, NEW base \in O!Issues, NEW counter \in O!Issues, base # counter,
         NEW side \in O!Sides, O!InBook(o, O!RequestOf(side, base, counter))
  PROVE  LET a == O!alignOrder(base, O!parseOrderbookOrder(o))
         IN /\ a.maker = o.Account /\ a.sequence = o.Sequence
            /\ a.specification.direction = Direction(side)
            /\ a.specification.quantity.counterparty = base.counterparty
            /\ a.specification.totalPrice.counterparty = counter.counterparty
<1> DEFINE p == O!parseOrderbookOrder(o)
           spec == p.specification
           a == O!alignOrder(base, p)
           gets == O!parseAmount(o.TakerGets)
           pays == O!parseAmount(o.TakerPays)
           sell == 17 \in o.Flags
<1>1. /\ base.currency = "USD" /\ counter.currency = "USD"
      /\ base.counterparty # counter.counterparty
  BY DEF O!Issues
<1>2. /\ gets = [currency |-> o.TakerGets.currency, value |-> o.TakerGets.value,
                 counterparty |-> o.TakerGets.issuer]
      /\ pays = [currency |-> o.TakerPays.currency, value |-> o.TakerPays.value,
                 counterparty |-> o.TakerPays.issuer]
      /\ o.TakerGets.currency = "USD" /\ o.TakerPays.currency = "USD"
  <2>1. o.TakerGets \in RippledIssued /\ o.TakerPays \in RippledIssued
    BY DEF Offer
  <2> QED
    BY <2>1, AmountThereAndBack DEF RippledIssued
<1>3. IF side = "asks"
      THEN o.TakerGets.issuer = base.counterparty /\ o.TakerPays.issuer = counter.counterparty
      ELSE o.TakerGets.issuer = counter.counterparty /\ o.TakerPays.issuer = base.counterparty
  BY DEF O!InBook, O!RequestOf, O!renameCounterpartyToIssuer
<1>4. /\ p = [specification |-> spec, maker |-> o.Account, sequence |-> o.Sequence,
              makerExchangeRate |-> p.makerExchangeRate]
      /\ spec.direction = IF sell THEN "sell" ELSE "buy"
      /\ spec.quantity = IF sell THEN gets ELSE pays
      /\ spec.totalPrice = IF sell THEN pays ELSE gets
      /\ DOMAIN spec = {"direction", "quantity", "totalPrice", "options", "orderToReplace"}
  <2> HIDE DEF gets, pays
  <2>1. O!orderFlags.Sell = 17
    BY DEF O!orderFlags
  <2> QED
    BY <2>1 DEF O!parseOrderbookOrder, O!parseOffer, O!Specification, gets, pays
<1>5. /\ spec.quantity.currency = "USD"
      /\ spec.quantity.counterparty = IF sell THEN o.TakerGets.issuer ELSE o.TakerPays.issuer
      /\ spec.totalPrice.counterparty = IF sell THEN o.TakerPays.issuer ELSE o.TakerGets.issuer
  <2> HIDE DEF spec
  <2> QED
    BY <1>2, <1>4
<1> HIDE DEF spec, gets, pays
<1>6. CASE O!isSameIssue(spec.quantity, base)
  <2>1. a = p
    BY <1>6 DEF O!alignOrder, spec
  <2>2. sell <=> side = "asks"
    BY <1>1, <1>3, <1>5, <1>6 DEF O!isSameIssue
  <2> HIDE DEF a, p
  <2>3. p.maker = o.Account /\ p.sequence = o.Sequence /\ p.specification = spec
    BY <1>4
  <2>4. spec.direction = Direction(side)
    BY <1>4, <2>2 DEF Direction
  <2>5. /\ spec.quantity.counterparty = base.counterparty
        /\ spec.totalPrice.counterparty = counter.counterparty
    BY <1>3, <1>5, <2>2
  <2> QED
    BY <2>1, <2>3, <2>4, <2>5, Zenon DEF a, p
<1>7. CASE ~O!isSameIssue(spec.quantity, base)
  <2>1. a = O!flipOrder(p)
    BY <1>7 DEF O!alignOrder, spec
  <2>2. ~(sell <=> side = "asks")
    BY <1>1, <1>3, <1>5, <1>7 DEF O!isSameIssue
  <2> HIDE DEF p
  <2>3. DOMAIN p = {"specification", "maker", "sequence", "makerExchangeRate"}
        /\ p.maker = o.Account /\ p.sequence = o.Sequence /\ p.specification = spec
    BY <1>4
  <2> HIDE DEF a
  <2>4. /\ a.maker = p.maker /\ a.sequence = p.sequence
        /\ a.specification.quantity = spec.totalPrice
        /\ a.specification.totalPrice = spec.quantity
        /\ a.specification.direction = IF spec.direction = "buy" THEN "sell" ELSE "buy"
    <3>1. a = [p EXCEPT !.specification.quantity = p.specification.totalPrice,
                        !.specification.totalPrice = p.specification.quantity,
                        !.specification.direction = IF @ = "buy" THEN "sell" ELSE "buy"]
      BY <2>1, Zenon DEF O!flipOrder
    <3> DEFINE x == [p EXCEPT !.specification.quantity = spec.totalPrice]
               y == [x EXCEPT !.specification.totalPrice = spec.quantity]
               z == [y EXCEPT !.specification.direction = IF @ = "buy" THEN "sell" ELSE "buy"]
    <3>2. a = z
      BY <2>3, <3>1
    <3>3. /\ DOMAIN x = DOMAIN p /\ x.maker = p.maker /\ x.sequence = p.sequence
          /\ x.specification = [spec EXCEPT !.quantity = spec.totalPrice]
      BY <2>3
    <3> HIDE DEF x
    <3>4. /\ DOMAIN y = DOMAIN p /\ y.maker = p.maker /\ y.sequence = p.sequence
          /\ y.specification = [x.specification EXCEPT !.totalPrice = spec.quantity]
      BY <2>3, <3>3
    <3> HIDE DEF y
    <3>5. /\ z.maker = p.maker /\ z.sequence = p.sequence
          /\ z.specification
               = [y.specification EXCEPT !.direction = IF @ = "buy" THEN "sell" ELSE "buy"]
      BY <2>3, <3>4
    <3> HIDE DEF z
    <3> DEFINE u == x.specification
               v == y.specification
               w == z.specification
    <3>6. /\ DOMAIN u = DOMAIN spec /\ u.quantity = spec.totalPrice
          /\ u.direction = spec.direction
      BY <1>4, <3>3
    <3>7. v = [u EXCEPT !.totalPrice = spec.quantity]
      BY <3>4
    <3> HIDE DEF u
    <3>8. /\ DOMAIN v = DOMAIN spec /\ v.quantity = spec.totalPrice
          /\ v.totalPrice = spec.quantity /\ v.direction = spec.direction
      BY <1>4, <3>6, <3>7
    <3>9. w = [v EXCEPT !.direction = IF @ = "buy" THEN "sell" ELSE "buy"]
      BY <3>5
    <3> HIDE DEF v
    <3>10. /\ w.quantity = spec.totalPrice /\ w.totalPrice = spec.quantity
           /\ w.direction = IF spec.direction = "buy" THEN "sell" ELSE "buy"
      BY <1>4, <3>8, <3>9
    <3> QED
      BY <3>2, <3>5, <3>10
  <2>5. a.specification.direction = Direction(side)
    BY <1>4, <2>2, <2>4 DEF Direction, O!Sides
  <2>6. /\ spec.totalPrice.counterparty = base.counterparty
        /\ spec.quantity.counterparty = counter.counterparty
    BY <1>3, <1>5, <2>2
  <2> QED
    BY <2>3, <2>4, <2>5, <2>6, Zenon DEF a, p
<1> QED
  BY <1>6, <1>7

(* before is a strict total order of elems.                                    *)
Ordered(elems, before) ==
  /\ \A x \in elems : <<x, x>> \notin before
  /\ \A x, y \in elems : x # y => <<x, y>> \in before \/ <<y, x>> \in before
  /\ \A x, y, z \in elems : <<x, y>> \in before /\ <<y, z>> \in before => <<x, z>> \in before

(* InOrder has every element once, and in order.                           *)
LEMMA InOrderFacts ==
  ASSUME NEW elems, IsFiniteSet(elems), NEW before, Ordered(elems, before)
  PROVE  LET n == Cardinality(elems)
             f == O!InOrder(elems, before)
         IN /\ n \in Nat /\ f \in [1 .. n -> elems]
            /\ \A x \in elems : \E k \in 1 .. n : f[k] = x
            /\ \A j, k \in 1 .. n : j < k => <<f[j], f[k]>> \in before
<1> DEFINE n == Cardinality(elems)
           Lower(x) == {y \in elems : <<y, x>> \in before}
           f == O!InOrder(elems, before)
           rank == [x \in elems |-> Cardinality(Lower(x)) + 1]
<1>1. n \in Nat
  BY FS_CardinalityType
<1>2. \A x \in elems : IsFiniteSet(Lower(x)) /\ Cardinality(Lower(x)) \in Nat
  <2>1. \A x \in elems : Lower(x) \in SUBSET elems
    OBVIOUS
  <2> HIDE DEF Lower
  <2> QED
    BY <2>1, FS_Subset, FS_CardinalityType
<1>3. \A x, y \in elems : <<x, y>> \in before => Cardinality(Lower(x)) < Cardinality(Lower(y))
  <2> SUFFICES ASSUME NEW x \in elems, NEW y \in elems, <<x, y>> \in before
               PROVE  Cardinality(Lower(x)) < Cardinality(Lower(y))
    OBVIOUS
  <2>1. Lower(x) \in SUBSET Lower(y) /\ x \in Lower(y) /\ x \notin Lower(x)
    BY DEF Ordered
  <2> HIDE DEF Lower
  <2> QED
    BY <1>2, <2>1, FS_Subset
<1>4. \A x \in elems : Cardinality(Lower(x)) < n
  <2> SUFFICES ASSUME NEW x \in elems PROVE Cardinality(Lower(x)) < n
    OBVIOUS
  <2>1. Lower(x) \in SUBSET elems /\ x \notin Lower(x)
    BY DEF Ordered
  <2> HIDE DEF Lower
  <2> QED
    BY <1>1, <1>2, <2>1, FS_Subset
<1>5. rank \in [elems -> 1 .. n]
  <2> HIDE DEF Lower
  <2> QED
    BY <1>1, <1>2, <1>4
<1>6. \A x, y \in elems : <<x, y>> \in before => rank[x] < rank[y]
  <2> HIDE DEF Lower
  <2> QED
    BY <1>2, <1>3
<1>7. rank \in Injection(elems, 1 .. n)
  <2> HIDE DEF rank
  <2>1. ASSUME NEW x \in elems, NEW y \in elems, rank[x] = rank[y] PROVE x = y
    <3>1. rank[x] \in Int /\ rank[y] \in Int
      BY <1>1, <1>5
    <3>2. ~(rank[x] < rank[y]) /\ ~(rank[y] < rank[x])
      BY <2>1, <3>1
    <3>3. <<x, y>> \notin before /\ <<y, x>> \notin before
      BY <1>6, <3>2, Zenon
    <3> QED
      BY <3>3, Zenon DEF Ordered
  <2> QED
    BY <1>5, <2>1, Zenon DEF Injection, IsInjective
<1>8. rank \in Surjection(elems, 1 .. n)
  <2> HIDE DEF rank
  <2>1. IsFiniteSet(1 .. n) /\ Cardinality(1 .. n) = n
    BY <1>1, FS_Interval
  <2> QED
    BY <1>7, <2>1, FS_Injection
<1> DEFINE at(k) == CHOOSE y \in elems : Cardinality(Lower(y)) = k - 1
<1>13. f = [k \in 1 .. n |-> at(k)]
  BY DEF O!InOrder, O!Cardinality, Cardinality
<1>9. \A k \in 1 .. n : at(k) \in elems /\ rank[at(k)] = k
  <2> SUFFICES ASSUME NEW k \in 1 .. n PROVE at(k) \in elems /\ rank[at(k)] = k
    OBVIOUS
  <2> HIDE DEF Lower
  <2>1. PICK x \in elems : rank[x] = k
    BY <1>8 DEF Surjection
  <2>2. Cardinality(Lower(x)) = k - 1
    BY <1>1, <1>2, <2>1
  <2>4. at(k) \in elems /\ Cardinality(Lower(at(k))) = k - 1
    BY <2>2
  <2> HIDE DEF at
  <2> QED
    BY <1>1, <2>4
<1> HIDE DEF f, rank, at
<1>10. f \in [1 .. n -> elems] /\ \A k \in 1 .. n : f[k] \in elems /\ rank[f[k]] = k
  BY <1>9, <1>13
<1>11. ASSUME NEW x \in elems PROVE \E k \in 1 .. n : f[k] = x
  <2>1. rank[x] \in 1 .. n
    BY <1>5
  <2>2. f[rank[x]] \in elems /\ rank[f[rank[x]]] = rank[x]
    BY <1>10, <2>1
  <2>3. f[rank[x]] = x
    BY <1>7, <2>2 DEF Injection, IsInjective
  <2> QED
    BY <2>1, <2>3
<1>12. ASSUME NEW j \in 1 .. n, NEW k \in 1 .. n, j < k
       PROVE  <<f[j], f[k]>> \in before
  <2>1. /\ f[j] \in elems /\ f[k] \in elems /\ rank[f[j]] = j /\ rank[f[k]] = k
    BY <1>10
  <2>2. f[j] # f[k]
    BY <1>1, <1>12, <2>1
  <2>3. ~(<<f[k], f[j]>> \in before)
    BY <1>1, <1>6, <1>12, <2>1
  <2> QED
    BY <2>1, <2>2, <2>3 DEF Ordered
<1> QED
  BY <1>1, <1>10, <1>11, <1>12 DEF f

(* The offers at some places, each of them once, in any order.             *)
LEMMA SortedPlaces ==
  ASSUME NEW offers \in Seq(Offer), NEW places \in SUBSET (1 .. Len(offers))
  PROVE  LET sorted == O!sortByQuality(offers, places)
         IN /\ \A k \in DOMAIN sorted : sorted[k] \in places
            /\ \A i \in places : \E k \in DOMAIN sorted : sorted[k] = i
<1> DEFINE q(i) == O!Quality(offers[i])
           d(i) == O!FirstDigit(q(i))
           Precedes(i, j) == \/ O!StringBefore(q(i), q(j))
                             \/ q(i) = q(j) /\ i < j
           before == {p \in places \X places : Precedes(p[1], p[2])}
           sorted == O!sortByQuality(offers, places)
<1>1. sorted = O!InOrder(places, before)
  BY DEF O!sortByQuality
<1>2. \A i \in places : q(i) \in Int /\ i \in Int
  <2>1. \A i \in places : offers[i] \in Offer /\ i \in Int
    BY LenProperties
  <2> QED
    BY <2>1, QualityTyped
<1>3. \A i \in places : d(i) \in Int
  <2>1. \A n \in Int : O!FirstDigit(n) \in Int
    BY DEF O!FirstDigit
  <2> HIDE DEF q
  <2> QED
    BY <1>2, <2>1
<1>4. \A i, j \in places :
        Precedes(i, j) <=> \/ d(i) < d(j)
                           \/ d(i) = d(j) /\ q(i) < q(j)
                           \/ q(i) = q(j) /\ i < j
  <2> HIDE DEF q
  <2> QED
    BY Zenon DEF O!StringBefore
<1>7. \A i, j \in places : q(i) = q(j) => d(i) = d(j)
  <2> HIDE DEF q
  <2> QED
    BY Zenon
<1>5. \A i, j \in places : <<i, j>> \in before <=> Precedes(i, j)
  <2> HIDE DEF Precedes
  <2> QED
    OBVIOUS
<1>6. Ordered(places, before)
  <2> HIDE DEF q, d, Precedes, before
  <2>1. \A i \in places : ~Precedes(i, i)
    BY <1>2, <1>3, <1>4
  <2>2. \A i, j \in places : i # j => Precedes(i, j) \/ Precedes(j, i)
    <3> SUFFICES ASSUME NEW i \in places, NEW j \in places, i # j
                 PROVE  Precedes(i, j) \/ Precedes(j, i)
      OBVIOUS
    <3> QED
      BY <1>2, <1>3, <1>4
  <2>3. \A i, j, k \in places : Precedes(i, j) /\ Precedes(j, k) => Precedes(i, k)
    <3> SUFFICES ASSUME NEW i \in places, NEW j \in places, NEW k \in places,
                        Precedes(i, j), Precedes(j, k)
                 PROVE  Precedes(i, k)
      OBVIOUS
    <3>1. /\ d(i) < d(j) \/ (d(i) = d(j) /\ q(i) < q(j)) \/ (q(i) = q(j) /\ i < j)
          /\ d(j) < d(k) \/ (d(j) = d(k) /\ q(j) < q(k)) \/ (q(j) = q(k) /\ j < k)
      BY <1>4
    <3>2. (q(i) = q(j) => d(i) = d(j)) /\ (q(j) = q(k) => d(j) = d(k))
      BY <1>7
    <3>3. d(i) < d(k) \/ (d(i) = d(k) /\ q(i) < q(k)) \/ (q(i) = q(k) /\ i < k)
      BY <1>2, <1>3, <3>1, <3>2
    <3> QED
      BY <1>4, <3>3
  <2> QED
    BY <1>5, <2>1, <2>2, <2>3, Zenon DEF Ordered
<1>8. IsFiniteSet(places)
  <2>1. Len(offers) \in Nat /\ IsFiniteSet(1 .. Len(offers))
    BY FS_Interval
  <2> QED
    BY <2>1, FS_Subset
<1> HIDE DEF before, sorted
<1>9. /\ sorted \in [1 .. Cardinality(places) -> places]
      /\ \A i \in places : \E k \in 1 .. Cardinality(places) : sorted[k] = i
  BY <1>1, <1>6, <1>8, InOrderFacts
<1> QED
  BY <1>9 DEF sorted

OtherSide(side) == IF side = "asks" THEN "bids" ELSE "asks"

(* A side of a book has these offers, turned to base and counter.          *)
SideIs(listed, base, counter, offers) ==
  /\ {<<o.maker, o.sequence>> : o \in O!ToSet(listed)}
       = {<<o.Account, o.Sequence>> : o \in offers}
  /\ \A o \in O!ToSet(listed) :
       /\ o.specification.quantity.counterparty = base.counterparty
       /\ o.specification.totalPrice.counterparty = counter.counterparty

(* The offers of a side are those that were answered for it.               *)
LEMMA FacingIs ==
  ASSUME NEW base \in O!Issues, NEW counter \in O!Issues, base # counter,
         NEW side \in O!Sides, NEW X \in SUBSET Offer, NEW Y \in SUBSET Offer,
         NEW offers \in Seq(Offer), O!ToSet(offers) = X \cup Y,
         \A o \in X : O!InBook(o, O!RequestOf(side, base, counter)),
         \A o \in Y : O!InBook(o, O!RequestOf(OtherSide(side), base, counter))
  PROVE  SideIs(O!formatBidsAndAsks(base, offers)[side], base, counter, X)
<1> DEFINE Aligned(o) == O!alignOrder(base, O!parseOrderbookOrder(o))
           N == Len(offers)
           places == {i \in DOMAIN offers :
                        Aligned(offers[i]).specification.direction = Direction(side)}
           sorted == O!sortByQuality(offers, places)
           listed == O!formatBidsAndAsks(base, offers)[side]
<1>1. listed = [k \in DOMAIN sorted |-> Aligned(offers[sorted[k]])]
  <2>1. CASE side = "asks"
    BY <2>1, Zenon DEF O!formatBidsAndAsks, Direction
  <2>2. CASE side = "bids"
    BY <2>2, Zenon DEF O!formatBidsAndAsks, Direction
  <2> QED
    BY <2>1, <2>2 DEF O!Sides
<1>2. \A o \in X : /\ Aligned(o).maker = o.Account /\ Aligned(o).sequence = o.Sequence
                   /\ Aligned(o).specification.direction = Direction(side)
                   /\ Aligned(o).specification.quantity.counterparty = base.counterparty
                   /\ Aligned(o).specification.totalPrice.counterparty = counter.counterparty
  BY TurnedToBase
<1>3. \A o \in Y : Aligned(o).specification.direction # Direction(side)
  <2>1. OtherSide(side) \in O!Sides /\ Direction(OtherSide(side)) # Direction(side)
    BY DEF OtherSide, Direction, O!Sides
  <2>2. \A o \in Y : Aligned(o).specification.direction = Direction(OtherSide(side))
    BY <2>1, TurnedToBase
  <2> HIDE DEF Aligned
  <2> QED
    BY <2>1, <2>2
<1> HIDE DEF Aligned
<1>4. DOMAIN offers = 1 .. N /\ {offers[i] : i \in 1 .. N} = X \cup Y
  BY DEF O!ToSet
<1>5. places \in SUBSET (1 .. N) /\ \A i \in places : offers[i] \in X
  BY <1>3, <1>4
<1>6. \A o \in X : \E i \in places : offers[i] = o
  BY <1>2, <1>4
<1>7. /\ \A k \in DOMAIN sorted : sorted[k] \in places
      /\ \A i \in places : \E k \in DOMAIN sorted : sorted[k] = i
  <2> HIDE DEF places
  <2> QED
    BY <1>5, SortedPlaces
<1> HIDE DEF places, sorted, listed
<1>8. O!ToSet(listed) = {Aligned(o) : o \in X}
  <2>1. ASSUME NEW o \in X PROVE Aligned(o) \in O!ToSet(listed)
    <3>1. PICK k \in DOMAIN sorted : offers[sorted[k]] = o
      BY <1>6, <1>7
    <3> QED
      BY <1>1, <3>1 DEF O!ToSet
  <2>2. ASSUME NEW a \in O!ToSet(listed) PROVE \E o \in X : a = Aligned(o)
    <3>1. PICK k \in DOMAIN sorted : a = Aligned(offers[sorted[k]])
      BY <1>1 DEF O!ToSet
    <3> QED
      BY <1>5, <1>7, <3>1
  <2> QED
    BY <2>1, <2>2
<1>9. {<<o.maker, o.sequence>> : o \in O!ToSet(listed)} = {<<o.Account, o.Sequence>> : o \in X}
  BY <1>2, <1>8
<1>10. \A o \in O!ToSet(listed) :
         /\ o.specification.quantity.counterparty = base.counterparty
         /\ o.specification.totalPrice.counterparty = counter.counterparty
  BY <1>2, <1>8
<1> QED
  BY <1>9, <1>10 DEF listed, SideIs

(* The state of orders and of getOrderbook.                                *)

(* The offers of ledger v; a sequence number is that of a ledger.          *)
OffersOk(offers, v) ==
  /\ offers \in SUBSET Offer /\ IsFiniteSet(offers)
  /\ \A o \in offers : o.Sequence <= v
  /\ \A o, p \in offers : o.Sequence = p.Sequence => o = p

LedgersOk ==
  /\ ledgers \in Seq(SUBSET Offer) /\ Len(ledgers) >= 1
  /\ \A v \in 1 .. Len(ledgers) : OffersOk(ledgers[v], v)

CallOk ==
  call # None =>
    /\ call.base \in O!Issues /\ call.counter \in O!Issues /\ call.base # call.counter
    /\ call.ledgerVersion \in 0 .. Len(ledgers) /\ call.since \in 1 .. Len(ledgers)

(* The ledgers that getOrderbook may answer from, and its offers of a side. *)
Allowed == IF call.ledgerVersion = 0 THEN call.since .. Len(ledgers)
           ELSE {call.ledgerVersion}
OffersOf(side, v) ==
  {o \in ledgers[v] : O!InBook(o, O!RequestOf(side, call.base, call.counter))}

Answered(side) ==
  LET offers == answers[side].offers
  IN \E v \in Allowed :
       offers \in Seq(Offer) /\ O!ToSet(offers) = OffersOf(side, v)

AnswersOk ==
  /\ DOMAIN answers = O!Sides
  /\ call = None => book = None /\ \A side \in O!Sides : answers[side] = None
  /\ \A side \in O!Sides : answers[side] # None => Answered(side)

OrderInv == LedgersOk /\ CallOk /\ AnswersOk /\ O!BookOfALedger

LEMMA AllowedThere ==
  ASSUME LedgersOk, CallOk, call # None
  PROVE  Allowed \in SUBSET (1 .. Len(ledgers))
<1>1. Len(ledgers) \in Nat
  BY DEF LedgersOk
<1> QED
  BY <1>1 DEF CallOk, Allowed

(* A ledger is added; those before it are as they were.                    *)
LEMMA LedgerAdded ==
  ASSUME OrderInv, NEW offers, OffersOk(offers, Len(ledgers) + 1),
         ledgers' = Append(ledgers, offers), UNCHANGED <<call, answers, book>>
  PROVE  OrderInv'
<1> DEFINE n == Len(ledgers)
<1>1. /\ n \in Nat /\ n >= 1 /\ ledgers \in Seq(SUBSET Offer) /\ offers \in SUBSET Offer
      /\ \A v \in 1 .. n : OffersOk(ledgers[v], v)
  BY DEF OrderInv, LedgersOk, OffersOk
<1>2. /\ ledgers' \in Seq(SUBSET Offer) /\ Len(ledgers') = n + 1
      /\ \A v \in 1 .. n : ledgers'[v] = ledgers[v]
      /\ ledgers'[n + 1] = offers
  BY <1>1
<1>3. LedgersOk'
  <2>1. ASSUME NEW v \in 1 .. n + 1 PROVE OffersOk(ledgers'[v], v)
    <3>1. v \in 1 .. n \/ v = n + 1
      BY <1>1
    <3> QED
      BY <1>1, <1>2, <3>1
  <2>2. n + 1 >= 1
    BY <1>1
  <2> QED
    BY <1>2, <2>1, <2>2 DEF LedgersOk, OffersOk
<1>4. CallOk'
  <2>1. 0 .. n \subseteq 0 .. n + 1 /\ 1 .. n \subseteq 1 .. n + 1
    BY <1>1
  <2> QED
    BY <1>2, <2>1 DEF OrderInv, CallOk
<1>5. call # None =>
        /\ Allowed \in SUBSET Allowed' /\ Allowed \in SUBSET (1 .. n)
        /\ \A side \in O!Sides : \A v \in Allowed : OffersOf(side, v)' = OffersOf(side, v)
  <2> SUFFICES ASSUME call # None
               PROVE  /\ Allowed \in SUBSET Allowed' /\ Allowed \in SUBSET (1 .. n)
                      /\ \A side \in O!Sides : \A v \in Allowed : OffersOf(side, v)' = OffersOf(side, v)
    OBVIOUS
  <2>1. Allowed \in SUBSET (1 .. n)
    BY AllowedThere DEF OrderInv
  <2>2. Allowed \in SUBSET Allowed'
    BY <1>1, <1>2 DEF Allowed, OrderInv, CallOk
  <2>3. \A side \in O!Sides : \A v \in Allowed : OffersOf(side, v)' = OffersOf(side, v)
    BY <1>2, <2>1 DEF OffersOf
  <2> QED
    BY <2>1, <2>2, <2>3
<1>6. AnswersOk'
  <2>1. \A side \in O!Sides : answers[side] # None => call # None /\ Answered(side)
    BY DEF OrderInv, AnswersOk
  <2>2. ASSUME NEW side \in O!Sides, answers[side] # None PROVE Answered(side)'
    <3>1. call # None /\ Answered(side)
      BY <2>1, <2>2
    <3>2. PICK v \in Allowed :
            /\ answers[side].offers \in Seq(Offer)
            /\ O!ToSet(answers[side].offers) = OffersOf(side, v)
      BY <3>1 DEF Answered
    <3>3. v \in Allowed' /\ OffersOf(side, v)' = OffersOf(side, v) /\ answers' = answers
      BY <1>5, <3>1
    <3> QED
      BY <3>2, <3>3 DEF Answered
  <2> QED
    BY <2>2 DEF OrderInv, AnswersOk
<1>7. O!BookOfALedger'
  <2>1. book # None => call # None
    BY DEF OrderInv, AnswersOk
  <2> QED
    BY <1>5, <2>1 DEF OrderInv, O!BookOfALedger, Allowed, OffersOf, O!validated, None, O!None
<1> QED
  BY <1>3, <1>4, <1>6, <1>7 DEF OrderInv

(* The offers after a transaction are those of the next ledger.            *)
LEMMA AppliedOk ==
  ASSUME NEW n \in Nat, NEW offers, OffersOk(offers, n), NEW t,
         t.TransactionType = "OfferCreate" =>
           O!OfferOf(t, n + 1) \in Offer /\ O!OfferOf(t, n + 1).Sequence = n + 1
  PROVE  OffersOk(O!Apply(offers, t, n + 1), n + 1)
<1> DEFINE made == O!OfferOf(t, n + 1)
           left == {o \in offers : ~(o.Account = t.Account /\ o.Sequence = t.OfferSequence)}
<1>1. /\ left \in SUBSET offers /\ offers \in SUBSET Offer /\ IsFiniteSet(offers)
      /\ \A o \in offers : o.Sequence \in Nat /\ o.Sequence <= n
      /\ \A o, p \in offers : o.Sequence = p.Sequence => o = p
  BY DEF OffersOk, Offer
<1>2. \/ O!Apply(offers, t, n + 1) = left
      \/ /\ t.TransactionType = "OfferCreate"
         /\ O!Apply(offers, t, n + 1) = left \cup {made}
  BY DEF O!Apply
<1> HIDE DEF left, made
<1>3. IsFiniteSet(left) /\ IsFiniteSet(left \cup {made})
  BY <1>1, FS_Subset, FS_AddElement
<1>4. \A o \in left : o.Sequence <= n + 1 /\ o.Sequence # n + 1
  BY <1>1
<1>5. OffersOk(left, n + 1)
  BY <1>1, <1>3, <1>4 DEF OffersOk
<1>6. ASSUME made \in Offer, made.Sequence = n + 1 PROVE OffersOk(left \cup {made}, n + 1)
  BY <1>1, <1>3, <1>4, <1>6 DEF OffersOk
<1> QED
  BY <1>2, <1>5, <1>6 DEF made

(* The offer of an order that is placed.                                   *)
LEMMA PlacedIsOffer ==
  ASSUME NEW maker \in Makers, NEW direction \in {"buy", "sell"},
         NEW gets \in O!Issues, NEW pays \in O!Issues,
         NEW rate \in OrderRates, NEW lots \in Lots, NEW options, NEW replaced,
         NEW n \in Nat
  PROVE  LET Of(issue, value) == [currency |-> issue.currency, value |-> value,
                                  counterparty |-> issue.counterparty]
             placed == [direction |-> direction,
                        quantity |-> IF direction = "buy" THEN Of(pays, rate * lots)
                                     ELSE Of(gets, lots),
                        totalPrice |-> IF direction = "buy" THEN Of(gets, lots)
                                       ELSE Of(pays, rate * lots),
                        options |-> options, orderToReplace |-> replaced]
             t == O!setCanonicalFlag(O!createOrderTransaction(maker, placed))
         IN O!OfferOf(t, n) \in Offer /\ O!OfferOf(t, n).Sequence = n
<1> DEFINE Of(issue, value) == [currency |-> issue.currency, value |-> value,
                                counterparty |-> issue.counterparty]
           placed == [direction |-> direction,
                      quantity |-> IF direction = "buy" THEN Of(pays, rate * lots)
                                   ELSE Of(gets, lots),
                      totalPrice |-> IF direction = "buy" THEN Of(gets, lots)
                                     ELSE Of(pays, rate * lots),
                      options |-> options, orderToReplace |-> replaced]
           created == O!createOrderTransaction(maker, placed)
           t == O!setCanonicalFlag(created)
           offer == O!OfferOf(t, n)
<1>1. lots \in Value /\ rate * lots \in Value
  <2>1. rate \in Int /\ rate >= 1 /\ lots \in Int /\ lots >= 1
    BY RatesAssumption
  <2> QED
    BY <2>1 DEF Value
<1>2. /\ O!toRippledAmount(Of(gets, lots)) \in RippledIssued
      /\ O!toRippledAmount(Of(pays, rate * lots)) \in RippledIssued
  BY <1>1, AmountThereAndBack
<1> HIDE DEF Of
<1>3. /\ created.Account = maker
      /\ created.TakerGets = O!toRippledAmount(Of(gets, lots))
      /\ created.TakerPays = O!toRippledAmount(Of(pays, rate * lots))
      /\ DOMAIN created = {"TransactionType", "Account", "TakerGets", "TakerPays", "Flags",
                           "OfferSequence"}
  BY DEF O!createOrderTransaction
<1> HIDE DEF created
<1>4. /\ t.Account = maker /\ t.TakerGets = created.TakerGets
      /\ t.TakerPays = created.TakerPays
  BY <1>3 DEF O!setCanonicalFlag
<1> HIDE DEF t
<1>5. offer = [Account |-> maker, Sequence |-> n, TakerGets |-> created.TakerGets,
               TakerPays |-> created.TakerPays,
               Flags |-> (IF 19 \in t.Flags THEN {17} ELSE {}) \cup (t.Flags \cap {16})]
  BY <1>4 DEF O!OfferOf
<1>6. (IF 19 \in t.Flags THEN {17} ELSE {}) \cup (t.Flags \cap {16}) \in SUBSET {16, 17}
  OBVIOUS
<1>7. offer \in Offer /\ offer.Sequence = n
  BY <1>2, <1>3, <1>5, <1>6 DEF Offer
<1> QED
  BY <1>7 DEF offer, t, created, Of

LEMMA LastLedger ==
  ASSUME LedgersOk
  PROVE  /\ Len(ledgers) \in Nat
         /\ O!Last(ledgers) = ledgers[Len(ledgers)]
         /\ OffersOk(O!Last(ledgers), Len(ledgers))
         /\ \A offers : OffersOk(offers, Len(ledgers)) => OffersOk(offers, Len(ledgers) + 1)
<1>1. Len(ledgers) \in Nat /\ Len(ledgers) >= 1
  BY DEF LedgersOk
<1>2. O!Last(ledgers) = ledgers[Len(ledgers)]
  BY DEF O!Last
<1>3. ASSUME NEW offers, OffersOk(offers, Len(ledgers))
      PROVE  OffersOk(offers, Len(ledgers) + 1)
  <2>1. \A o \in offers : o.Sequence \in Nat /\ o.Sequence <= Len(ledgers)
    BY <1>3 DEF OffersOk, Offer
  <2>2. \A o \in offers : o.Sequence <= Len(ledgers) + 1
    BY <1>1, <2>1
  <2> QED
    BY <1>3, <2>2 DEF OffersOk
<1> QED
  BY <1>1, <1>2, <1>3 DEF LedgersOk

LEMMA OrderPlaced ==
  ASSUME OrderInv, NEW maker \in Makers, O!PlaceOrder(maker) PROVE OrderInv'
<1> DEFINE n == Len(ledgers)
           Of(issue, value) == [currency |-> issue.currency, value |-> value,
                                counterparty |-> issue.counterparty]
           Placed(direction, gets, pays, rate, lots, options, replaced) ==
             [direction |-> direction,
              quantity |-> IF direction = "buy" THEN Of(pays, rate * lots)
                           ELSE Of(gets, lots),
              totalPrice |-> IF direction = "buy" THEN Of(gets, lots)
                             ELSE Of(pays, rate * lots),
              options |-> options, orderToReplace |-> replaced]
           Tx(placed) == O!setCanonicalFlag(O!createOrderTransaction(maker, placed))
<1>1. LedgersOk
  BY DEF OrderInv
<1>2. PICK direction \in {"buy", "sell"}, gets \in O!Issues, pays \in O!Issues,
           rate \in OrderRates, lots \in Lots,
           options \in {{}} \cup {{o} : o \in O!Options},
           replaced \in {0} \cup {o.Sequence : o \in O!Last(ledgers)} :
             /\ gets # pays
             /\ O!Include(Tx(Placed(direction, gets, pays, rate, lots, options, replaced)))
  BY Zenon DEF O!PlaceOrder
<1> DEFINE t == Tx(Placed(direction, gets, pays, rate, lots, options, replaced))
<1>3. ledgers' = Append(ledgers, O!Apply(O!Last(ledgers), t, n + 1))
  BY <1>2 DEF O!Include, O!validated
<1>4. n + 1 \in Nat
  BY <1>1, LastLedger
<1>5. O!OfferOf(t, n + 1) \in Offer /\ O!OfferOf(t, n + 1).Sequence = n + 1
  BY <1>4, PlacedIsOffer
<1> HIDE DEF t
<1>6. OffersOk(O!Apply(O!Last(ledgers), t, n + 1), n + 1)
  BY <1>1, <1>5, LastLedger, AppliedOk
<1>7. UNCHANGED <<call, answers, book>>
  BY DEF O!PlaceOrder
<1> QED
  BY <1>3, <1>6, <1>7, LedgerAdded

LEMMA OrderCancelled ==
  ASSUME OrderInv, O!CancelOrder PROVE OrderInv'
<1> DEFINE n == Len(ledgers)
           Tx(o) == O!setCanonicalFlag(
                      O!createOrderCancellationTransaction(o.Account, o.Sequence))
<1>1. LedgersOk
  BY DEF OrderInv
<1>2. PICK o \in O!Last(ledgers) : O!Include(Tx(o))
  BY DEF O!CancelOrder
<1>3. ledgers' = Append(ledgers, O!Apply(O!Last(ledgers), Tx(o), n + 1))
  BY <1>2 DEF O!Include, O!validated
<1>4. Tx(o).TransactionType = "OfferCancel"
  BY DEF O!setCanonicalFlag, O!createOrderCancellationTransaction
<1> HIDE DEF Tx
<1>5. OffersOk(O!Apply(O!Last(ledgers), Tx(o), n + 1), n + 1)
  BY <1>1, <1>4, LastLedger, AppliedOk
<1>6. UNCHANGED <<call, answers, book>>
  BY DEF O!CancelOrder
<1> QED
  BY <1>3, <1>5, <1>6, LedgerAdded

LEMMA OrderTaken ==
  ASSUME OrderInv, O!Trade PROVE OrderInv'
<1> DEFINE last == O!Last(ledgers)
<1>1. LedgersOk
  BY DEF OrderInv
<1>2. PICK o \in last : ledgers' = Append(ledgers, last \ {o})
  BY DEF O!Trade
<1>3. OffersOk(last, Len(ledgers) + 1)
  BY <1>1, LastLedger
<1>4. IsFiniteSet(last \ {o})
  BY <1>3, FS_RemoveElement DEF OffersOk
<1> HIDE DEF last
<1>5. OffersOk(last \ {o}, Len(ledgers) + 1)
  BY <1>3, <1>4 DEF OffersOk
<1>6. UNCHANGED <<call, answers, book>>
  BY DEF O!Trade
<1> QED
  BY <1>2, <1>5, <1>6, LedgerAdded

(* book_offers has the offers of the book, each of them.                   *)
LEMMA BookOffersIs ==
  ASSUME NEW request, NEW v \in 1 .. Len(ledgers), OffersOk(ledgers[v], v)
  PROVE  LET offers == O!BookOffers(request, v)
         IN /\ offers \in Seq(Offer)
            /\ O!ToSet(offers) = {o \in ledgers[v] : O!InBook(o, request)}
<1> DEFINE elems == {o \in ledgers[v] : O!InBook(o, request)}
           q(o) == O!Quality(o)
           Better(a, b) == \/ q(a) < q(b)
                           \/ q(a) = q(b) /\ a.Sequence < b.Sequence
           before == {p \in elems \X elems : Better(p[1], p[2])}
           offers == O!BookOffers(request, v)
<1>1. offers = O!InOrder(elems, before)
  BY DEF O!BookOffers
<1>2. /\ elems \in SUBSET Offer /\ elems \in SUBSET ledgers[v] /\ IsFiniteSet(ledgers[v])
      /\ \A a, b \in elems : a.Sequence = b.Sequence => a = b
  BY DEF OffersOk
<1> HIDE DEF elems, q
<1>3. IsFiniteSet(elems)
  BY <1>2, FS_Subset
<1>4. \A o \in elems : q(o) \in Int /\ o.Sequence \in Int
  <2>1. \A o \in elems : o.Sequence \in Int
    BY <1>2 DEF Offer
  <2> QED
    BY <1>2, <2>1, QualityTyped DEF q
<1>5. \A a, b \in elems : <<a, b>> \in before <=> Better(a, b)
  <2> HIDE DEF Better
  <2> QED
    OBVIOUS
<1>6. Ordered(elems, before)
  <2> HIDE DEF before
  <2>1. \A a \in elems : ~Better(a, a)
    BY <1>4
  <2>2. \A a, b \in elems : a # b => Better(a, b) \/ Better(b, a)
    BY <1>2, <1>4
  <2>3. \A a, b, c \in elems : Better(a, b) /\ Better(b, c) => Better(a, c)
    <3> SUFFICES ASSUME NEW a \in elems, NEW b \in elems, NEW c \in elems,
                        Better(a, b), Better(b, c)
                 PROVE  Better(a, c)
      OBVIOUS
    <3> QED
      BY <1>4
  <2> HIDE DEF Better
  <2> QED
    BY <1>5, <2>1, <2>2, <2>3, Zenon DEF Ordered
<1> HIDE DEF before, offers
<1>7. /\ Cardinality(elems) \in Nat /\ offers \in [1 .. Cardinality(elems) -> elems]
      /\ \A o \in elems : \E k \in 1 .. Cardinality(elems) : offers[k] = o
  BY <1>1, <1>3, <1>6, InOrderFacts
<1>8. offers \in Seq(elems) /\ Len(offers) = Cardinality(elems)
  BY <1>7
<1>9. offers \in Seq(Offer)
  BY <1>2, <1>8
<1>10. O!ToSet(offers) = elems
  BY <1>7, <1>8 DEF O!ToSet
<1> QED
  BY <1>9, <1>10 DEF offers, elems

LEMMA OrderbookAsked ==
  ASSUME OrderInv, O!GetOrderbook PROVE OrderInv'
<1>1. /\ call = None /\ ledgers' = ledgers /\ answers' = answers /\ book' = book
  BY DEF O!GetOrderbook, O!None, None
<1>2. PICK base \in O!Issues, counter \in O!Issues, ledgerVersion \in 0 .. Len(ledgers) :
        /\ base # counter
        /\ call' = [base |-> base, counter |-> counter, ledgerVersion |-> ledgerVersion,
                    since |-> Len(ledgers)]
  BY DEF O!GetOrderbook, O!validated
<1>3. book = None /\ \A side \in O!Sides : answers[side] = None
  BY <1>1 DEF OrderInv, AnswersOk
<1>4. Len(ledgers) \in 1 .. Len(ledgers)
  BY DEF OrderInv, LedgersOk
<1>5. CallOk'
  BY <1>1, <1>2, <1>4 DEF CallOk
<1>6. LedgersOk' /\ AnswersOk'
  BY <1>1, <1>3 DEF OrderInv, LedgersOk, OffersOk, AnswersOk
<1>7. O!BookOfALedger'
  BY <1>1, <1>3 DEF O!BookOfALedger, None, O!None
<1> QED
  BY <1>5, <1>6, <1>7 DEF OrderInv

LEMMA RangeOfBoth ==
  ASSUME NEW T, NEW x \in Seq(T), NEW y \in Seq(T)
  PROVE  /\ x \o y \in Seq(T)
         /\ O!ToSet(x \o y) = O!ToSet(x) \cup O!ToSet(y)
<1> DEFINE both == x \o y
<1>1. /\ Len(x) \in Nat /\ Len(y) \in Nat /\ both \in Seq(T) /\ Len(both) = Len(x) + Len(y)
      /\ \A i \in 1 .. Len(x) + Len(y) :
           both[i] = IF i <= Len(x) THEN x[i] ELSE y[i - Len(x)]
  OBVIOUS
<1> HIDE DEF both
<1>2. \A i \in 1 .. Len(both) :
        \/ \E k \in 1 .. Len(x) : both[i] = x[k]
        \/ \E k \in 1 .. Len(y) : both[i] = y[k]
  <2> SUFFICES ASSUME NEW i \in 1 .. Len(both)
               PROVE  \/ \E k \in 1 .. Len(x) : both[i] = x[k]
                      \/ \E k \in 1 .. Len(y) : both[i] = y[k]
    OBVIOUS
  <2>1. CASE i <= Len(x)
    BY <1>1, <2>1
  <2>2. CASE i > Len(x)
    <3>1. i - Len(x) \in 1 .. Len(y) /\ both[i] = y[i - Len(x)]
      BY <1>1, <2>2
    <3> QED
      BY <3>1
  <2> QED
    BY <1>1, <2>1, <2>2
<1>3. \A k \in 1 .. Len(x) : k \in 1 .. Len(both) /\ both[k] = x[k]
  BY <1>1
<1>4. \A k \in 1 .. Len(y) :
        Len(x) + k \in 1 .. Len(both) /\ both[Len(x) + k] = y[k]
  <2> SUFFICES ASSUME NEW k \in 1 .. Len(y)
               PROVE  Len(x) + k \in 1 .. Len(both) /\ both[Len(x) + k] = y[k]
    OBVIOUS
  <2>1. /\ Len(x) + k \in 1 .. Len(x) + Len(y) /\ ~(Len(x) + k <= Len(x))
        /\ (Len(x) + k) - Len(x) = k
    BY <1>1
  <2>2. both[Len(x) + k] = y[(Len(x) + k) - Len(x)]
    BY <1>1, <2>1
  <2> QED
    BY <1>1, <2>1, <2>2
<1>5. O!ToSet(both) = O!ToSet(x) \cup O!ToSet(y)
  <2>1. /\ DOMAIN both = 1 .. Len(both) /\ DOMAIN x = 1 .. Len(x)
        /\ DOMAIN y = 1 .. Len(y)
    BY <1>1
  <2>2. O!ToSet(both) \subseteq O!ToSet(x) \cup O!ToSet(y)
    BY <1>2, <2>1 DEF O!ToSet
  <2>3. O!ToSet(x) \subseteq O!ToSet(both)
    BY <1>3, <2>1 DEF O!ToSet
  <2>4. O!ToSet(y) \subseteq O!ToSet(both)
    BY <1>4, <2>1 DEF O!ToSet
  <2> QED
    BY <2>2, <2>3, <2>4
<1> QED
  BY <1>1, <1>5 DEF both

LEMMA OrderbookAnswered ==
  ASSUME OrderInv, NEW side \in O!Sides, O!AnswersBook(side) PROVE OrderInv'
<1> DEFINE v == IF call.ledgerVersion = 0 THEN Len(ledgers) ELSE call.ledgerVersion
           request == O!RequestOf(side, call.base, call.counter)
           given == O!BookOffers(request, v)
           asks == answers'["asks"].offers
           bids == answers'["bids"].offers
<1>1. /\ call # None /\ ledgers' = ledgers /\ call' = call
      /\ answers' = [answers EXCEPT ![side] = [offers |-> given]]
      /\ book' = IF O!None \in {answers'[s] : s \in O!Sides} THEN O!None
                 ELSE O!formatBidsAndAsks(call.base, asks \o bids)
  BY DEF O!AnswersBook, O!validated, None, O!None
<1>2. /\ LedgersOk /\ CallOk /\ DOMAIN answers = O!Sides
      /\ \A s \in O!Sides : answers[s] # None => Answered(s)
  BY DEF OrderInv, AnswersOk
<1>3. v \in Allowed /\ v \in 1 .. Len(ledgers) /\ OffersOk(ledgers[v], v)
  <2>1. v \in Allowed
    BY <1>1, <1>2 DEF Allowed, CallOk, LedgersOk
  <2> QED
    BY <1>1, <1>2, <2>1, AllowedThere DEF LedgersOk
<1>4. /\ given \in Seq(Offer)
      /\ O!ToSet(given) = OffersOf(side, v)
  <2> HIDE DEF v, request
  <2> QED
    BY <1>3, BookOffersIs DEF OffersOf, request
<1> HIDE DEF v, request, given
<1>5. /\ DOMAIN answers' = O!Sides /\ answers'[side].offers = given
      /\ \A s \in O!Sides : s # side => answers'[s] = answers[s]
  BY <1>1, <1>2
<1>6. LedgersOk' /\ CallOk' /\ Allowed' = Allowed
  BY <1>1, <1>2 DEF LedgersOk, OffersOk, CallOk, Allowed
<1>7. \A s \in O!Sides, u \in Allowed : OffersOf(s, u)' = OffersOf(s, u)
  BY <1>1 DEF OffersOf
<1>8. ASSUME NEW s \in O!Sides, answers'[s] # None PROVE Answered(s)'
  <2>1. CASE s = side
    BY <1>3, <1>4, <1>5, <1>6, <1>7, <2>1 DEF Answered
  <2>2. CASE s # side
    <3>1. Answered(s) /\ answers'[s] = answers[s]
      BY <1>2, <1>5, <1>8, <2>2
    <3> QED
      BY <1>6, <1>7, <3>1 DEF Answered
  <2> QED
    BY <2>1, <2>2
<1>9. AnswersOk'
  BY <1>1, <1>5, <1>8 DEF AnswersOk
<1>10. O!BookOfALedger'
  <2>1. CASE book' = None
    BY <2>1 DEF O!BookOfALedger, None, O!None
  <2>2. CASE book' # None
    <3>1. /\ answers'["asks"] # None /\ answers'["bids"] # None
          /\ book' = O!formatBidsAndAsks(call.base, asks \o bids)
      BY <1>1, <2>2 DEF None, O!None, O!Sides
    <3>2. PICK a \in Allowed :
            asks \in Seq(Offer) /\ O!ToSet(asks) = OffersOf("asks", a)
      BY <1>6, <1>7, <1>8, <3>1 DEF Answered, O!Sides
    <3>3. PICK b \in Allowed :
            bids \in Seq(Offer) /\ O!ToSet(bids) = OffersOf("bids", b)
      BY <1>6, <1>7, <1>8, <3>1 DEF Answered, O!Sides
    <3>4. /\ asks \o bids \in Seq(Offer)
          /\ O!ToSet(asks \o bids) = OffersOf("asks", a) \cup OffersOf("bids", b)
      <4> HIDE DEF asks, bids
      <4> QED
        BY <3>2, <3>3, RangeOfBoth
    <3>5. /\ OffersOf("asks", a) \in SUBSET Offer /\ OffersOf("bids", b) \in SUBSET Offer
      BY <1>1, <1>2, AllowedThere DEF OffersOf, LedgersOk, OffersOk
    <3>6. /\ call.base \in O!Issues /\ call.counter \in O!Issues /\ call.base # call.counter
      BY <1>1, <1>2 DEF CallOk
    <3> DEFINE At(s) == IF s = "asks" THEN a ELSE b
               listed(s) == book'[s]
    <3>7. ASSUME NEW s \in O!Sides
          PROVE  SideIs(listed(s), call.base, call.counter, OffersOf(s, At(s)))
      <4> DEFINE offers == asks \o bids
                 X == OffersOf(s, At(s))
                 Y == OffersOf(OtherSide(s), At(OtherSide(s)))
      <4>1. O!ToSet(offers) = X \cup Y
        BY <3>4 DEF OtherSide, O!Sides
      <4>2. X \in SUBSET Offer /\ Y \in SUBSET Offer /\ offers \in Seq(Offer)
        BY <3>4, <3>5 DEF OtherSide, O!Sides
      <4>3. /\ \A o \in X : O!InBook(o, O!RequestOf(s, call.base, call.counter))
            /\ \A o \in Y : O!InBook(o, O!RequestOf(OtherSide(s), call.base, call.counter))
        BY DEF OffersOf
      <4>4. listed(s) = O!formatBidsAndAsks(call.base, offers)[s]
        BY <3>1
      <4> HIDE DEF offers, X, Y, listed
      <4>5. SideIs(O!formatBidsAndAsks(call.base, offers)[s], call.base, call.counter, X)
        BY <3>6, <4>1, <4>2, <4>3, FacingIs
      <4> QED
        BY <4>4, <4>5 DEF X
    <3>8. \A s \in O!Sides : At(s) \in Allowed
      OBVIOUS
    <3>9. \A s \in O!Sides : \E u \in Allowed :
            SideIs(book'[s], call.base, call.counter, OffersOf(s, u))
      <4> HIDE DEF At
      <4> QED
        BY <3>7, <3>8
    <3> QED
      BY <1>1, <3>9 DEF O!BookOfALedger, SideIs, Allowed, OffersOf, O!validated
  <2> QED
    BY <2>1, <2>2
<1> QED
  BY <1>6, <1>9, <1>10 DEF OrderInv

LEMMA OrdersStart == O!Init => OrderInv
<1> SUFFICES ASSUME O!Init PROVE OrderInv
  OBVIOUS
<1>1. /\ ledgers = <<{}>> /\ call = None /\ answers = [side \in O!Sides |-> None]
      /\ book = None
  BY DEF O!Init, O!None, None
<1>2. OffersOk({}, 1)
  BY FS_EmptySet DEF OffersOk
<1>3. LedgersOk
  BY <1>1, <1>2 DEF LedgersOk
<1>4. CallOk /\ AnswersOk
  BY <1>1 DEF CallOk, AnswersOk
<1>5. O!BookOfALedger
  BY <1>1 DEF O!BookOfALedger, O!None, None
<1> QED
  BY <1>3, <1>4, <1>5 DEF OrderInv

LEMMA OrdersIdle ==
  ASSUME OrderInv, UNCHANGED orderVars PROVE OrderInv'
<1>1. /\ ledgers' = ledgers /\ call' = call /\ answers' = answers /\ book' = book
  BY DEF orderVars
<1>2. LedgersOk' /\ CallOk'
  BY <1>1 DEF OrderInv, LedgersOk, OffersOk, CallOk
<1>3. /\ Allowed' = Allowed
      /\ \A side \in O!Sides, v \in Allowed : OffersOf(side, v)' = OffersOf(side, v)
  BY <1>1 DEF Allowed, OffersOf
<1>4. AnswersOk'
  <2>1. \A side \in O!Sides : Answered(side) => Answered(side)'
    BY <1>1, <1>3 DEF Answered
  <2> QED
    BY <1>1, <2>1 DEF OrderInv, AnswersOk
<1>5. O!BookOfALedger'
  BY <1>1 DEF OrderInv, O!BookOfALedger, O!validated
<1> QED
  BY <1>2, <1>4, <1>5 DEF OrderInv

LEMMA OrderStep == OrderInv /\ [Next]_vars => OrderInv'
<1> SUFFICES ASSUME OrderInv, [Next]_vars PROVE OrderInv'
  OBVIOUS
<1>1. CASE Trade
  <2>1. O!Next
    BY <1>1 DEF Trade
  <2>2. ASSUME NEW maker \in Makers, O!PlaceOrder(maker) PROVE OrderInv'
    BY <2>2, OrderPlaced
  <2>3. CASE O!CancelOrder
    BY <2>3, OrderCancelled
  <2>4. CASE O!Trade
    BY <2>4, OrderTaken
  <2>5. CASE O!GetOrderbook
    BY <2>5, OrderbookAsked
  <2>6. ASSUME NEW side \in O!Sides, O!AnswersBook(side) PROVE OrderInv'
    BY <2>6, OrderbookAnswered
  <2> QED
    BY <2>1, <2>2, <2>3, <2>4, <2>5, <2>6 DEF O!Next
<1>2. CASE UNCHANGED orderVars
  BY <1>2, OrdersIdle
<1>3. Trade \/ UNCHANGED orderVars
  BY DEF Next, Pay, Set, Hold, Claim, vars, orderVars
<1> QED
  BY <1>1, <1>2, <1>3

(* getOrderbook: the bids of a book buy the base and the asks sell it,     *)
(* each for the counter, and each side has all the offers of that side in  *)
(* the ledger asked for or in one validated during the call, and no other, *)
(* whatever orders are placed, cancelled and taken between its requests.   *)
THEOREM BooksAreOfALedger == Spec => []BookOfALedger
<1>1. Init => OrderInv
  BY OrdersStart DEF Init
<1>2. OrderInv => BookOfALedger
  BY DEF OrderInv, BookOfALedger
<1> QED
  BY <1>1, <1>2, OrderStep, PTL DEF Spec

(* --------------------------- Reading orders ---------------------------- *)

(* flipOrder swaps the amounts, and buying with selling.                   *)
LEMMA FlippedIs ==
  ASSUME NEW spec,
         DOMAIN spec = {"direction", "quantity", "totalPrice", "options", "orderToReplace"},
         NEW p, p.specification = spec, DOMAIN p \subseteq {"specification", "maker",
                                           "sequence", "makerExchangeRate"},
         "specification" \in DOMAIN p
  PROVE  LET a == O!flipOrder(p)
         IN /\ DOMAIN a = DOMAIN p
            /\ \A field \in DOMAIN p \ {"specification"} : a[field] = p[field]
            /\ a.specification.quantity = spec.totalPrice
            /\ a.specification.totalPrice = spec.quantity
            /\ a.specification.direction = (IF spec.direction = "buy" THEN "sell" ELSE "buy")
            /\ a.specification.options = spec.options
            /\ a.specification.orderToReplace = spec.orderToReplace
<1> DEFINE a == O!flipOrder(p)
           x == [p EXCEPT !.specification.quantity = spec.totalPrice]
           y == [x EXCEPT !.specification.totalPrice = spec.quantity]
           z == [y EXCEPT !.specification.direction = IF @ = "buy" THEN "sell" ELSE "buy"]
           kept == DOMAIN p \ {"specification"}
<1>1. a = [p EXCEPT !.specification.quantity = p.specification.totalPrice,
                    !.specification.totalPrice = p.specification.quantity,
                    !.specification.direction = IF @ = "buy" THEN "sell" ELSE "buy"]
  BY Zenon DEF O!flipOrder
<1>2. a = z
  BY <1>1
<1>3. /\ DOMAIN x = DOMAIN p /\ \A field \in kept : x[field] = p[field]
      /\ x.specification = [spec EXCEPT !.quantity = spec.totalPrice]
  OBVIOUS
<1> HIDE DEF x
<1>4. /\ DOMAIN y = DOMAIN p /\ \A field \in kept : y[field] = p[field]
      /\ y.specification = [x.specification EXCEPT !.totalPrice = spec.quantity]
  BY <1>3
<1> HIDE DEF y
<1>5. /\ DOMAIN z = DOMAIN p /\ \A field \in kept : z[field] = p[field]
      /\ z.specification
           = [y.specification EXCEPT !.direction = IF @ = "buy" THEN "sell" ELSE "buy"]
  BY <1>4
<1> HIDE DEF z
<1> DEFINE u == x.specification
           v == y.specification
           w == z.specification
<1>6. /\ DOMAIN u = DOMAIN spec /\ u.quantity = spec.totalPrice
      /\ u.direction = spec.direction /\ u.options = spec.options
      /\ u.orderToReplace = spec.orderToReplace
  BY <1>3
<1>7. v = [u EXCEPT !.totalPrice = spec.quantity]
  BY <1>4
<1> HIDE DEF u
<1>8. /\ DOMAIN v = DOMAIN spec /\ v.quantity = spec.totalPrice
      /\ v.totalPrice = spec.quantity /\ v.direction = spec.direction
      /\ v.options = spec.options /\ v.orderToReplace = spec.orderToReplace
  BY <1>6, <1>7
<1>9. w = [v EXCEPT !.direction = IF @ = "buy" THEN "sell" ELSE "buy"]
  BY <1>5
<1> HIDE DEF v
<1>10. /\ w.quantity = spec.totalPrice /\ w.totalPrice = spec.quantity
       /\ w.direction = (IF spec.direction = "buy" THEN "sell" ELSE "buy")
       /\ w.options = spec.options /\ w.orderToReplace = spec.orderToReplace
  BY <1>8, <1>9
<1> QED
  BY <1>2, <1>5, <1>10 DEF a, w

(* What is placed again of a specification.                                *)
LEMMA AgainIs ==
  ASSUME NEW account, NEW sequence, NEW spec, NEW passive \in BOOLEAN,
         spec.options = IF passive THEN {"passive"} ELSE {},
         NEW gets, NEW pays,
         gets = O!toRippledAmount(IF spec.direction = "buy" THEN spec.totalPrice
                                  ELSE spec.quantity),
         pays = O!toRippledAmount(IF spec.direction = "buy" THEN spec.quantity
                                  ELSE spec.totalPrice)
  PROVE  O!OfferOf(O!setCanonicalFlag(O!createOrderTransaction(account, spec)), sequence)
           = [Account |-> account, Sequence |-> sequence, TakerGets |-> gets,
              TakerPays |-> pays,
              Flags |-> (IF spec.direction = "buy" THEN {} ELSE {17})
                          \cup (IF passive THEN {16} ELSE {})]
<1> DEFINE created == O!createOrderTransaction(account, spec)
           t == O!setCanonicalFlag(created)
           flags == (IF spec.direction = "buy" THEN {} ELSE {19})
                      \cup {O!OfferCreate[o] : o \in spec.options}
<1>1. /\ created.Account = account /\ created.TakerGets = gets
      /\ created.TakerPays = pays /\ created.Flags = flags
      /\ DOMAIN created = {"TransactionType", "Account", "TakerGets", "TakerPays", "Flags",
                           "OfferSequence"}
  BY DEF O!createOrderTransaction, O!OfferCreate
<1>2. flags = (IF spec.direction = "buy" THEN {} ELSE {19})
                \cup (IF passive THEN {16} ELSE {})
  BY DEF O!OfferCreate
<1> HIDE DEF created, flags
<1>3. /\ t.Account = account /\ t.TakerGets = gets /\ t.TakerPays = pays
      /\ t.Flags = flags \cup {31}
  BY <1>1 DEF O!setCanonicalFlag, O!FullyCanonicalSig
<1> HIDE DEF t
<1>4. (IF 19 \in t.Flags THEN {17} ELSE {}) \cup (t.Flags \cap {16})
        = (IF spec.direction = "buy" THEN {} ELSE {17}) \cup (IF passive THEN {16} ELSE {})
  BY <1>2, <1>3
<1>5. O!OfferOf(t, sequence)
        = [Account |-> t.Account, Sequence |-> sequence,
           TakerGets |-> t.TakerGets, TakerPays |-> t.TakerPays,
           Flags |-> (IF 19 \in t.Flags THEN {17} ELSE {}) \cup (t.Flags \cap {16})]
  BY DEF O!OfferOf
<1> QED
  BY <1>3, <1>4, <1>5 DEF t, created

(* A specification that getOrders or getOrderbook gives of an offer is of  *)
(* the same one, but for the direction once it is turned to a base.        *)
LEMMA OfferRecreated ==
  ASSUME NEW o \in Offer
  PROVE  LET Again(spec) ==
               O!OfferOf(O!setCanonicalFlag(O!createOrderTransaction(o.Account, spec)),
                         o.Sequence)
         IN /\ Again(O!parseAccountOrder(o).specification) = o
            /\ \A base \in O!Issues :
                 LET turned == Again(O!alignOrder(base, O!parseOrderbookOrder(o)).specification)
                 IN [turned EXCEPT !.Flags = @ \ {17}] = [o EXCEPT !.Flags = @ \ {17}]
<1> DEFINE Again(spec) ==
             O!OfferOf(O!setCanonicalFlag(O!createOrderTransaction(o.Account, spec)),
                       o.Sequence)
           sell == 17 \in o.Flags
           passive == 16 \in o.Flags
           spec == O!parseOffer(o)
           gets == O!parseAmount(o.TakerGets)
           pays == O!parseAmount(o.TakerPays)
           With(flags) == [Account |-> o.Account, Sequence |-> o.Sequence,
                           TakerGets |-> o.TakerGets, TakerPays |-> o.TakerPays,
                           Flags |-> flags]
<1>1. /\ spec.direction = (IF sell THEN "sell" ELSE "buy")
      /\ spec.quantity = (IF sell THEN gets ELSE pays)
      /\ spec.totalPrice = (IF sell THEN pays ELSE gets)
      /\ spec.options = (IF passive THEN {"passive"} ELSE {})
      /\ spec.orderToReplace = 0
      /\ DOMAIN spec = {"direction", "quantity", "totalPrice", "options", "orderToReplace"}
  <2> HIDE DEF gets, pays
  <2>1. O!orderFlags.Sell = 17 /\ O!orderFlags.Passive = 16
    BY DEF O!orderFlags
  <2> QED
    BY <2>1 DEF O!parseOffer, O!Specification, gets, pays
<1>2. /\ O!toRippledAmount(gets) = o.TakerGets
      /\ O!toRippledAmount(pays) = o.TakerPays
  <2>1. \A amount \in RippledIssued :
          O!toRippledAmount(O!parseAmount(amount)) = amount
    <3> SUFFICES ASSUME NEW amount \in RippledIssued
                 PROVE  O!toRippledAmount(O!parseAmount(amount)) = amount
      OBVIOUS
    <3>1. O!parseAmount(amount) = [currency |-> amount.currency, value |-> amount.value,
                                   counterparty |-> amount.issuer]
      BY AmountThereAndBack
    <3>2. amount.currency = "USD"
      BY DEF RippledIssued
    <3>3. O!toRippledAmount(O!parseAmount(amount))
            = [currency |-> amount.currency, issuer |-> amount.issuer,
               value |-> amount.value]
      BY <3>1, <3>2 DEF O!toRippledAmount
    <3> QED
      BY <3>3 DEF RippledIssued
  <2> QED
    BY <2>1 DEF Offer
<1> HIDE DEF spec, gets, pays
<1>3. ASSUME NEW other, other.options = spec.options,
             \/ /\ other.direction = spec.direction /\ other.quantity = spec.quantity
                /\ other.totalPrice = spec.totalPrice
             \/ /\ other.direction = (IF spec.direction = "buy" THEN "sell" ELSE "buy")
                /\ other.quantity = spec.totalPrice /\ other.totalPrice = spec.quantity
      PROVE  Again(other) = With((IF other.direction = "buy" THEN {} ELSE {17})
                                   \cup (IF passive THEN {16} ELSE {}))
  <2>1. /\ o.TakerGets = O!toRippledAmount(IF other.direction = "buy" THEN other.totalPrice
                                           ELSE other.quantity)
        /\ o.TakerPays = O!toRippledAmount(IF other.direction = "buy" THEN other.quantity
                                           ELSE other.totalPrice)
    BY <1>1, <1>2, <1>3
  <2> HIDE DEF passive
  <2>2. passive \in BOOLEAN
    BY DEF passive
  <2> QED
    BY <1>1, <1>3, <2>1, <2>2, AgainIs
<1>4. o = With(o.Flags) /\ o.Flags \in SUBSET {16, 17}
  BY DEF Offer
<1>5. O!parseAccountOrder(o).specification = spec
  BY DEF O!parseAccountOrder, spec
<1>6. Again(spec) = o
  <2>1. Again(spec) = With((IF spec.direction = "buy" THEN {} ELSE {17})
                             \cup (IF passive THEN {16} ELSE {}))
    BY <1>3
  <2>2. (IF spec.direction = "buy" THEN {} ELSE {17}) \cup (IF passive THEN {16} ELSE {})
          = o.Flags
    BY <1>1, <1>4
  <2> HIDE DEF Again
  <2> QED
    BY <1>4, <2>1, <2>2
<1>7. ASSUME NEW base \in O!Issues
      PROVE  LET turned == Again(O!alignOrder(base, O!parseOrderbookOrder(o)).specification)
             IN [turned EXCEPT !.Flags = @ \ {17}] = [o EXCEPT !.Flags = @ \ {17}]
  <2> DEFINE p == O!parseOrderbookOrder(o)
             other == O!alignOrder(base, p).specification
             turned == Again(other)
             flags == (IF other.direction = "buy" THEN {} ELSE {17})
                        \cup (IF passive THEN {16} ELSE {})
  <2>1. /\ p.specification = spec
        /\ DOMAIN p = {"specification", "maker", "sequence", "makerExchangeRate"}
    BY DEF O!parseOrderbookOrder, spec
  <2> HIDE DEF p
  <2>2. O!alignOrder(base, p) \in {p, O!flipOrder(p)}
    BY DEF O!alignOrder
  <2>3. /\ other.options = spec.options
        /\ \/ /\ other.direction = spec.direction /\ other.quantity = spec.quantity
              /\ other.totalPrice = spec.totalPrice
           \/ /\ other.direction = (IF spec.direction = "buy" THEN "sell" ELSE "buy")
              /\ other.quantity = spec.totalPrice /\ other.totalPrice = spec.quantity
    BY <1>1, <2>1, <2>2, FlippedIs
  <2> HIDE DEF other
  <2>4. turned = With(flags)
    BY <1>3, <2>3
  <2> HIDE DEF turned, Again
  <2>5. flags \ {17} = o.Flags \ {17}
    BY <1>4
  <2> HIDE DEF flags, passive
  <2>6. [turned EXCEPT !.Flags = @ \ {17}] = With(flags \ {17})
    BY <2>4
  <2>7. [o EXCEPT !.Flags = @ \ {17}] = With(o.Flags \ {17})
    <3> HIDE DEF With
    <3>1. [o EXCEPT !.Flags = @ \ {17}] = [With(o.Flags) EXCEPT !.Flags = @ \ {17}]
      BY <1>4
    <3> QED
      BY <3>1 DEF With
  <2> QED
    BY <2>5, <2>6, <2>7 DEF turned, other, p
<1> QED
  BY <1>5, <1>6, <1>7 DEF Again

LEMMA OrdersReadBack == OrderInv => O!ReadsRecreate
<1> SUFFICES ASSUME OrderInv PROVE O!ReadsRecreate
  OBVIOUS
<1>1. \A v \in DOMAIN ledgers : \A o \in ledgers[v] : o \in Offer
  BY DEF OrderInv, LedgersOk, OffersOk
<1> QED
  BY <1>1, OfferRecreated DEF O!ReadsRecreate

(* -------------------------- Reading a channel -------------------------- *)

(* A time of the ledger entry is that asked for, and not 0.                *)
TimeOk(time, meantTime) ==
  IF meantTime = undefined THEN time = undefined
  ELSE /\ time \in Nat \ {0} /\ meantTime \in Int
       /\ C!rippleTimeToISO8601(time) - meantTime \in -1 .. 2

(* The ledger entry and what was meant by the transactions that made it.   *)
ReadsAs(node, means) ==
  /\ node \in ChannelEntries
  /\ DOMAIN means = {"funded", "times", "claimed", "expiration", "cancelAfter"}
  /\ means.funded \in Int /\ means.times \in Nat /\ means.claimed \in Int
  /\ means.funded - 10 * node.Amount \in 0 .. 9 * means.times
  /\ means.claimed - 10 * node.Balance \in 0 .. 9
  /\ TimeOk(node.Expiration, means.expiration)
  /\ TimeOk(node.CancelAfter, means.cancelAfter)

ChannelInv ==
  /\ closed \in Nat \ {0}
  /\ channel # C!None => ReadsAs(channel, meant)

LEMMA RoundedTimes ==
  /\ TimeOk(undefined, undefined)
  /\ \A time \in ChannelTimes :
       /\ time # undefined /\ C!iso8601ToRippleTime(time) # undefined
       /\ TimeOk(C!iso8601ToRippleTime(time), time)
<1>1. ASSUME NEW time \in ChannelTimes
      PROVE  /\ time # undefined /\ C!iso8601ToRippleTime(time) # undefined
             /\ TimeOk(C!iso8601ToRippleTime(time), time)
  <2>1. time \in Int /\ time >= 2 /\ undefined \notin Int
    BY NumbersAssumption
  <2> DEFINE r == (time + 2) \div 4
  <2>2. r \in Int /\ r >= 1 /\ 4 * r - time \in -1 .. 2
    BY <2>1
  <2>3. C!iso8601ToRippleTime(time) = r
    BY DEF C!iso8601ToRippleTime
  <2> HIDE DEF r
  <2>4. time # undefined /\ r # undefined
    BY <2>1, <2>2
  <2> QED
    BY <2>1, <2>2, <2>3, <2>4 DEF TimeOk, C!rippleTimeToISO8601
<1> QED
  BY <1>1 DEF TimeOk

LEMMA RoundedDrops ==
  \A amount \in ChannelAmounts :
    /\ amount # undefined /\ amount \in Int
    /\ C!xrpToDrops(amount) \in Int /\ C!xrpToDrops(amount) # undefined
    /\ amount - 10 * C!xrpToDrops(amount) \in 0 .. 9
<1> SUFFICES ASSUME NEW amount \in ChannelAmounts
             PROVE  /\ amount # undefined /\ amount \in Int
                    /\ C!xrpToDrops(amount) \in Int /\ C!xrpToDrops(amount) # undefined
                    /\ amount - 10 * C!xrpToDrops(amount) \in 0 .. 9
  OBVIOUS
<1>1. amount \in Int /\ undefined \notin Int
  BY NumbersAssumption
<1>2. C!xrpToDrops(amount) = amount \div 10
  BY DEF C!xrpToDrops, C!Tenths
<1>3. amount \div 10 \in Int /\ amount - 10 * (amount \div 10) \in 0 .. 9
  BY <1>1
<1> QED
  BY <1>1, <1>2, <1>3

(* What an entry that reads as it was meant gives.                         *)
LEMMA ReadOfChannel == ChannelInv => C!ChannelReadsBack
<1> SUFFICES ASSUME ChannelInv PROVE C!ChannelReadsBack
  OBVIOUS
<1>1. CASE channel = C!None
  BY <1>1 DEF C!ChannelReadsBack, C!getPaymentChannel, C!formatResponse
<1>2. CASE channel # C!None
  <2> DEFINE read == C!getPaymentChannel
  <2>1. ReadsAs(channel, meant)
    BY <1>2 DEF ChannelInv
  <2>2. channel # undefined
    BY <2>1, KeysAssumption DEF ReadsAs
  <2>3. read = C!parsePaymentChannel(channel)
    BY <1>2, <2>1, <2>2 DEF C!getPaymentChannel, C!formatResponse, ReadsAs, ChannelEntries
  <2>4. /\ read.amount = 10 * channel.Amount /\ read.balance = 10 * channel.Balance
        /\ read.expiration = C!parseTimestamp(channel.Expiration)
        /\ read.cancelAfter = C!parseTimestamp(channel.CancelAfter)
    BY <2>3 DEF C!parsePaymentChannel, C!dropsToXrp, C!Tenths
  <2> HIDE DEF read
  <2>5. ASSUME NEW time, NEW meantTime, TimeOk(time, meantTime)
        PROVE  C!About(C!parseTimestamp(time), meantTime)
    <3>1. CASE meantTime = undefined
      BY <2>5, <3>1 DEF TimeOk, C!About, C!parseTimestamp
    <3>2. CASE meantTime # undefined
      <4>1. /\ time \in Nat /\ time # 0 /\ meantTime \in Int /\ undefined \notin Int
            /\ C!rippleTimeToISO8601(time) - meantTime \in -1 .. 2
        BY <2>5, <3>2, NumbersAssumption DEF TimeOk
      <4>2. C!parseTimestamp(time) = C!rippleTimeToISO8601(time)
        BY <4>1 DEF C!parseTimestamp
      <4>3. C!rippleTimeToISO8601(time) \in Int
        BY <4>1 DEF C!rippleTimeToISO8601
      <4>4. C!rippleTimeToISO8601(time) # undefined
        BY <4>1, <4>3
      <4> QED
        BY <3>2, <4>1, <4>2, <4>4 DEF C!About
    <3> QED
      BY <3>1, <3>2
  <2>6. /\ C!About(read.expiration, meant.expiration)
        /\ C!About(read.cancelAfter, meant.cancelAfter)
    BY <2>1, <2>4, <2>5 DEF ReadsAs
  <2>7. /\ meant.funded - read.amount \in 0 .. meant.times * 9
        /\ meant.claimed - read.balance \in 0 .. 9
    BY <2>1, <2>4 DEF ReadsAs
  <2>8. C!Tenths - 1 = 9
    BY DEF C!Tenths
  <2> QED
    BY <1>2, <2>6, <2>7, <2>8 DEF C!ChannelReadsBack, read
<1> QED
  BY <1>1, <1>2

LEMMA ChannelCreated == ASSUME ChannelInv, C!Creates PROVE ChannelInv'
<1>1. PICK amount \in ChannelAmounts, cancelAfter \in {undefined} \cup ChannelTimes :
        C!IncludeCreate([amount |-> amount, destination |-> "payee",
                         settleDelay |-> 1, publicKey |-> C!Key,
                         cancelAfter |-> cancelAfter])
  BY DEF C!Creates
<1> DEFINE spec == [amount |-> amount, destination |-> "payee", settleDelay |-> 1,
                    publicKey |-> C!Key, cancelAfter |-> cancelAfter]
           t == C!createPaymentChannelCreateTransaction(spec)
<1>2. /\ closed' = closed
      /\ channel' = [LedgerEntryType |-> "PayChannel", Amount |-> t.Amount, Balance |-> 0,
                     Destination |-> t.Destination, SettleDelay |-> t.SettleDelay,
                     PublicKey |-> t.PublicKey, CancelAfter |-> t.CancelAfter,
                     Expiration |-> undefined]
      /\ meant' = [funded |-> amount, times |-> 1, claimed |-> 0,
                   expiration |-> undefined, cancelAfter |-> cancelAfter]
  BY <1>1 DEF C!IncludeCreate, C!Include
<1>3. /\ t.Amount = C!xrpToDrops(amount) /\ t.SettleDelay = 1
      /\ t.CancelAfter = C!Optional(cancelAfter, C!iso8601ToRippleTime)
  BY DEF C!createPaymentChannelCreateTransaction
<1> HIDE DEF t
<1>4. TimeOk(t.CancelAfter, cancelAfter)
  BY <1>3, RoundedTimes DEF C!Optional
<1>5. TimeOk(undefined, undefined)
  BY RoundedTimes
<1>6. /\ t.Amount \in Int /\ amount \in Int /\ amount - 10 * t.Amount \in 0 .. 9 * 1
      /\ 0 - 10 * 0 \in 0 .. 9
  BY <1>3, RoundedDrops
<1>7. ReadsAs(channel', meant')
  <2>1. t.CancelAfter \in {undefined} \cup Nat
    BY <1>4 DEF TimeOk
  <2>2. t.Destination = "payee" /\ t.PublicKey = "payer's"
    BY DEF t, C!createPaymentChannelCreateTransaction, C!Key
  <2>3. channel' \in ChannelEntries
    BY <1>2, <1>3, <1>6, <2>1, <2>2 DEF ChannelEntries
  <2> QED
    BY <1>2, <1>4, <1>5, <1>6, <2>3 DEF ReadsAs
<1> QED
  BY <1>2, <1>7 DEF ChannelInv

LEMMA ChannelFunded == ASSUME ChannelInv, C!Funds PROVE ChannelInv'
<1>1. PICK amount \in ChannelAmounts, expiration \in {undefined} \cup ChannelTimes :
        C!IncludeFund([amount |-> amount, expiration |-> expiration])
  BY DEF C!Funds
<1> DEFINE spec == [amount |-> amount, expiration |-> expiration]
           t == C!createPaymentChannelFundTransaction(spec)
           node == [channel EXCEPT !.Amount = @ + t.Amount,
                                   !.Expiration = C!Or(t.Expiration, @)]
           means == [meant EXCEPT !.funded = @ + spec.amount, !.times = @ + 1,
                                  !.expiration = C!Or(spec.expiration, @)]
<1>2. /\ channel # C!None /\ closed' = closed
      /\ \/ channel' = C!None
         \/ channel' = node /\ meant' = means
  BY <1>1 DEF C!IncludeFund, C!Include
<1>3. ReadsAs(channel, meant)
  BY <1>2 DEF ChannelInv
<1>4. /\ t.Amount = C!xrpToDrops(amount)
      /\ t.Expiration = C!Optional(expiration, C!iso8601ToRippleTime)
  BY DEF C!createPaymentChannelFundTransaction
<1> HIDE DEF t
<1>5. /\ node.Balance = channel.Balance /\ node.CancelAfter = channel.CancelAfter
      /\ node.Amount = channel.Amount + t.Amount
      /\ node.Expiration = C!Or(t.Expiration, channel.Expiration)
      /\ node.Amount \in Int /\ node.Expiration \in {undefined} \cup Nat => node \in ChannelEntries
  BY <1>3 DEF ReadsAs, ChannelEntries
<1>6. /\ DOMAIN means = DOMAIN meant /\ means.funded = meant.funded + amount
      /\ means.times = meant.times + 1 /\ means.claimed = meant.claimed
      /\ means.expiration = C!Or(expiration, meant.expiration)
      /\ means.cancelAfter = meant.cancelAfter
  BY <1>3 DEF ReadsAs
<1> HIDE DEF node, means
<1>7. TimeOk(node.Expiration, means.expiration)
  <2>1. CASE expiration = undefined
    BY <1>3, <1>4, <1>5, <1>6, <2>1 DEF C!Optional, C!Or, ReadsAs
  <2>2. CASE expiration \in ChannelTimes
    BY <1>4, <1>5, <1>6, <2>2, RoundedTimes DEF C!Optional, C!Or
  <2> QED
    BY <2>1, <2>2
<1>8. /\ node.Amount \in Int /\ means.funded \in Int /\ means.times \in Nat
      /\ means.funded - 10 * node.Amount \in 0 .. 9 * means.times
  <2>1. /\ amount \in Int /\ t.Amount \in Int /\ amount - 10 * t.Amount \in 0 .. 9
    BY <1>4, RoundedDrops
  <2>2. /\ channel.Amount \in Int /\ meant.funded \in Int /\ meant.times \in Nat
        /\ meant.funded - 10 * channel.Amount \in 0 .. 9 * meant.times
    BY <1>3 DEF ReadsAs, ChannelEntries
  <2> QED
    BY <1>5, <1>6, <2>1, <2>2
<1>9. ReadsAs(node, means)
  <2>1. node \in ChannelEntries
    BY <1>5, <1>7, <1>8 DEF TimeOk
  <2> QED
    BY <1>3, <1>5, <1>6, <1>7, <1>8, <2>1 DEF ReadsAs
<1> QED
  BY <1>2, <1>9 DEF ChannelInv

LEMMA ChannelClaimed == ASSUME ChannelInv, C!ClaimsSome PROVE ChannelInv'
<1>1. PICK by \in C!Parties, spec \in C!Claims : C!IncludeClaim(by, spec)
  BY DEF C!ClaimsSome
<1> DEFINE t == C!createPaymentChannelClaimTransaction(spec)
           renews == "renew" \in spec.options
           node == [channel EXCEPT !.Balance = C!Or(t.Balance, @),
                                   !.Expiration = IF 16 \in t.Flags THEN undefined ELSE @]
           means == [meant EXCEPT !.claimed = C!Or(spec.balance, @),
                                  !.expiration = IF renews THEN undefined ELSE @]
           end == C!Earlier(node.Expiration, closed + channel.SettleDelay)
           lastNode == [node EXCEPT !.Expiration = end]
           lastMeans == [means EXCEPT !.expiration = IF end = node.Expiration THEN @
                                                     ELSE C!rippleTimeToISO8601(end)]
<1>2. /\ channel # C!None /\ closed' = closed /\ t # C!ValidationError
      /\ \/ channel' = C!None
         \/ channel' = node /\ meant' = means
         \/ channel' = lastNode /\ meant' = lastMeans
  <2>1. C!claimFlags.Renew = 16
    BY DEF C!claimFlags
  <2> QED
    BY <1>1, <2>1 DEF C!IncludeClaim, C!Include, C!AcceptsClaim
<1>3. ReadsAs(channel, meant) /\ closed \in Nat \ {0}
  BY <1>2 DEF ChannelInv
<1>4. /\ t.Balance = C!Optional(spec.balance, C!xrpToDrops)
      /\ t.Flags = C!Flag(renews, 16) \cup C!Flag("close" \in spec.options, 17)
  BY <1>2 DEF C!createPaymentChannelClaimTransaction, C!claimFlags
<1>5. 16 \in t.Flags <=> renews
  BY <1>4 DEF C!Flag
<1>6. spec.balance \in {undefined} \cup ChannelAmounts
  BY DEF C!Claims
<1> HIDE DEF t, renews
<1>7. /\ node.Amount = channel.Amount /\ node.CancelAfter = channel.CancelAfter
      /\ node.Balance = C!Or(t.Balance, channel.Balance)
      /\ node.Expiration = (IF renews THEN undefined ELSE channel.Expiration)
      /\ node.Balance \in Int /\ node.Expiration \in {undefined} \cup Nat
           => node \in ChannelEntries
  BY <1>3, <1>5 DEF ReadsAs, ChannelEntries
<1>8. /\ DOMAIN means = DOMAIN meant /\ means.funded = meant.funded
      /\ means.times = meant.times /\ means.claimed = C!Or(spec.balance, meant.claimed)
      /\ means.expiration = (IF renews THEN undefined ELSE meant.expiration)
      /\ means.cancelAfter = meant.cancelAfter
  BY <1>3 DEF ReadsAs
<1> HIDE DEF node, means
<1>9. TimeOk(node.Expiration, means.expiration)
  BY <1>3, <1>7, <1>8, RoundedTimes DEF ReadsAs
<1>10. /\ node.Balance \in Int /\ means.claimed \in Int
       /\ means.claimed - 10 * node.Balance \in 0 .. 9
  <2>1. CASE spec.balance = undefined
    BY <1>3, <1>4, <1>7, <1>8, <2>1 DEF C!Optional, C!Or, ReadsAs, ChannelEntries
  <2>2. CASE spec.balance \in ChannelAmounts
    BY <1>4, <1>7, <1>8, <2>2, RoundedDrops DEF C!Optional, C!Or
  <2> QED
    BY <1>6, <2>1, <2>2
<1>11. ReadsAs(node, means)
  <2>1. node \in ChannelEntries
    BY <1>7, <1>9, <1>10 DEF TimeOk
  <2> QED
    BY <1>3, <1>7, <1>8, <1>9, <1>10, <2>1 DEF ReadsAs
<1>12. /\ end \in Nat \ {0}
       /\ end = node.Expiration \/ end = closed + 1
  <2>1. channel.SettleDelay = 1
    BY <1>3 DEF ReadsAs, ChannelEntries
  <2>2. node.Expiration = undefined \/ node.Expiration \in Nat \ {0}
    BY <1>9 DEF TimeOk
  <2>3. undefined \notin Int
    BY NumbersAssumption
  <2> QED
    BY <1>3, <2>1, <2>2, <2>3 DEF C!Earlier
<1> HIDE DEF end
<1>13. ReadsAs(lastNode, lastMeans)
  <2>1. /\ lastNode.Amount = node.Amount /\ lastNode.CancelAfter = node.CancelAfter
        /\ lastNode.Balance = node.Balance /\ lastNode.Expiration = end
        /\ lastNode \in ChannelEntries
    BY <1>11, <1>12 DEF ReadsAs, ChannelEntries
  <2>2. /\ DOMAIN lastMeans = DOMAIN means /\ lastMeans.funded = means.funded
        /\ lastMeans.times = means.times /\ lastMeans.claimed = means.claimed
        /\ lastMeans.expiration = (IF end = node.Expiration THEN means.expiration
                                   ELSE C!rippleTimeToISO8601(end))
        /\ lastMeans.cancelAfter = means.cancelAfter
    BY <1>11 DEF ReadsAs
  <2> HIDE DEF lastNode, lastMeans
  <2>3. TimeOk(lastNode.Expiration, lastMeans.expiration)
    <3>1. CASE end = node.Expiration
      BY <1>9, <2>1, <2>2, <3>1
    <3>2. CASE end # node.Expiration
      <4>1. /\ C!rippleTimeToISO8601(end) = 4 * end /\ 4 * end \in Int
            /\ 4 * end - 4 * end \in -1 .. 2
        BY <1>12 DEF C!rippleTimeToISO8601
      <4> QED
        BY <1>12, <2>1, <2>2, <3>2, <4>1, NumbersAssumption DEF TimeOk
    <3> QED
      BY <3>1, <3>2
  <2> QED
    BY <1>11, <2>1, <2>2, <2>3 DEF ReadsAs
<1> QED
  BY <1>2, <1>3, <1>11, <1>13 DEF ChannelInv

LEMMA ChannelStep == ChannelInv /\ [Next]_vars => ChannelInv'
<1> SUFFICES ASSUME ChannelInv, [Next]_vars PROVE ChannelInv'
  OBVIOUS
<1>1. ASSUME UNCHANGED channelVars PROVE ChannelInv'
  BY <1>1 DEF channelVars, ChannelInv
<1>2. CASE C!Signs
  BY <1>2 DEF C!Signs, ChannelInv
<1>3. CASE C!LedgerCloses
  <2>1. /\ closed' = closed + 1 /\ channel' = channel /\ meant' = meant
        /\ closed \in Nat \ {0}
    BY <1>3 DEF C!LedgerCloses, ChannelInv
  <2> QED
    BY <2>1 DEF ChannelInv
<1>4. CASE Claim
  BY <1>2, <1>3, <1>4, ChannelCreated, ChannelFunded, ChannelClaimed DEF Claim, C!Next
<1>5. CASE Pay \/ Trade \/ Set \/ Hold
  BY <1>1, <1>5 DEF Pay, Trade, Set, Hold
<1>6. CASE UNCHANGED vars
  BY <1>1, <1>6 DEF vars
<1> QED
  BY <1>4, <1>5, <1>6 DEF Next

LEMMA ChannelStart == Init => ChannelInv
<1> SUFFICES ASSUME Init PROVE ChannelInv
  OBVIOUS
<1>1. closed = 1 /\ channel = C!None
  BY DEF Init, C!Init
<1> QED
  BY <1>1 DEF ChannelInv

(* ------------------------ Tables of the settings ----------------------- *)

(* The settings that are a bit of the account root.                        *)
Bits == {"requireDestinationTag", "requireAuthorization", "disallowIncomingXRP",
         "disableMasterKey", "noFreeze", "globalFreeze", "defaultRipple"}

LEMMA FlagTables ==
  /\ DOMAIN S!AccountFlags = {"passwordSpent"} \cup Bits
  /\ DOMAIN S!AccountFlagIndices = {"enableTransactionIDTracking"} \cup Bits
  /\ S!AccountFlags["passwordSpent"] = 16
  /\ S!AccountFlagIndices["enableTransactionIDTracking"] = 5
  /\ \A name \in Bits :
       /\ S!AccountFlags[name] \in 17 .. 23
       /\ S!AccountFlagIndices[name] # 5
       /\ S!Bit[S!AccountFlagIndices[name]] = S!AccountFlags[name]
       /\ S!AccountFlags[name] = 21 <=> name = "noFreeze"
  /\ \A m, n \in Bits : S!AccountFlags[m] = S!AccountFlags[n] => m = n
BY DEF S!AccountFlags, S!AccountFlagIndices, S!Bit, Bits

LEMMA FieldTable ==
  /\ DOMAIN S!AccountFields = {"EmailHash", "MessageKey", "Domain", "TransferRate"}
  /\ S!AccountFields["EmailHash"] = "emailHash"
  /\ S!AccountFields["MessageKey"] = "messageKey"
  /\ S!AccountFields["Domain"] = "domain"
  /\ S!AccountFields["TransferRate"] = "transferRate"
BY DEF S!AccountFields

LEMMA HexTable ==
  /\ DOMAIN S!HexOf = {"", "d"} /\ S!HexOf[""] = "" /\ S!HexOf["d"] = "64"
  /\ S!parseField("Domain", "") = "" /\ S!parseField("Domain", "64") = "d"
<1>1. DOMAIN S!HexOf = {"", "d"} /\ S!HexOf[""] = "" /\ S!HexOf["d"] = "64"
  BY DEF S!HexOf, S!@@, S!:>, S!Merged, S!OneField
<1>2. \A value : S!parseField("Domain", value)
                   = CHOOSE domain \in DOMAIN S!HexOf : S!HexOf[domain] = value
  BY DEF S!parseField
<1> QED
  BY <1>1, <1>2

(* ------------------------ One setting in a root ------------------------ *)

LEMMA CreatedFlag ==
  ASSUME NEW name \in FlagNames, NEW value \in BOOLEAN
  PROVE  LET t == S!createSettingsTransaction(name, value)
             flag == IF value THEN "SetFlag" ELSE "ClearFlag"
         IN /\ DOMAIN t = {"TransactionType", flag}
            /\ t["TransactionType"] = "AccountSet"
            /\ t[flag] = S!AccountFlagIndices[name]
<1> DEFINE flag == IF value THEN "SetFlag" ELSE "ClearFlag"
           flags == S!setTransactionFlags(name, value)
           fields == S!setTransactionFields(name, value)
           type == S!OneField("TransactionType", "AccountSet")
           t == S!createSettingsTransaction(name, value)
<1>1. name \in {"enableTransactionIDTracking"} \cup Bits
  BY SettingsAssumption, FlagTables
<1>2. flags = S!OneField(flag, S!AccountFlagIndices[name])
  BY <1>1, FlagTables DEF S!setTransactionFlags, S!:>
<1>3. DOMAIN fields = {}
  BY <1>1, FieldTable DEF S!setTransactionFields, Bits
<1>4. t = S!Merged(S!Merged(type, flags), fields)
  BY <1>1 DEF S!createSettingsTransaction, S!@@, S!:>, Bits
<1>5. DOMAIN type = {"TransactionType"} /\ type["TransactionType"] = "AccountSet"
  BY DEF S!OneField
<1>6. DOMAIN flags = {flag} /\ flags[flag] = S!AccountFlagIndices[name]
  BY <1>2 DEF S!OneField
<1> HIDE DEF t, type, flags, fields
<1> DEFINE both == S!Merged(type, flags)
<1>7. /\ DOMAIN both = {"TransactionType", flag} /\ both["TransactionType"] = "AccountSet"
      /\ both[flag] = S!AccountFlagIndices[name]
  BY <1>5, <1>6 DEF S!Merged
<1>8. DOMAIN t = DOMAIN both /\ \A x \in DOMAIN both : t[x] = both[x]
  BY <1>3, <1>4 DEF S!Merged
<1> HIDE DEF both
<1>9. /\ DOMAIN t = {"TransactionType", flag} /\ t["TransactionType"] = "AccountSet"
      /\ t[flag] = S!AccountFlagIndices[name]
  BY <1>7, <1>8
<1> QED
  BY <1>9 DEF t

(* The fields that are settings, with their names.                         *)
FieldOf(name) ==
  CASE name = "emailHash" -> "EmailHash"
    [] name = "messageKey" -> "MessageKey"
    [] name = "domain" -> "Domain"
    [] name = "transferRate" -> "TransferRate"
FieldNames == {"emailHash", "messageKey", "domain", "transferRate"}

LEMMA CreatedField ==
  ASSUME NEW name \in FieldNames, NEW value
  PROVE  LET t == S!createSettingsTransaction(name, value)
         IN /\ DOMAIN t = {"TransactionType", FieldOf(name)}
            /\ t["TransactionType"] = "AccountSet"
            /\ t[FieldOf(name)] = S!FieldValue(name, value)
<1> DEFINE field == FieldOf(name)
           flags == S!setTransactionFlags(name, value)
           fields == S!setTransactionFields(name, value)
           type == S!OneField("TransactionType", "AccountSet")
           t == S!createSettingsTransaction(name, value)
<1>1. /\ field \in {"EmailHash", "MessageKey", "Domain", "TransferRate"}
      /\ name \notin DOMAIN S!AccountFlagIndices
      /\ {f \in DOMAIN S!AccountFields : S!AccountFields[f] = name} = {field}
  BY FlagTables, FieldTable DEF Bits, FieldNames, FieldOf
<1>2. DOMAIN flags = {}
  BY <1>1 DEF S!setTransactionFlags, S!:>, S!NoFields
<1>3. DOMAIN fields = {field} /\ fields[field] = S!FieldValue(name, value)
  BY <1>1 DEF S!setTransactionFields
<1>4. t = S!Merged(S!Merged(type, flags), fields)
  BY DEF S!createSettingsTransaction, S!@@, S!:>, FieldNames
<1>5. DOMAIN type = {"TransactionType"} /\ type["TransactionType"] = "AccountSet"
  BY DEF S!OneField
<1> HIDE DEF t, type, flags, fields
<1> DEFINE both == S!Merged(type, flags)
<1>6. DOMAIN both = {"TransactionType"} /\ both["TransactionType"] = "AccountSet"
  BY <1>2, <1>5 DEF S!Merged
<1> HIDE DEF both, field
<1>7. /\ DOMAIN t = {"TransactionType", field} /\ t["TransactionType"] = "AccountSet"
      /\ t[field] = S!FieldValue(name, value)
  BY <1>1, <1>3, <1>4, <1>6 DEF both, S!Merged
<1> QED
  BY <1>7 DEF t, field

LEMMA CreatedKey ==
  \A value : LET t == S!createSettingsTransaction("regularKey", value)
             IN /\ t["TransactionType"] = "SetRegularKey"
                /\ DOMAIN t = IF value = "null" THEN {"TransactionType"}
                              ELSE {"TransactionType", "RegularKey"}
                /\ value # "null" => t["RegularKey"] = value
<1> SUFFICES ASSUME NEW value
             PROVE  LET t == S!createSettingsTransaction("regularKey", value)
                    IN /\ t["TransactionType"] = "SetRegularKey"
                       /\ DOMAIN t = IF value = "null" THEN {"TransactionType"}
                                     ELSE {"TransactionType", "RegularKey"}
                       /\ value # "null" => t["RegularKey"] = value
  OBVIOUS
<1> DEFINE type == S!OneField("TransactionType", "SetRegularKey")
           key == IF value = "null" THEN S!NoFields ELSE S!OneField("RegularKey", value)
<1>1. S!createSettingsTransaction("regularKey", value) = S!Merged(type, key)
  BY DEF S!createSettingsTransaction, S!@@, S!:>, S!NULL
<1>2. DOMAIN type = {"TransactionType"} /\ type["TransactionType"] = "SetRegularKey"
  BY DEF S!OneField
<1>3. /\ DOMAIN key = IF value = "null" THEN {} ELSE {"RegularKey"}
      /\ value # "null" => key["RegularKey"] = value
  BY DEF S!NoFields, S!OneField
<1> HIDE DEF type, key
<1> QED
  BY <1>1, <1>2, <1>3 DEF S!Merged

LEMMA CreatedSigners ==
  \A value :
    LET t == S!createSettingsTransaction("signers", value)
    IN /\ DOMAIN t = {"TransactionType", "SignerQuorum", "SignerEntries"}
       /\ t["TransactionType"] = "SignerListSet"
       /\ t["SignerQuorum"] = value.threshold
       /\ t["SignerEntries"] = {S!formatSignerEntry(signer) : signer \in value.weights}
<1> SUFFICES ASSUME NEW value
             PROVE  LET t == S!createSettingsTransaction("signers", value)
                    IN /\ DOMAIN t = {"TransactionType", "SignerQuorum", "SignerEntries"}
                       /\ t["TransactionType"] = "SignerListSet"
                       /\ t["SignerQuorum"] = value.threshold
                       /\ t["SignerEntries"]
                            = {S!formatSignerEntry(signer) : signer \in value.weights}
  OBVIOUS
<1> DEFINE type == S!OneField("TransactionType", "SignerListSet")
           quorum == S!OneField("SignerQuorum", value.threshold)
           signers == {S!formatSignerEntry(signer) : signer \in value.weights}
           entries == S!OneField("SignerEntries", signers)
<1>1. S!createSettingsTransaction("signers", value) = S!Merged(S!Merged(type, quorum), entries)
  BY DEF S!createSettingsTransaction, S!@@, S!:>
<1> HIDE DEF signers
<1>2. /\ DOMAIN type = {"TransactionType"} /\ type["TransactionType"] = "SignerListSet"
      /\ DOMAIN quorum = {"SignerQuorum"} /\ quorum["SignerQuorum"] = value.threshold
      /\ DOMAIN entries = {"SignerEntries"} /\ entries["SignerEntries"] = signers
  BY DEF S!OneField
<1> HIDE DEF type, quorum, entries
<1> DEFINE both == S!Merged(type, quorum)
<1>3. /\ DOMAIN both = {"TransactionType", "SignerQuorum"}
      /\ both["TransactionType"] = "SignerListSet"
      /\ both["SignerQuorum"] = value.threshold
  BY <1>2 DEF S!Merged
<1> HIDE DEF both
<1>4. LET t == S!Merged(both, entries)
      IN /\ DOMAIN t = {"TransactionType", "SignerQuorum", "SignerEntries"}
         /\ t["TransactionType"] = "SignerListSet"
         /\ t["SignerQuorum"] = value.threshold
         /\ t["SignerEntries"] = signers
  BY <1>2, <1>3 DEF S!Merged
<1> QED
  BY <1>1, <1>4 DEF both, signers

RootFields == {"Flags", "AccountTxnID", "EmailHash", "MessageKey", "Domain", "TransferRate",
               "RegularKey", "signers"}
IsRoot(r) == r = [f \in RootFields |-> r[f]]

(* A root is as it was but for some fields.                                *)
SameBut(after, r, fields) ==
  DOMAIN after = DOMAIN r /\ \A f \in DOMAIN r \ fields : after[f] = r[f]

Applied(r, name, value) == S!ApplySettings(r, S!createSettingsTransaction(name, value))

LEMMA AppliedFlag ==
  ASSUME NEW r, IsRoot(r), NEW name \in FlagNames \cap Bits, NEW value \in BOOLEAN
  PROVE  LET after == Applied(r, name, value)
             bit == S!AccountFlags[name]
         IN /\ IsRoot(after) /\ SameBut(after, r, {"Flags"})
            /\ after["Flags"] = IF value THEN r["Flags"] \cup {bit}
                                ELSE IF name = "noFreeze" THEN r["Flags"]
                                ELSE r["Flags"] \ {bit}
<1> DEFINE t == S!createSettingsTransaction(name, value)
           after == Applied(r, name, value)
           flag == IF value THEN "SetFlag" ELSE "ClearFlag"
           bit == S!AccountFlags[name]
           set == S!SetOrClear(r, t)
<1>1. /\ DOMAIN t = {"TransactionType", flag}
      /\ t["TransactionType"] = "AccountSet"
      /\ t[flag] = S!AccountFlagIndices[name]
  BY CreatedFlag
<1> HIDE DEF t
<1>2. DOMAIN r = RootFields
  BY DEF IsRoot
<1>3. after = [f \in RootFields |-> set[f]]
  BY <1>1, <1>2 DEF Applied, S!ApplySettings, RootFields, t
<1>4. /\ t[flag] # 5 /\ S!Bit[t[flag]] = bit
      /\ bit = 21 <=> name = "noFreeze"
  <2>1. name \in Bits
    OBVIOUS
  <2>2. /\ S!AccountFlagIndices[name] # 5
        /\ S!Bit[S!AccountFlagIndices[name]] = S!AccountFlags[name]
        /\ S!AccountFlags[name] = 21 <=> name = "noFreeze"
    BY <2>1, FlagTables, Zenon
  <2> QED
    BY <1>1, <2>2
<1>5. set = IF value THEN [r EXCEPT !.Flags = @ \cup {bit}]
            ELSE [r EXCEPT !.Flags = @ \ ({bit} \ {21})]
  BY <1>1, <1>4 DEF S!SetOrClear
<1> HIDE DEF set, bit, flag
<1>6. /\ DOMAIN set = RootFields /\ \A f \in RootFields \ {"Flags"} : set[f] = r[f]
      /\ set["Flags"] = IF value THEN r["Flags"] \cup {bit} ELSE r["Flags"] \ ({bit} \ {21})
  BY <1>2, <1>5 DEF RootFields
<1>7. "Flags" \in RootFields
  BY DEF RootFields
<1> HIDE DEF after
<1>8. SameBut(after, r, {"Flags"}) /\ IsRoot(after)
  BY <1>2, <1>3, <1>6 DEF SameBut, IsRoot
<1>9. after["Flags"] = IF value THEN r["Flags"] \cup {bit}
                       ELSE IF name = "noFreeze" THEN r["Flags"] ELSE r["Flags"] \ {bit}
  <2>1. CASE name = "noFreeze"
    BY <1>3, <1>4, <1>6, <1>7, <2>1
  <2>2. CASE name # "noFreeze"
    <3>1. {bit} \ {21} = {bit}
      BY <1>4, <2>2
    <3> QED
      BY <1>3, <1>6, <1>7, <2>2, <3>1
  <2> QED
    BY <2>1, <2>2
<1> QED
  BY <1>8, <1>9 DEF after, bit

LEMMA AppliedTracking ==
  ASSUME NEW r, IsRoot(r), "enableTransactionIDTracking" \in FlagNames, NEW value \in BOOLEAN
  PROVE  LET after == Applied(r, "enableTransactionIDTracking", value)
         IN /\ IsRoot(after) /\ SameBut(after, r, {"AccountTxnID"})
            /\ after["AccountTxnID"] = value
<1> DEFINE name == "enableTransactionIDTracking"
           t == S!createSettingsTransaction(name, value)
           after == Applied(r, name, value)
           flag == IF value THEN "SetFlag" ELSE "ClearFlag"
           set == S!SetOrClear(r, t)
<1>1. /\ DOMAIN t = {"TransactionType", flag}
      /\ t["TransactionType"] = "AccountSet" /\ t[flag] = 5
  BY CreatedFlag, FlagTables
<1> HIDE DEF t
<1>2. DOMAIN r = RootFields
  BY DEF IsRoot
<1>3. after = [f \in RootFields |-> set[f]]
  BY <1>1, <1>2 DEF Applied, S!ApplySettings, RootFields, t
<1>5. set = [r EXCEPT !.AccountTxnID = value]
  <2>1. CASE value = TRUE
    BY <1>1, <2>1 DEF S!SetOrClear
  <2>2. CASE value = FALSE
    BY <1>1, <2>2 DEF S!SetOrClear
  <2> QED
    BY <2>1, <2>2
<1> HIDE DEF set
<1>6. /\ DOMAIN set = RootFields /\ \A f \in RootFields \ {"AccountTxnID"} : set[f] = r[f]
      /\ set["AccountTxnID"] = value
  BY <1>2, <1>5 DEF RootFields
<1>7. "AccountTxnID" \in RootFields
  BY DEF RootFields
<1> HIDE DEF after
<1>8. SameBut(after, r, {"AccountTxnID"}) /\ IsRoot(after)
  BY <1>2, <1>3, <1>6 DEF SameBut, IsRoot
<1>9. after["AccountTxnID"] = value
  BY <1>3, <1>6, <1>7
<1> QED
  BY <1>8, <1>9 DEF after

LEMMA AppliedField ==
  ASSUME NEW r, IsRoot(r), NEW name \in FieldNames, NEW value
  PROVE  LET after == Applied(r, name, value)
             field == FieldOf(name)
         IN /\ IsRoot(after) /\ SameBut(after, r, {field})
            /\ after[field] = S!Stored(field, S!FieldValue(name, value))
<1> DEFINE t == S!createSettingsTransaction(name, value)
           after == Applied(r, name, value)
           field == FieldOf(name)
<1>1. /\ DOMAIN t = {"TransactionType", field}
      /\ t["TransactionType"] = "AccountSet"
      /\ t[field] = S!FieldValue(name, value)
  BY CreatedField
<1>2. DOMAIN r = RootFields
  BY DEF IsRoot
<1>3. field \in {"EmailHash", "MessageKey", "Domain", "TransferRate"}
  BY DEF FieldOf, FieldNames
<1> HIDE DEF t, field
<1>4. S!SetOrClear(r, t) = r
  BY <1>1, <1>3 DEF S!SetOrClear
<1>5. after = [f \in RootFields |-> IF f = field THEN S!Stored(f, t[f]) ELSE r[f]]
  <2>1. \A f \in RootFields : f \in DOMAIN t <=> f = field
    BY <1>1, <1>3 DEF RootFields
  <2>2. after = [f \in DOMAIN r |-> IF f \in DOMAIN t THEN S!Stored(f, t[f])
                                    ELSE S!SetOrClear(r, t)[f]]
    BY <1>1 DEF Applied, S!ApplySettings, t
  <2> QED
    BY <1>2, <1>4, <2>1, <2>2
<1> HIDE DEF after
<1>6. field \in RootFields
  BY <1>3 DEF RootFields
<1>7. IsRoot(after) /\ SameBut(after, r, {field})
  BY <1>2, <1>5 DEF IsRoot, SameBut
<1>8. after[field] = S!Stored(field, S!FieldValue(name, value))
  BY <1>1, <1>5, <1>6
<1> QED
  BY <1>7, <1>8 DEF after, field

LEMMA AppliedKey ==
  ASSUME NEW r, IsRoot(r), NEW value
  PROVE  LET after == Applied(r, "regularKey", value)
         IN /\ IsRoot(after) /\ SameBut(after, r, {"RegularKey"})
            /\ after["RegularKey"] = IF value = "null" THEN "" ELSE value
<1> DEFINE t == S!createSettingsTransaction("regularKey", value)
           after == Applied(r, "regularKey", value)
           key == IF "RegularKey" \in DOMAIN t THEN t["RegularKey"] ELSE ""
<1>1. /\ t["TransactionType"] = "SetRegularKey"
      /\ key = IF value = "null" THEN "" ELSE value
  <2>1. /\ t["TransactionType"] = "SetRegularKey"
        /\ DOMAIN t = IF value = "null" THEN {"TransactionType"}
                      ELSE {"TransactionType", "RegularKey"}
        /\ value # "null" => t["RegularKey"] = value
    BY CreatedKey
  <2> HIDE DEF t
  <2>2. CASE value = "null"
    BY <2>1, <2>2
  <2>3. CASE value # "null"
    BY <2>1, <2>3
  <2> QED
    BY <2>2, <2>3
<1>2. DOMAIN r = RootFields /\ "RegularKey" \in RootFields
  BY DEF IsRoot, RootFields
<1>3. after = [r EXCEPT !.RegularKey = key]
  BY <1>1 DEF Applied, S!ApplySettings
<1> HIDE DEF after, key
<1> QED
  BY <1>1, <1>2, <1>3 DEF IsRoot, SameBut, after

LEMMA AppliedSigners ==
  ASSUME NEW r, IsRoot(r), NEW value
  PROVE  LET after == Applied(r, "signers", value)
         IN IsRoot(after) /\ SameBut(after, r, {"signers"})
<1> DEFINE t == S!createSettingsTransaction("signers", value)
           after == Applied(r, "signers", value)
           signers == [quorum |-> t["SignerQuorum"], entries |-> t["SignerEntries"]]
<1>1. t["TransactionType"] = "SignerListSet"
  BY CreatedSigners
<1>2. DOMAIN r = RootFields /\ "signers" \in RootFields
  BY DEF IsRoot, RootFields
<1>3. after = [r EXCEPT !.signers = signers]
  BY <1>1 DEF Applied, S!ApplySettings
<1> HIDE DEF after, signers
<1> QED
  BY <1>1, <1>2, <1>3 DEF IsRoot, SameBut, after

(* ---------------------------- The settings ----------------------------- *)

(* The rates that the schema lets pass.                                    *)
GivenRates == {S!NULLRATE} \cup (SettingRates \cap 1000 .. 4294)

(* The root has what was asked for last.                                   *)
BitsAsAsked(r, a) ==
  \A name \in Bits :
    S!AccountFlags[name] \in r["Flags"] <=> name \in FlagNames /\ a[name] = TRUE
DomainIs(stored, given) == given \in {"", "d"} /\ stored = S!HexOf[given]
MessageKeyIs(stored, given) == given \in {"", "m"} /\ stored = given
EmailHashIs(stored, given) ==
  given \in {"null", "e"} /\ stored = IF given = "null" THEN "" ELSE given
RateIs(stored, given) ==
  /\ given \in GivenRates
  /\ given \in {S!NULLRATE, 1000} => stored = 0
  /\ given \notin {S!NULLRATE, 1000} => stored = S!Shift(given)
KeyIs(stored, given) ==
  given \in {"null"} \cup Keys /\ stored = IF given = "null" THEN "" ELSE given
FieldsAsAsked(r, a) ==
  /\ DomainIs(r["Domain"], a["domain"])
  /\ MessageKeyIs(r["MessageKey"], a["messageKey"])
  /\ EmailHashIs(r["EmailHash"], a["emailHash"])
  /\ RateIs(r["TransferRate"], a["transferRate"])
KeyAsAsked(r, a) == KeyIs(r["RegularKey"], a["regularKey"])

AskedNames == FlagNames \cup FieldNames \cup {"regularKey"}

RootInv ==
  /\ IsRoot(root) /\ asked = [name \in AskedNames |-> asked[name]]
  /\ \A name \in FlagNames : asked[name] \in BOOLEAN
  /\ BitsAsAsked(root, asked) /\ FieldsAsAsked(root, asked) /\ KeyAsAsked(root, asked)

LEMMA RatesGiven ==
  \A rate \in GivenRates \ {S!NULLRATE} :
    /\ rate \in SettingRates /\ rate \in 1000 .. 4294
    /\ S!Shift(rate) = S!Shift(1000) <=> rate = 1000
    /\ S!Shift(rate) # 0 /\ S!Unshift(S!Shift(rate)) = rate
<1>1. ASSUME NEW rate \in 1000 .. 4294
      PROVE  /\ S!Shift(rate) = S!Shift(1000) <=> rate = 1000
             /\ S!Shift(rate) # 0 /\ S!Unshift(S!Shift(rate)) = rate
  BY DEF S!Shift, S!Unshift
<1>2. ASSUME NEW rate \in GivenRates \ {S!NULLRATE}
      PROVE  /\ rate \in SettingRates /\ rate \in 1000 .. 4294
             /\ S!Shift(rate) = S!Shift(1000) <=> rate = 1000
             /\ S!Shift(rate) # 0 /\ S!Unshift(S!Shift(rate)) = rate
  <2>1. rate \in SettingRates /\ rate \in 1000 .. 4294
    BY DEF GivenRates
  <2>2. S!Shift(rate) = S!Shift(1000) <=> rate = 1000
    BY <1>1, <2>1
  <2>3. S!Shift(rate) # 0
    BY <1>1, <2>1
  <2>4. S!Unshift(S!Shift(rate)) = rate
    BY <1>1, <2>1
  <2> QED
    BY <2>1, <2>2, <2>3, <2>4
<1> QED
  BY <1>2

(* The settings that are fields.                                           *)
IsField(name, value) ==
  CASE name = "domain" -> value \in {"", "d"}
    [] name = "messageKey" -> value \in {"", "m"}
    [] name = "emailHash" -> value \in {"null", "e"}
    [] name = "transferRate" -> value \in GivenRates

LEMMA SettingCases ==
  ASSUME NEW setting \in S!Settings
  PROVE  \/ setting[1] \in FlagNames /\ setting[2] \in BOOLEAN
         \/ setting[1] \in FieldNames /\ IsField(setting[1], setting[2])
         \/ setting[1] = "regularKey" /\ setting[2] \in {"null"} \cup Keys
         \/ setting[1] = "signers"
<1>1. CASE setting \in FlagNames \X BOOLEAN
  BY <1>1
<1>2. CASE setting \in {"domain"} \X {"", "d"}
  BY <1>2 DEF IsField, FieldNames
<1>3. CASE setting \in {"messageKey"} \X {"", "m"}
  BY <1>3 DEF IsField, FieldNames
<1>4. CASE setting \in {"emailHash"} \X {S!NULL, "e"}
  BY <1>4 DEF IsField, FieldNames, S!NULL
<1>5. CASE setting \in {"regularKey"} \X ({S!NULL} \cup Keys)
  BY <1>5 DEF S!NULL
<1>6. CASE setting \in
             {"signers"} \X {S!NoSigners, [threshold |-> 2, weights |-> [address : Keys, weight : {2}]]}
  BY <1>6
<1>7. CASE setting \in {s \in {"transferRate"} \X ({S!NULLRATE} \cup SettingRates) :
                          S!Permitted(s[1], s[2])}
  <2>1. setting[1] = "transferRate" /\ setting[2] \in {S!NULLRATE} \cup SettingRates
        /\ S!Permitted(setting[1], setting[2])
    BY <1>7
  <2> QED
    BY <2>1 DEF S!Permitted, IsField, FieldNames, GivenRates
<1> QED
  BY <1>1, <1>2, <1>3, <1>4, <1>5, <1>6, <1>7 DEF S!Settings

LEMMA NamesApart ==
  /\ FlagNames \subseteq {"enableTransactionIDTracking"} \cup Bits
  /\ FlagNames \cap (FieldNames \cup {"regularKey", "signers"}) = {}
  /\ "regularKey" \notin FieldNames /\ "signers" \notin FieldNames
  /\ "enableTransactionIDTracking" \notin Bits
BY SettingsAssumption, FlagTables DEF Bits, FieldNames

LEMMA FlagAsAsked ==
  ASSUME RootInv, NEW name \in FlagNames, NEW value \in BOOLEAN,
         root' = Applied(root, name, value),
         asked' = IF name = "noFreeze" /\ ~value THEN asked
                  ELSE [asked EXCEPT ![name] = value]
  PROVE  RootInv'
<1>1. /\ IsRoot(root) /\ asked = [n \in AskedNames |-> asked[n]] /\ name \in AskedNames
      /\ \A n \in FlagNames : asked[n] \in BOOLEAN
      /\ BitsAsAsked(root, asked) /\ FieldsAsAsked(root, asked) /\ KeyAsAsked(root, asked)
  BY DEF RootInv, AskedNames
<1>2. /\ asked' = [n \in AskedNames |-> asked'[n]]
      /\ \A n \in AskedNames \ {name} : asked'[n] = asked[n]
      /\ asked'[name] = IF name = "noFreeze" /\ ~value THEN asked[name] ELSE value
  BY <1>1
<1>3. \A n \in FlagNames : asked'[n] \in BOOLEAN
  BY <1>1, <1>2 DEF AskedNames
<1>4. \A n \in FieldNames \cup {"regularKey"} : asked'[n] = asked[n]
  BY <1>2, NamesApart DEF AskedNames
<1>5. ASSUME root'["Domain"] = root["Domain"], root'["MessageKey"] = root["MessageKey"],
             root'["EmailHash"] = root["EmailHash"],
             root'["TransferRate"] = root["TransferRate"],
             root'["RegularKey"] = root["RegularKey"]
      PROVE  FieldsAsAsked(root', asked') /\ KeyAsAsked(root', asked')
  <2>1. /\ asked'["domain"] = asked["domain"] /\ asked'["messageKey"] = asked["messageKey"]
        /\ asked'["emailHash"] = asked["emailHash"]
        /\ asked'["transferRate"] = asked["transferRate"]
        /\ asked'["regularKey"] = asked["regularKey"]
    BY <1>4 DEF FieldNames
  <2> QED
    BY <1>1, <1>5, <2>1 DEF FieldsAsAsked, KeyAsAsked
<1>6. CASE name = "enableTransactionIDTracking"
  <2>1. IsRoot(root') /\ SameBut(root', root, {"AccountTxnID"})
    BY <1>1, <1>6, AppliedTracking
  <2>2. \A f \in RootFields \ {"AccountTxnID"} : root'[f] = root[f]
    BY <1>1, <2>1 DEF SameBut, IsRoot
  <2>3. FieldsAsAsked(root', asked') /\ KeyAsAsked(root', asked')
    BY <1>5, <2>2 DEF RootFields
  <2>4. \A n \in FlagNames \cap Bits : asked'[n] = asked[n]
    BY <1>2, <1>6, NamesApart DEF AskedNames
  <2>5. BitsAsAsked(root', asked')
    BY <1>1, <2>2, <2>4 DEF BitsAsAsked, RootFields
  <2> QED
    BY <1>2, <1>3, <2>1, <2>3, <2>5 DEF RootInv
<1>7. CASE name \in Bits
  <2>1. /\ IsRoot(root') /\ SameBut(root', root, {"Flags"})
        /\ root'["Flags"] = IF value THEN root["Flags"] \cup {S!AccountFlags[name]}
                            ELSE IF name = "noFreeze" THEN root["Flags"]
                            ELSE root["Flags"] \ {S!AccountFlags[name]}
    <3>1. name \in FlagNames \cap Bits
      BY <1>7
    <3> QED
      BY <1>1, <3>1, AppliedFlag DEF Applied
  <2>2. \A f \in RootFields \ {"Flags"} : root'[f] = root[f]
    BY <1>1, <2>1 DEF SameBut, IsRoot
  <2>3. FieldsAsAsked(root', asked') /\ KeyAsAsked(root', asked')
    BY <1>5, <2>2 DEF RootFields
  <2>4. ASSUME NEW n \in Bits
        PROVE  S!AccountFlags[n] \in root'["Flags"] <=> n \in FlagNames /\ asked'[n] = TRUE
    <3>1. S!AccountFlags[n] \in root["Flags"] <=> n \in FlagNames /\ asked[n] = TRUE
      BY <1>1 DEF BitsAsAsked
    <3>2. CASE n = name
      BY <1>2, <2>1, <3>1, <3>2
    <3>3. CASE n # name
      <4>1. S!AccountFlags[n] # S!AccountFlags[name]
        BY <1>7, <3>3, FlagTables
      <4>2. n \in FlagNames => asked'[n] = asked[n]
        BY <1>2, <3>3 DEF AskedNames
      <4> QED
        BY <2>1, <3>1, <4>1, <4>2
    <3> QED
      BY <3>2, <3>3
  <2>5. BitsAsAsked(root', asked')
    BY <2>4 DEF BitsAsAsked
  <2> QED
    BY <1>2, <1>3, <2>1, <2>3, <2>5 DEF RootInv
<1> QED
  BY <1>6, <1>7, NamesApart

LEMMA FieldAsAsked ==
  ASSUME RootInv, NEW name \in FieldNames, NEW value, IsField(name, value),
         root' = Applied(root, name, value), asked' = [asked EXCEPT ![name] = value]
  PROVE  RootInv'
<1> DEFINE field == FieldOf(name)
<1>1. /\ IsRoot(root) /\ asked = [n \in AskedNames |-> asked[n]] /\ name \in AskedNames
      /\ \A n \in FlagNames : asked[n] \in BOOLEAN
      /\ BitsAsAsked(root, asked) /\ FieldsAsAsked(root, asked) /\ KeyAsAsked(root, asked)
  BY DEF RootInv, AskedNames
<1>2. /\ asked' = [n \in AskedNames |-> asked'[n]] /\ asked'[name] = value
      /\ \A n \in AskedNames \ {name} : asked'[n] = asked[n]
  BY <1>1
<1>3. \A n \in FlagNames : asked'[n] = asked[n]
  BY <1>2, NamesApart DEF AskedNames
<1>4. /\ IsRoot(root')
      /\ \A f \in RootFields \ {field} : root'[f] = root[f]
      /\ root'[field] = S!Stored(field, S!FieldValue(name, value))
  BY <1>1, AppliedField DEF SameBut, IsRoot
<1>5. BitsAsAsked(root', asked')
  <2>1. root'["Flags"] = root["Flags"]
    BY <1>4 DEF RootFields, FieldOf, FieldNames
  <2> QED
    BY <1>1, <1>3, <2>1 DEF BitsAsAsked
<1>6. KeyAsAsked(root', asked')
  <2>1. root'["RegularKey"] = root["RegularKey"] /\ asked'["regularKey"] = asked["regularKey"]
    BY <1>2, <1>4 DEF RootFields, FieldOf, FieldNames, AskedNames
  <2> QED
    BY <1>1, <2>1 DEF KeyAsAsked
<1>7. /\ name = "domain" => DomainIs(root'["Domain"], value)
      /\ name = "messageKey" => MessageKeyIs(root'["MessageKey"], value)
      /\ name = "emailHash" => EmailHashIs(root'["EmailHash"], value)
      /\ name = "transferRate" => RateIs(root'["TransferRate"], value)
  <2>1. CASE name = "domain"
    BY <1>4, <2>1 DEF S!Stored, S!FieldValue, FieldOf, IsField, DomainIs
  <2>2. CASE name = "messageKey"
    BY <1>4, <2>2 DEF S!Stored, S!FieldValue, FieldOf, IsField, MessageKeyIs
  <2>3. CASE name = "emailHash"
    <3>1. root'["EmailHash"] = (IF (IF value = "null" THEN "0" ELSE value) = "0" THEN ""
                                ELSE IF value = "null" THEN "0" ELSE value)
      BY <1>4, <2>3 DEF S!Stored, S!FieldValue, FieldOf, S!NULL
    <3>2. value \in {"null", "e"}
      BY <2>3 DEF IsField
    <3> QED
      BY <2>3, <3>1, <3>2 DEF EmailHashIs
  <2>4. CASE name = "transferRate"
    <3> DEFINE shifted == S!Shift(IF value = S!NULLRATE THEN 0 ELSE value)
    <3>1. value \in GivenRates
      BY <2>4 DEF IsField
    <3>2. root'["TransferRate"] = IF shifted = S!Shift(1000) THEN 0 ELSE shifted
      BY <1>4, <2>4 DEF S!Stored, S!FieldValue, FieldOf
    <3>3. S!Shift(0) = 0
      BY DEF S!Shift
    <3>4. CASE value = S!NULLRATE
      <4>1. shifted = 0
        BY <3>3, <3>4
      <4>2. root'["TransferRate"] = 0
        BY <3>2, <4>1
      <4> QED
        BY <2>4, <3>1, <3>4, <4>2 DEF RateIs
    <3>5. CASE value # S!NULLRATE
      <4>2. S!Shift(value) = S!Shift(1000) <=> value = 1000
        BY <3>1, <3>5, RatesGiven
      <4>3. shifted = S!Shift(value)
        BY <3>5
      <4> HIDE DEF shifted
      <4> QED
        BY <2>4, <3>1, <3>2, <3>5, <4>2, <4>3 DEF RateIs
    <3> QED
      BY <3>4, <3>5
  <2> QED
    BY <2>1, <2>2, <2>3, <2>4
<1>8. FieldsAsAsked(root', asked')
  <2>1. ASSUME NEW other \in FieldNames \ {name}
        PROVE  asked'[other] = asked[other] /\ root'[FieldOf(other)] = root[FieldOf(other)]
    <3>1. FieldOf(other) \in RootFields \ {field}
      BY DEF FieldOf, FieldNames, RootFields
    <3> QED
      BY <1>2, <1>4, <3>1 DEF AskedNames
  <2>2. DomainIs(root'["Domain"], asked'["domain"])
    <3>1. CASE name = "domain"
      BY <1>2, <1>7, <3>1
    <3>2. CASE name # "domain"
      BY <1>1, <2>1, <3>2 DEF FieldsAsAsked, FieldOf, FieldNames
    <3> QED
      BY <3>1, <3>2
  <2>3. MessageKeyIs(root'["MessageKey"], asked'["messageKey"])
    <3>1. CASE name = "messageKey"
      BY <1>2, <1>7, <3>1
    <3>2. CASE name # "messageKey"
      BY <1>1, <2>1, <3>2 DEF FieldsAsAsked, FieldOf, FieldNames
    <3> QED
      BY <3>1, <3>2
  <2>4. EmailHashIs(root'["EmailHash"], asked'["emailHash"])
    <3>1. CASE name = "emailHash"
      BY <1>2, <1>7, <3>1
    <3>2. CASE name # "emailHash"
      BY <1>1, <2>1, <3>2 DEF FieldsAsAsked, FieldOf, FieldNames
    <3> QED
      BY <3>1, <3>2
  <2>5. RateIs(root'["TransferRate"], asked'["transferRate"])
    <3>1. CASE name = "transferRate"
      BY <1>2, <1>7, <3>1
    <3>2. CASE name # "transferRate"
      BY <1>1, <2>1, <3>2 DEF FieldsAsAsked, FieldOf, FieldNames
    <3> QED
      BY <3>1, <3>2
  <2> QED
    BY <2>2, <2>3, <2>4, <2>5 DEF FieldsAsAsked
<1> QED
  BY <1>1, <1>2, <1>3, <1>4, <1>5, <1>6, <1>8 DEF RootInv

LEMMA OtherAsAsked ==
  ASSUME RootInv, NEW name, NEW value,
         \/ /\ name = "regularKey" /\ value \in {"null"} \cup Keys
            /\ asked' = [asked EXCEPT ![name] = value]
         \/ name = "signers" /\ asked' = asked,
         root' = Applied(root, name, value)
  PROVE  RootInv'
<1>1. /\ IsRoot(root) /\ asked = [n \in AskedNames |-> asked[n]]
      /\ "regularKey" \in AskedNames
      /\ \A n \in FlagNames : asked[n] \in BOOLEAN
      /\ BitsAsAsked(root, asked) /\ FieldsAsAsked(root, asked) /\ KeyAsAsked(root, asked)
  BY DEF RootInv, AskedNames
<1>2. /\ asked' = [n \in AskedNames |-> asked'[n]]
      /\ \A n \in AskedNames \ {"regularKey"} : asked'[n] = asked[n]
  BY <1>1
<1>3. \A n \in FlagNames \cup FieldNames : asked'[n] = asked[n]
  BY <1>2, NamesApart DEF AskedNames
<1>4. IsRoot(root') /\ \A f \in RootFields \ {"RegularKey", "signers"} : root'[f] = root[f]
  <2>1. CASE name = "regularKey"
    <3>1. IsRoot(root') /\ SameBut(root', root, {"RegularKey"})
      BY <1>1, <2>1, AppliedKey
    <3> QED
      BY <1>1, <3>1 DEF SameBut, IsRoot
  <2>2. CASE name = "signers"
    <3>1. IsRoot(root') /\ SameBut(root', root, {"signers"})
      BY <1>1, <2>2, AppliedSigners
    <3> QED
      BY <1>1, <3>1 DEF SameBut, IsRoot
  <2> QED
    BY <2>1, <2>2
<1>6. BitsAsAsked(root', asked')
  BY <1>1, <1>3, <1>4 DEF BitsAsAsked, RootFields
<1>7. FieldsAsAsked(root', asked')
  BY <1>1, <1>3, <1>4 DEF FieldsAsAsked, RootFields, FieldNames
<1>8. KeyAsAsked(root', asked')
  <2>1. CASE name = "regularKey"
    <3>1. root'["RegularKey"] = (IF value = "null" THEN "" ELSE value)
          /\ asked'["regularKey"] = value
      BY <1>1, <2>1, AppliedKey
    <3> QED
      BY <2>1, <3>1 DEF KeyAsAsked, KeyIs
  <2>2. CASE name = "signers"
    <3>1. root'["RegularKey"] = root["RegularKey"]
      BY <1>1, <2>2, AppliedSigners DEF SameBut, IsRoot, RootFields
    <3> QED
      BY <1>1, <2>2, <3>1 DEF KeyAsAsked
  <2> QED
    BY <2>1, <2>2
<1> QED
  BY <1>1, <1>2, <1>3, <1>4, <1>6, <1>7, <1>8 DEF RootInv

LEMMA SettingStep ==
  ASSUME RootInv, S!SetSetting
  PROVE  RootInv'
<1>1. PICK setting \in S!Settings :
        /\ root' = Applied(root, setting[1], setting[2])
        /\ asked' = IF setting[1] = "signers" \/ (setting[1] = "noFreeze" /\ ~setting[2])
                    THEN asked ELSE [asked EXCEPT ![setting[1]] = setting[2]]
  BY DEF S!SetSetting, Applied
<1> DEFINE name == setting[1]
           value == setting[2]
<1>2. CASE name \in FlagNames /\ value \in BOOLEAN
  <2>1. name # "signers"
    BY <1>2, NamesApart
  <2> QED
    BY <1>1, <1>2, <2>1, FlagAsAsked
<1>3. CASE name \in FieldNames /\ IsField(name, value)
  <2>1. name # "signers" /\ name # "noFreeze"
    BY <1>3 DEF FieldNames
  <2> QED
    BY <1>1, <1>3, <2>1, FieldAsAsked
<1>4. CASE name = "regularKey" /\ value \in {"null"} \cup Keys
  BY <1>1, <1>4, OtherAsAsked
<1>5. CASE name = "signers"
  BY <1>1, <1>5, OtherAsAsked
<1> QED
  BY <1>2, <1>3, <1>4, <1>5, SettingCases

LEMMA PasswordStep ==
  ASSUME RootInv, S!PasswordSpent
  PROVE  RootInv'
<1> DEFINE flags == IF 16 \in root["Flags"] THEN root["Flags"] \ {16}
                    ELSE root["Flags"] \cup {16}
<1>1. root' = [root EXCEPT !.Flags = flags] /\ asked' = asked
  BY DEF S!PasswordSpent
<1>2. DOMAIN root = RootFields /\ "Flags" \in RootFields
  BY DEF RootInv, IsRoot, RootFields
<1> HIDE DEF flags
<1>3. /\ IsRoot(root') /\ root'["Flags"] = flags
      /\ \A f \in RootFields \ {"Flags"} : root'[f] = root[f]
  BY <1>1, <1>2 DEF IsRoot
<1>4. \A name \in Bits : S!AccountFlags[name] \in flags <=> S!AccountFlags[name] \in root["Flags"]
  <2>1. ASSUME NEW name \in Bits
        PROVE  S!AccountFlags[name] # 16
    <3>1. S!AccountFlags[name] \in 17 .. 23
      BY FlagTables, Zenon
    <3> QED
      BY <3>1
  <2> QED
    BY <2>1 DEF flags
<1>5. BitsAsAsked(root', asked')
  BY <1>1, <1>3, <1>4 DEF RootInv, BitsAsAsked
<1>6. FieldsAsAsked(root', asked') /\ KeyAsAsked(root', asked')
  BY <1>1, <1>3 DEF RootInv, FieldsAsAsked, KeyAsAsked, RootFields
<1> QED
  BY <1>1, <1>3, <1>5, <1>6 DEF RootInv

LEMMA RootStart ==
  ASSUME S!Init
  PROVE  RootInv
<1> DEFINE flags == [name \in FlagNames |-> FALSE]
           domain == S!OneField("domain", "")
           message == S!OneField("messageKey", "")
           email == S!OneField("emailHash", S!NULL)
           key == S!OneField("regularKey", S!NULL)
           rate == S!OneField("transferRate", S!NULLRATE)
           given1 == S!Merged(flags, domain)
           given2 == S!Merged(given1, message)
           given3 == S!Merged(given2, email)
           given4 == S!Merged(given3, key)
<1>1. asked = S!Merged(given4, rate) /\ root = S!NoRoot
  BY DEF S!Init, S!@@, S!:>
<1>2. /\ DOMAIN domain = {"domain"} /\ domain["domain"] = ""
      /\ DOMAIN message = {"messageKey"} /\ message["messageKey"] = ""
      /\ DOMAIN email = {"emailHash"} /\ email["emailHash"] = S!NULL
      /\ DOMAIN key = {"regularKey"} /\ key["regularKey"] = S!NULL
      /\ DOMAIN rate = {"transferRate"} /\ rate["transferRate"] = S!NULLRATE
      /\ DOMAIN flags = FlagNames /\ \A name \in FlagNames : flags[name] = FALSE
  BY DEF S!OneField
<1> HIDE DEF flags, domain, message, email, key, rate
<1> DEFINE Started(given, names) ==
             /\ DOMAIN given = FlagNames \cup names
             /\ \A n \in FlagNames : given[n] = FALSE
<1>3. Started(given1, {"domain"}) /\ given1["domain"] = ""
  BY <1>2, NamesApart DEF S!Merged, FieldNames
<1> HIDE DEF given1
<1>4. /\ Started(given2, {"domain", "messageKey"})
      /\ given2["domain"] = "" /\ given2["messageKey"] = ""
  BY <1>2, <1>3, NamesApart DEF S!Merged, FieldNames
<1> HIDE DEF given2
<1>5. /\ Started(given3, {"domain", "messageKey", "emailHash"})
      /\ given3["domain"] = "" /\ given3["messageKey"] = "" /\ given3["emailHash"] = S!NULL
  BY <1>2, <1>4, NamesApart DEF S!Merged, FieldNames
<1> HIDE DEF given3
<1>6. /\ Started(given4, {"domain", "messageKey", "emailHash", "regularKey"})
      /\ given4["domain"] = "" /\ given4["messageKey"] = "" /\ given4["emailHash"] = S!NULL
      /\ given4["regularKey"] = S!NULL
  BY <1>2, <1>5, NamesApart DEF S!Merged, FieldNames
<1> HIDE DEF given4
<1>7. /\ Started(asked, {"domain", "messageKey", "emailHash", "regularKey", "transferRate"})
      /\ asked["domain"] = "" /\ asked["messageKey"] = "" /\ asked["emailHash"] = S!NULL
      /\ asked["regularKey"] = S!NULL /\ asked["transferRate"] = S!NULLRATE
  BY <1>1, <1>2, <1>6, NamesApart DEF S!Merged, FieldNames
<1>8. asked = [n \in AskedNames |-> asked[n]]
  <2>0. asked = [n \in DOMAIN asked |-> asked[n]]
    BY <1>1 DEF S!Merged
  <2>1. FlagNames \cup {"domain", "messageKey", "emailHash", "regularKey", "transferRate"}
          = AskedNames
    BY DEF AskedNames, FieldNames
  <2> QED
    BY <1>7, <2>0, <2>1
<1>9. /\ IsRoot(root) /\ root["Flags"] = {} /\ root["EmailHash"] = ""
      /\ root["MessageKey"] = "" /\ root["Domain"] = "" /\ root["TransferRate"] = 0
      /\ root["RegularKey"] = ""
  BY <1>1 DEF S!NoRoot, IsRoot, RootFields
<1>10. BitsAsAsked(root, asked)
  BY <1>7, <1>9 DEF BitsAsAsked
<1>11. FieldsAsAsked(root, asked)
  <2>1. DomainIs(root["Domain"], asked["domain"])
    BY <1>7, <1>9, HexTable DEF DomainIs
  <2>2. MessageKeyIs(root["MessageKey"], asked["messageKey"])
    BY <1>7, <1>9 DEF MessageKeyIs
  <2>3. EmailHashIs(root["EmailHash"], asked["emailHash"])
    BY <1>7, <1>9 DEF EmailHashIs, S!NULL
  <2>4. RateIs(root["TransferRate"], asked["transferRate"])
    BY <1>7, <1>9 DEF RateIs, GivenRates
  <2> QED
    BY <2>1, <2>2, <2>3, <2>4 DEF FieldsAsAsked
<1>12. KeyAsAsked(root, asked)
  BY <1>7, <1>9 DEF KeyAsAsked, KeyIs, S!NULL
<1> QED
  BY <1>7, <1>8, <1>9, <1>10, <1>11, <1>12 DEF RootInv

(* ----------------------- What a read says of it ------------------------ *)

LEMMA FieldOfName ==
  /\ \A name \in FieldNames :
       /\ FieldOf(name) \in DOMAIN S!AccountFields
       /\ S!AccountFields[FieldOf(name)] = name
       /\ (CHOOSE f \in DOMAIN S!AccountFields : S!AccountFields[f] = name) = FieldOf(name)
  /\ \A f \in DOMAIN S!AccountFields :
       S!AccountFields[f] \in FieldNames /\ FieldOf(S!AccountFields[f]) = f
<1>1. \A name \in FieldNames : FieldOf(name) \in DOMAIN S!AccountFields
                                /\ S!AccountFields[FieldOf(name)] = name
  BY FieldTable DEF FieldNames, FieldOf
<1>2. \A f \in DOMAIN S!AccountFields :
        S!AccountFields[f] \in FieldNames /\ FieldOf(S!AccountFields[f]) = f
  BY FieldTable DEF FieldNames, FieldOf
<1>3. ASSUME NEW name \in FieldNames
      PROVE  (CHOOSE f \in DOMAIN S!AccountFields : S!AccountFields[f] = name) = FieldOf(name)
  BY <1>1, <1>2
<1> QED
  BY <1>1, <1>2, <1>3

(* The parsed fields of an account root, which has no signers.             *)
LEMMA ParsedFields ==
  ASSUME NEW data, "SignerQuorum" \notin DOMAIN data
  PROVE  LET parsed == S!parseFields(data)
         IN /\ parsed = [n \in DOMAIN parsed |-> parsed[n]]
            /\ DOMAIN parsed = {n \in FieldNames : FieldOf(n) \in DOMAIN data}
                                 \cup {n \in {"regularKey"} : "RegularKey" \in DOMAIN data}
            /\ \A n \in FieldNames : FieldOf(n) \in DOMAIN data =>
                 parsed[n] = S!parseField(FieldOf(n), data[FieldOf(n)])
            /\ "RegularKey" \in DOMAIN data => parsed["regularKey"] = data["RegularKey"]
<1> DEFINE names == {S!AccountFields[f] : f \in DOMAIN S!AccountFields \cap DOMAIN data}
           Field(name) == CHOOSE f \in DOMAIN S!AccountFields : S!AccountFields[f] = name
           fields == [name \in names |-> S!parseField(Field(name), data[Field(name)])]
           key == IF "RegularKey" \in DOMAIN data
                  THEN S!OneField("regularKey", data["RegularKey"]) ELSE S!NoFields
           both == S!Merged(fields, key)
           parsed == S!parseFields(data)
<1>1. parsed = S!Merged(both, S!NoFields)
  BY DEF S!parseFields, S!@@, S!:>
<1>2. names = {n \in FieldNames : FieldOf(n) \in DOMAIN data}
  BY FieldOfName
<1>3. /\ DOMAIN fields = {n \in FieldNames : FieldOf(n) \in DOMAIN data}
      /\ \A n \in FieldNames : FieldOf(n) \in DOMAIN data =>
           fields[n] = S!parseField(FieldOf(n), data[FieldOf(n)])
  <2> HIDE DEF names
  <2> QED
    BY <1>2, FieldOfName
<1>4. /\ DOMAIN key = {n \in {"regularKey"} : "RegularKey" \in DOMAIN data}
      /\ "RegularKey" \in DOMAIN data => key["regularKey"] = data["RegularKey"]
  BY DEF S!NoFields, S!OneField
<1>5. "regularKey" \notin FieldNames
  BY DEF FieldNames
<1> HIDE DEF fields, key, parsed
<1>6. /\ DOMAIN both = DOMAIN fields \cup DOMAIN key
      /\ \A n \in DOMAIN fields : both[n] = fields[n]
      /\ \A n \in DOMAIN key \ DOMAIN fields : both[n] = key[n]
  BY DEF S!Merged
<1> HIDE DEF both
<1>7. DOMAIN parsed = DOMAIN both /\ parsed = [n \in DOMAIN both |-> both[n]]
  BY <1>1 DEF S!Merged, S!NoFields
<1>8. \A n \in DOMAIN both : parsed[n] = both[n]
  BY <1>7
<1>9. /\ parsed = [n \in DOMAIN parsed |-> parsed[n]]
      /\ DOMAIN parsed = {n \in FieldNames : FieldOf(n) \in DOMAIN data}
                           \cup {n \in {"regularKey"} : "RegularKey" \in DOMAIN data}
  BY <1>3, <1>4, <1>6, <1>7
<1>10. \A n \in FieldNames : FieldOf(n) \in DOMAIN data =>
         parsed[n] = S!parseField(FieldOf(n), data[FieldOf(n)])
  BY <1>3, <1>6, <1>8
<1>11. "RegularKey" \in DOMAIN data => parsed["regularKey"] = data["RegularKey"]
  BY <1>3, <1>4, <1>5, <1>6, <1>8
<1> QED
  BY <1>9, <1>10, <1>11 DEF parsed

LEMMA AccountDataIs ==
  ASSUME RootInv
  PROVE  LET data == S!AccountData(root)
         IN /\ "SignerQuorum" \notin DOMAIN data
            /\ \A f \in {"EmailHash", "MessageKey", "Domain", "RegularKey"} :
                 f \in DOMAIN data <=> root[f] # ""
            /\ "TransferRate" \in DOMAIN data <=> root["TransferRate"] # 0
            /\ \A f \in DOMAIN data : data[f] = root[f]
BY DEF S!AccountData

(* What is kept of a setting is the default or says what was asked for.    *)
LEMMA DefaultIs ==
  ASSUME RootInv
  PROVE  /\ \A n \in FlagNames : S!Default(n, asked[n]) <=> asked[n] # TRUE
         /\ S!Default("domain", asked["domain"]) <=> root["Domain"] = ""
         /\ S!Default("messageKey", asked["messageKey"]) <=> root["MessageKey"] = ""
         /\ S!Default("emailHash", asked["emailHash"]) <=> root["EmailHash"] = ""
         /\ S!Default("transferRate", asked["transferRate"]) <=> root["TransferRate"] = 0
         /\ S!Default("regularKey", asked["regularKey"]) <=> root["RegularKey"] = ""
<1>1. \A n \in FlagNames : asked[n] \in BOOLEAN
  BY DEF RootInv
<1>2. \A n \in FlagNames : S!Default(n, asked[n]) <=> asked[n] # TRUE
  <2>1. ASSUME NEW n \in FlagNames
        PROVE  S!Default(n, asked[n]) <=> asked[n] \in {FALSE}
    BY NamesApart DEF S!Default, FieldNames
  <2> QED
    BY <1>1, <2>1
<1>3. S!Default("domain", asked["domain"]) <=> root["Domain"] = ""
  <2>1. S!Default("domain", asked["domain"]) <=> asked["domain"] = ""
    BY NamesApart DEF S!Default, FieldNames
  <2> QED
    BY <2>1, HexTable DEF RootInv, FieldsAsAsked, DomainIs
<1>4. S!Default("messageKey", asked["messageKey"]) <=> root["MessageKey"] = ""
  <2>1. S!Default("messageKey", asked["messageKey"]) <=> asked["messageKey"] = ""
    BY NamesApart DEF S!Default, FieldNames
  <2> QED
    BY <2>1 DEF RootInv, FieldsAsAsked, MessageKeyIs
<1>5. S!Default("emailHash", asked["emailHash"]) <=> root["EmailHash"] = ""
  <2>1. S!Default("emailHash", asked["emailHash"]) <=> asked["emailHash"] = "null"
    BY NamesApart DEF S!Default, FieldNames, S!NULL
  <2> QED
    BY <2>1 DEF RootInv, FieldsAsAsked, EmailHashIs
<1>6. S!Default("transferRate", asked["transferRate"]) <=> root["TransferRate"] = 0
  <2>1. S!Default("transferRate", asked["transferRate"])
          <=> asked["transferRate"] \in {S!NULLRATE, 1000}
    BY NamesApart DEF S!Default, FieldNames
  <2>2. RateIs(root["TransferRate"], asked["transferRate"])
    BY DEF RootInv, FieldsAsAsked
  <2>3. \A rate \in GivenRates \ {S!NULLRATE} : S!Shift(rate) # 0
    BY RatesGiven
  <2> QED
    BY <2>1, <2>2, <2>3 DEF RateIs
<1>7. S!Default("regularKey", asked["regularKey"]) <=> root["RegularKey"] = ""
  <2>1. S!Default("regularKey", asked["regularKey"]) <=> asked["regularKey"] = "null"
    BY NamesApart DEF S!Default, FieldNames, S!NULL
  <2>2. "" \notin Keys
    BY SettingsAssumption
  <2> QED
    BY <2>1, <2>2 DEF RootInv, KeyAsAsked, KeyIs
<1> QED
  BY <1>2, <1>3, <1>4, <1>5, <1>6, <1>7

LEMMA FieldRead ==
  ASSUME RootInv, NEW name \in FieldNames
  PROVE  LET data == S!AccountData(root)
             field == FieldOf(name)
         IN /\ field \in DOMAIN data <=> ~S!Default(name, asked[name])
            /\ field \in DOMAIN data => S!parseField(field, data[field]) = asked[name]
<1> DEFINE data == S!AccountData(root)
<1>1. /\ \A f \in {"EmailHash", "MessageKey", "Domain", "RegularKey"} :
           f \in DOMAIN data <=> root[f] # ""
      /\ "TransferRate" \in DOMAIN data <=> root["TransferRate"] # 0
      /\ \A f \in DOMAIN data : data[f] = root[f]
  BY AccountDataIs
<1> HIDE DEF data
<1>2. CASE name = "domain"
  <2>1. "Domain" \in DOMAIN data <=> ~S!Default("domain", asked["domain"])
    BY <1>1, DefaultIs
  <2>2. S!parseField("Domain", root["Domain"]) = asked["domain"]
    BY HexTable DEF RootInv, FieldsAsAsked, DomainIs
  <2> QED
    BY <1>1, <1>2, <2>1, <2>2 DEF FieldOf, data
<1>3. CASE name = "messageKey"
  <2>1. "MessageKey" \in DOMAIN data <=> ~S!Default("messageKey", asked["messageKey"])
    BY <1>1, DefaultIs
  <2>2. S!parseField("MessageKey", root["MessageKey"]) = asked["messageKey"]
    BY DEF RootInv, FieldsAsAsked, MessageKeyIs, S!parseField
  <2> QED
    BY <1>1, <1>3, <2>1, <2>2 DEF FieldOf, data
<1>4. CASE name = "emailHash"
  <2>1. "EmailHash" \in DOMAIN data <=> ~S!Default("emailHash", asked["emailHash"])
    BY <1>1, DefaultIs
  <2>2. root["EmailHash"] # "" => S!parseField("EmailHash", root["EmailHash"]) = asked["emailHash"]
    BY DEF RootInv, FieldsAsAsked, EmailHashIs, S!parseField
  <2> QED
    BY <1>1, <1>4, <2>1, <2>2 DEF FieldOf, data
<1>5. CASE name = "transferRate"
  <2>1. "TransferRate" \in DOMAIN data <=> ~S!Default("transferRate", asked["transferRate"])
    BY <1>1, DefaultIs
  <2>2. ASSUME root["TransferRate"] # 0
        PROVE  S!parseField("TransferRate", root["TransferRate"]) = asked["transferRate"]
    <3>1. RateIs(root["TransferRate"], asked["transferRate"])
      BY DEF RootInv, FieldsAsAsked
    <3>2. /\ asked["transferRate"] \in GivenRates \ {S!NULLRATE}
          /\ root["TransferRate"] = S!Shift(asked["transferRate"])
      BY <2>2, <3>1 DEF RateIs
    <3>3. S!Unshift(root["TransferRate"]) = asked["transferRate"]
      BY <3>2, RatesGiven
    <3> QED
      BY <3>3 DEF S!parseField
  <2> QED
    BY <1>1, <1>5, <2>1, <2>2 DEF FieldOf, data
<1> QED
  BY <1>2, <1>3, <1>4, <1>5 DEF FieldNames

LEMMA SettingsRead == RootInv => S!SettingsReadBack
<1> SUFFICES ASSUME RootInv
             PROVE  S!SettingsReadBack
  OBVIOUS
<1> DEFINE data == S!AccountData(root)
           set == {n \in DOMAIN S!AccountFlags : S!AccountFlags[n] \in root["Flags"]}
           flags == [name \in set |-> TRUE]
           parsed == S!parseFields(data)
           told == {n \in DOMAIN asked \ {"enableTransactionIDTracking"} :
                      ~S!Default(n, asked[n])}
           given == [name \in told |-> asked[name]]
           spent == IF 16 \in root["Flags"] THEN S!OneField("passwordSpent", TRUE)
                    ELSE S!NoFields
<1>1. /\ S!getSettings(root) = S!Merged(flags, parsed)
      /\ S!SettingsReadBack <=> S!getSettings(root) = S!Merged(given, spent)
  BY DEF S!getSettings, S!SettingsReadBack, S!@@, S!:>
<1>2. /\ DOMAIN parsed = {n \in FieldNames : FieldOf(n) \in DOMAIN data}
                           \cup {n \in {"regularKey"} : "RegularKey" \in DOMAIN data}
      /\ \A n \in FieldNames : FieldOf(n) \in DOMAIN data =>
           parsed[n] = S!parseField(FieldOf(n), data[FieldOf(n)])
      /\ "RegularKey" \in DOMAIN data => parsed["regularKey"] = data["RegularKey"]
  <2>1. "SignerQuorum" \notin DOMAIN data
    BY AccountDataIs
  <2> HIDE DEF data
  <2> QED
    BY <2>1, ParsedFields
<1>3. \A n \in FieldNames :
        /\ n \in DOMAIN parsed <=> ~S!Default(n, asked[n])
        /\ n \in DOMAIN parsed => parsed[n] = asked[n]
  <2>1. "regularKey" \notin FieldNames
    BY DEF FieldNames
  <2>2. \A n \in FieldNames :
          /\ FieldOf(n) \in DOMAIN data <=> ~S!Default(n, asked[n])
          /\ FieldOf(n) \in DOMAIN data => S!parseField(FieldOf(n), data[FieldOf(n)]) = asked[n]
    BY FieldRead
  <2> HIDE DEF data, parsed
  <2> QED
    BY <1>2, <2>1, <2>2
<1>4. /\ "regularKey" \in DOMAIN parsed <=> ~S!Default("regularKey", asked["regularKey"])
      /\ "regularKey" \in DOMAIN parsed => parsed["regularKey"] = asked["regularKey"]
  <2>1. /\ "RegularKey" \in DOMAIN data <=> root["RegularKey"] # ""
        /\ "RegularKey" \in DOMAIN data => data["RegularKey"] = root["RegularKey"]
    BY AccountDataIs
  <2>2. root["RegularKey"] # "" => root["RegularKey"] = asked["regularKey"]
    BY DEF RootInv, KeyAsAsked, KeyIs
  <2>3. "regularKey" \notin FieldNames
    BY DEF FieldNames
  <2> HIDE DEF data, parsed
  <2>4. "regularKey" \in DOMAIN parsed <=> "RegularKey" \in DOMAIN data
    BY <1>2, <2>3
  <2> QED
    BY <1>2, <2>1, <2>2, <2>4, DefaultIs
<1>5. DOMAIN parsed \subseteq FieldNames \cup {"regularKey"}
  BY <1>2
<1>6. /\ set \subseteq {"passwordSpent"} \cup Bits
      /\ "passwordSpent" \in set <=> 16 \in root["Flags"]
      /\ \A n \in Bits : n \in set <=> n \in FlagNames /\ asked[n] = TRUE
  <2>1. BitsAsAsked(root, asked)
    BY DEF RootInv
  <2> QED
    BY <2>1, FlagTables, Zenon DEF BitsAsAsked
<1>7. \A n \in Bits : n \in told <=> n \in FlagNames /\ asked[n] = TRUE
  <2>1. DOMAIN asked = AskedNames
    BY DEF RootInv
  <2>2. \A n \in Bits : n \in AskedNames <=> n \in FlagNames
    BY DEF AskedNames, Bits, FieldNames
  <2>3. "enableTransactionIDTracking" \notin Bits
    BY NamesApart
  <2> QED
    BY <2>1, <2>2, <2>3, DefaultIs
<1>8. \A n \in FieldNames \cup {"regularKey"} : n \in told <=> ~S!Default(n, asked[n])
  <2>1. DOMAIN asked = AskedNames
    BY DEF RootInv
  <2>2. "enableTransactionIDTracking" \notin FieldNames \cup {"regularKey"}
    BY DEF FieldNames
  <2> QED
    BY <2>1, <2>2 DEF AskedNames
<1>9. told \subseteq Bits \cup FieldNames \cup {"regularKey"}
  <2>1. DOMAIN asked = AskedNames
    BY DEF RootInv
  <2> QED
    BY <2>1, NamesApart DEF AskedNames
<1>10. /\ DOMAIN flags = set /\ \A n \in set : flags[n] = TRUE
       /\ DOMAIN given = told /\ \A n \in told : given[n] = asked[n]
       /\ DOMAIN spent = {n \in {"passwordSpent"} : 16 \in root["Flags"]}
       /\ 16 \in root["Flags"] => spent["passwordSpent"] = TRUE
  BY DEF S!OneField, S!NoFields
<1> HIDE DEF flags, parsed, given, spent, set, told
<1> DEFINE read == S!Merged(flags, parsed)
           wanted == S!Merged(given, spent)
<1>11. /\ DOMAIN read = set \cup DOMAIN parsed /\ read = [n \in DOMAIN read |-> read[n]]
       /\ \A n \in set : read[n] = TRUE
       /\ \A n \in DOMAIN parsed \ set : read[n] = parsed[n]
  BY <1>10 DEF S!Merged
<1>12. /\ DOMAIN wanted = told \cup DOMAIN spent /\ wanted = [n \in DOMAIN wanted |-> wanted[n]]
       /\ \A n \in told : wanted[n] = asked[n]
       /\ \A n \in DOMAIN spent \ told : wanted[n] = spent[n]
  BY <1>10 DEF S!Merged
<1> HIDE DEF read, wanted
<1> DEFINE names == {"passwordSpent"} \cup Bits \cup FieldNames \cup {"regularKey"}
<1>13. /\ Bits \cap (FieldNames \cup {"regularKey", "passwordSpent"}) = {}
       /\ "passwordSpent" \notin FieldNames \cup {"regularKey"}
  BY DEF Bits, FieldNames
<1>14. DOMAIN read \subseteq names /\ DOMAIN wanted \subseteq names
  BY <1>5, <1>6, <1>9, <1>10, <1>11, <1>12
<1>15. ASSUME NEW n \in names
       PROVE  /\ n \in DOMAIN read <=> n \in DOMAIN wanted
              /\ n \in DOMAIN read => read[n] = wanted[n]
  <2>1. CASE n \in Bits
    <3>1. n \in set <=> n \in told
      BY <1>6, <1>7, <2>1
    <3>2. n \notin DOMAIN parsed /\ n \notin DOMAIN spent
      BY <1>5, <1>10, <1>13, <2>1
    <3>3. n \in told => asked[n] = TRUE
      BY <1>7, <2>1
    <3> QED
      BY <1>11, <1>12, <3>1, <3>2, <3>3
  <2>2. CASE n \in FieldNames \cup {"regularKey"}
    <3>1. n \in DOMAIN parsed <=> n \in told
      BY <1>3, <1>4, <1>8, <2>2
    <3>2. n \in DOMAIN parsed => parsed[n] = asked[n]
      BY <1>3, <1>4, <2>2
    <3>3. n \notin set /\ n \notin DOMAIN spent
      BY <1>6, <1>10, <1>13, <2>2
    <3> QED
      BY <1>11, <1>12, <3>1, <3>2, <3>3
  <2>3. CASE n = "passwordSpent"
    <3>1. n \in set <=> n \in DOMAIN spent
      BY <1>6, <1>10, <2>3
    <3>2. n \notin told /\ n \notin DOMAIN parsed
      BY <1>5, <1>9, <1>13, <2>3
    <3>3. n \in DOMAIN spent => spent[n] = TRUE
      BY <1>10, <2>3
    <3> QED
      BY <1>11, <1>12, <3>1, <3>2, <3>3
  <2> QED
    BY <2>1, <2>2, <2>3
<1>16. read = wanted
  <2>1. DOMAIN read = DOMAIN wanted /\ \A n \in DOMAIN read : read[n] = wanted[n]
    BY <1>14, <1>15
  <2> QED
    BY <1>11, <1>12, <2>1
<1> QED
  BY <1>1, <1>16 DEF read, wanted

(* ---------------------------- The trust line --------------------------- *)

(* A specification of a trust line: what it says, if anything.             *)
Yes(spec, name) == name \in DOMAIN spec /\ spec[name] = TRUE
No(spec, name) == name \in DOMAIN spec /\ spec[name] = FALSE
TrustNames == {"ripplingDisabled", "frozen", "authorized"}
IsTrust(spec) ==
  "limit" \in DOMAIN spec /\ \A name \in TrustNames \cap DOMAIN spec : spec[name] \in BOOLEAN

LEMMA TrustCreated ==
  ASSUME NEW spec, IsTrust(spec)
  PROVE  LET t == S!createTrustlineTransaction(spec)
         IN /\ DOMAIN t = {"TransactionType", "LimitAmount", "Flags"}
                            \cup {f \in {"QualityIn"} : "qualityIn" \in DOMAIN spec}
                            \cup {f \in {"QualityOut"} : "qualityOut" \in DOMAIN spec}
            /\ t["TransactionType"] = "TrustSet" /\ t["LimitAmount"] = spec["limit"]
            /\ "qualityIn" \in DOMAIN spec => t["QualityIn"] = S!Shift(spec["qualityIn"])
            /\ "qualityOut" \in DOMAIN spec => t["QualityOut"] = S!Shift(spec["qualityOut"])
            /\ t["Flags"] \subseteq {16, 17, 18, 20, 21}
            /\ 16 \in t["Flags"] <=> Yes(spec, "authorized")
            /\ 17 \in t["Flags"] <=> Yes(spec, "ripplingDisabled")
            /\ 18 \in t["Flags"] <=> No(spec, "ripplingDisabled")
            /\ 20 \in t["Flags"] <=> Yes(spec, "frozen")
            /\ 21 \in t["Flags"] <=> No(spec, "frozen")
<1> DEFINE authorized == IF "authorized" \in DOMAIN spec /\ spec["authorized"]
                         THEN {S!TrustSet.SetAuth} ELSE {}
           rippling == S!Choose(spec, "ripplingDisabled", S!TrustSet.SetNoRipple,
                                S!TrustSet.ClearNoRipple)
           freeze == S!Choose(spec, "frozen", S!TrustSet.SetFreeze, S!TrustSet.ClearFreeze)
           flags == authorized \cup rippling \cup freeze
           type == S!OneField("TransactionType", "TrustSet")
           limit == S!OneField("LimitAmount", spec["limit"])
           marks == S!OneField("Flags", flags)
           into == IF "qualityIn" \in DOMAIN spec
                   THEN S!OneField("QualityIn", S!convertQuality(spec["qualityIn"]))
                   ELSE S!NoFields
           out == IF "qualityOut" \in DOMAIN spec
                  THEN S!OneField("QualityOut", S!convertQuality(spec["qualityOut"]))
                  ELSE S!NoFields
           two == S!Merged(type, limit)
           three == S!Merged(two, marks)
           four == S!Merged(three, into)
           t == S!createTrustlineTransaction(spec)
<1>1. t = S!Merged(four, out)
  BY DEF S!createTrustlineTransaction, S!@@, S!:>
<1>2. \A name \in TrustNames \cap DOMAIN spec : spec[name] \in BOOLEAN
  BY DEF IsTrust
<1>3. authorized = {x \in {16} : Yes(spec, "authorized")}
  BY <1>2 DEF S!TrustSet, Yes, TrustNames
<1>4. /\ rippling \subseteq {17, 18}
      /\ 17 \in rippling <=> Yes(spec, "ripplingDisabled")
      /\ 18 \in rippling <=> No(spec, "ripplingDisabled")
  BY <1>2 DEF S!Choose, S!TrustSet, Yes, No, TrustNames
<1>5. /\ freeze \subseteq {20, 21}
      /\ 20 \in freeze <=> Yes(spec, "frozen")
      /\ 21 \in freeze <=> No(spec, "frozen")
  BY <1>2 DEF S!Choose, S!TrustSet, Yes, No, TrustNames
<1>6. /\ flags \subseteq {16, 17, 18, 20, 21}
      /\ 16 \in flags <=> Yes(spec, "authorized")
      /\ 17 \in flags <=> Yes(spec, "ripplingDisabled")
      /\ 18 \in flags <=> No(spec, "ripplingDisabled")
      /\ 20 \in flags <=> Yes(spec, "frozen")
      /\ 21 \in flags <=> No(spec, "frozen")
  <2> HIDE DEF authorized, rippling, freeze
  <2>1. /\ \A x \in authorized : x = 16 /\ Yes(spec, "authorized")
        /\ Yes(spec, "authorized") => 16 \in authorized
    BY <1>3
  <2>2. rippling \subseteq {17, 18} /\ freeze \subseteq {20, 21}
    BY <1>4, <1>5
  <2>3. \A x : x \in flags <=> x \in authorized \/ x \in rippling \/ x \in freeze
    OBVIOUS
  <2> HIDE DEF flags
  <2>4. \A x \in authorized : x = 16
    BY <2>1
  <2>5. \A x \in rippling : x \in {17, 18}
    BY <2>2
  <2>6. \A x \in freeze : x \in {20, 21}
    BY <2>2
  <2>7. flags \subseteq {16, 17, 18, 20, 21}
    BY <2>3, <2>4, <2>5, <2>6
  <2>8. 16 \in flags <=> Yes(spec, "authorized")
    BY <2>1, <2>3, <2>5, <2>6
  <2>9. /\ 17 \in flags <=> Yes(spec, "ripplingDisabled")
        /\ 18 \in flags <=> No(spec, "ripplingDisabled")
    BY <1>4, <2>3, <2>4, <2>6
  <2>10. /\ 20 \in flags <=> Yes(spec, "frozen")
         /\ 21 \in flags <=> No(spec, "frozen")
    BY <1>5, <2>3, <2>4, <2>5
  <2> QED
    BY <2>7, <2>8, <2>9, <2>10
<1> HIDE DEF flags
<1>7. /\ DOMAIN type = {"TransactionType"} /\ type["TransactionType"] = "TrustSet"
      /\ DOMAIN limit = {"LimitAmount"} /\ limit["LimitAmount"] = spec["limit"]
      /\ DOMAIN marks = {"Flags"} /\ marks["Flags"] = flags
  BY DEF S!OneField
<1>8. /\ DOMAIN into = {f \in {"QualityIn"} : "qualityIn" \in DOMAIN spec}
      /\ "qualityIn" \in DOMAIN spec => into["QualityIn"] = S!Shift(spec["qualityIn"])
  BY DEF S!OneField, S!NoFields, S!convertQuality
<1>9. /\ DOMAIN out = {f \in {"QualityOut"} : "qualityOut" \in DOMAIN spec}
      /\ "qualityOut" \in DOMAIN spec => out["QualityOut"] = S!Shift(spec["qualityOut"])
  BY DEF S!OneField, S!NoFields, S!convertQuality
<1> HIDE DEF type, limit, marks, into, out, t
<1>10. /\ DOMAIN two = {"TransactionType", "LimitAmount"}
       /\ two["TransactionType"] = "TrustSet" /\ two["LimitAmount"] = spec["limit"]
  BY <1>7 DEF S!Merged
<1> HIDE DEF two
<1>11. /\ DOMAIN three = {"TransactionType", "LimitAmount", "Flags"}
       /\ three["TransactionType"] = "TrustSet" /\ three["LimitAmount"] = spec["limit"]
       /\ three["Flags"] = flags
  BY <1>7, <1>10 DEF S!Merged
<1> HIDE DEF three
<1>12. /\ DOMAIN four = {"TransactionType", "LimitAmount", "Flags"} \cup DOMAIN into
       /\ four["TransactionType"] = "TrustSet" /\ four["LimitAmount"] = spec["limit"]
       /\ four["Flags"] = flags
       /\ "qualityIn" \in DOMAIN spec => four["QualityIn"] = S!Shift(spec["qualityIn"])
  BY <1>8, <1>11 DEF S!Merged
<1> HIDE DEF four
<1>13. /\ DOMAIN t = DOMAIN four \cup DOMAIN out
       /\ \A f \in DOMAIN four : t[f] = four[f]
       /\ \A f \in DOMAIN out \ DOMAIN four : t[f] = out[f]
  BY <1>1 DEF S!Merged
<1>14. /\ DOMAIN t = {"TransactionType", "LimitAmount", "Flags"} \cup DOMAIN into \cup DOMAIN out
       /\ t["TransactionType"] = "TrustSet" /\ t["LimitAmount"] = spec["limit"]
       /\ t["Flags"] = flags
       /\ "qualityIn" \in DOMAIN spec => t["QualityIn"] = S!Shift(spec["qualityIn"])
       /\ "qualityOut" \in DOMAIN spec => t["QualityOut"] = S!Shift(spec["qualityOut"])
  BY <1>8, <1>9, <1>12, <1>13
<1>15. DOMAIN t = {"TransactionType", "LimitAmount", "Flags"}
                    \cup {f \in {"QualityIn"} : "qualityIn" \in DOMAIN spec}
                    \cup {f \in {"QualityOut"} : "qualityOut" \in DOMAIN spec}
  BY <1>8, <1>9, <1>14
<1>16. /\ t["Flags"] \subseteq {16, 17, 18, 20, 21}
       /\ 16 \in t["Flags"] <=> Yes(spec, "authorized")
       /\ 17 \in t["Flags"] <=> Yes(spec, "ripplingDisabled")
       /\ 18 \in t["Flags"] <=> No(spec, "ripplingDisabled")
       /\ 20 \in t["Flags"] <=> Yes(spec, "frozen")
       /\ 21 \in t["Flags"] <=> No(spec, "frozen")
  BY <1>6, <1>14
<1> QED
  BY <1>14, <1>15, <1>16 DEF t

(* The line that such a transaction leaves.                                *)
QualityKept(spec, name, old) ==
  IF name \notin DOMAIN spec THEN old
  ELSE IF S!Shift(spec[name]) = S!Shift(1000) THEN 0 ELSE S!Shift(spec[name])
FlagsKept(spec, old) ==
  (old \ ({x \in {"NoRipple"} : No(spec, "ripplingDisabled")}
            \cup {x \in {"Freeze"} : No(spec, "frozen")}))
    \cup {x \in {"Auth"} : Yes(spec, "authorized")}
    \cup {x \in {"NoRipple"} : Yes(spec, "ripplingDisabled")}
    \cup {x \in {"Freeze"} : Yes(spec, "frozen")}

LEMMA TrustApplied ==
  ASSUME NEW spec, IsTrust(spec), NEW l
  PROVE  S!ApplyTrust(l, S!createTrustlineTransaction(spec))
           = [limit |-> spec["limit"],
              qualityIn |-> QualityKept(spec, "qualityIn", l.qualityIn),
              qualityOut |-> QualityKept(spec, "qualityOut", l.qualityOut),
              flags |-> FlagsKept(spec, l.flags)]
<1> DEFINE t == S!createTrustlineTransaction(spec)
           after == S!ApplyTrust(l, t)
<1>1. /\ DOMAIN t = {"TransactionType", "LimitAmount", "Flags"}
                      \cup {f \in {"QualityIn"} : "qualityIn" \in DOMAIN spec}
                      \cup {f \in {"QualityOut"} : "qualityOut" \in DOMAIN spec}
      /\ t["TransactionType"] = "TrustSet" /\ t["LimitAmount"] = spec["limit"]
      /\ "qualityIn" \in DOMAIN spec => t["QualityIn"] = S!Shift(spec["qualityIn"])
      /\ "qualityOut" \in DOMAIN spec => t["QualityOut"] = S!Shift(spec["qualityOut"])
      /\ 16 \in t["Flags"] <=> Yes(spec, "authorized")
      /\ 17 \in t["Flags"] <=> Yes(spec, "ripplingDisabled")
      /\ 18 \in t["Flags"] <=> No(spec, "ripplingDisabled")
      /\ 20 \in t["Flags"] <=> Yes(spec, "frozen")
      /\ 21 \in t["Flags"] <=> No(spec, "frozen")
  BY TrustCreated
<1> HIDE DEF t
<1>2. S!QualityStored(t, "QualityIn", l.qualityIn) = QualityKept(spec, "qualityIn", l.qualityIn)
  BY <1>1 DEF S!QualityStored, QualityKept
<1>3. S!QualityStored(t, "QualityOut", l.qualityOut)
        = QualityKept(spec, "qualityOut", l.qualityOut)
  BY <1>1 DEF S!QualityStored, QualityKept
<1>4. (l.flags \ ((IF 18 \in t["Flags"] THEN {"NoRipple"} ELSE {})
                    \cup IF 21 \in t["Flags"] THEN {"Freeze"} ELSE {}))
        \cup (IF 16 \in t["Flags"] THEN {"Auth"} ELSE {})
        \cup (IF 17 \in t["Flags"] THEN {"NoRipple"} ELSE {})
        \cup (IF 20 \in t["Flags"] THEN {"Freeze"} ELSE {})
        = FlagsKept(spec, l.flags)
  <2>1. /\ (IF 18 \in t["Flags"] THEN {"NoRipple"} ELSE {})
             = {x \in {"NoRipple"} : No(spec, "ripplingDisabled")}
        /\ (IF 21 \in t["Flags"] THEN {"Freeze"} ELSE {})
             = {x \in {"Freeze"} : No(spec, "frozen")}
        /\ (IF 16 \in t["Flags"] THEN {"Auth"} ELSE {})
             = {x \in {"Auth"} : Yes(spec, "authorized")}
        /\ (IF 17 \in t["Flags"] THEN {"NoRipple"} ELSE {})
             = {x \in {"NoRipple"} : Yes(spec, "ripplingDisabled")}
        /\ (IF 20 \in t["Flags"] THEN {"Freeze"} ELSE {})
             = {x \in {"Freeze"} : Yes(spec, "frozen")}
    BY <1>1
  <2> QED
    BY <2>1, Zenon DEF FlagsKept
<1> QED
  BY <1>1, <1>2, <1>3, <1>4, Zenon DEF S!ApplyTrust, t

QualityNames == {"qualityIn", "qualityOut"}

LEMMA TrustGiven ==
  ASSUME NEW spec \in S!Trustlines, NEW qualities \in S!Qualities
  PROVE  LET given == S!Merged(spec, qualities)
         IN /\ IsTrust(given)
            /\ \A name \in QualityNames \cap DOMAIN given : given[name] \in SettingRates
<1>1. PICK limit \in Limits, present \in SUBSET TrustNames :
        \E marks \in [present -> BOOLEAN] : spec = S!Merged(S!OneField("limit", limit), marks)
  BY DEF S!Trustlines, S!@@, S!:>, TrustNames
<1>2. PICK shown \in SUBSET QualityNames : qualities \in [shown -> SettingRates]
  BY DEF S!Qualities, QualityNames
<1>3. /\ DOMAIN spec = {"limit"} \cup present
      /\ \A name \in present : spec[name] \in BOOLEAN
  <2>1. PICK marks \in [present -> BOOLEAN] : spec = S!Merged(S!OneField("limit", limit), marks)
    BY <1>1
  <2> QED
    BY <2>1 DEF S!Merged, S!OneField, TrustNames
<1> DEFINE given == S!Merged(spec, qualities)
<1>4. /\ DOMAIN given = {"limit"} \cup present \cup shown
      /\ \A name \in present : given[name] = spec[name]
      /\ \A name \in shown \ ({"limit"} \cup present) : given[name] = qualities[name]
  BY <1>2, <1>3 DEF S!Merged
<1> HIDE DEF given
<1>5. TrustNames \cap ({"limit"} \cup shown) = {} /\ QualityNames \cap ({"limit"} \cup present) = {}
  BY DEF TrustNames, QualityNames
<1>6. IsTrust(given)
  BY <1>3, <1>4, <1>5 DEF IsTrust
<1>7. \A name \in QualityNames \cap DOMAIN given : given[name] \in SettingRates
  BY <1>2, <1>4, <1>5
<1> QED
  BY <1>6, <1>7 DEF given

(* ---- What is kept of a line: a quality of 1 is kept as none. ----------- *)
IsKeptQuality(quality) ==
  quality = 0 \/ \E rate \in SettingRates \ {1000} : quality = S!Shift(rate)
IsLine(l) ==
  /\ l = [limit |-> l.limit, qualityIn |-> l.qualityIn, qualityOut |-> l.qualityOut,
          flags |-> l.flags]
  /\ IsKeptQuality(l.qualityIn) /\ IsKeptQuality(l.qualityOut)
  /\ l.flags \subseteq {"NoRipple", "Freeze", "Auth"}
LineInv == IsLine(line)

LEMMA ShiftedRates ==
  \A rate \in SettingRates :
    /\ S!Shift(rate) = S!Shift(1000) <=> rate = 1000
    /\ S!Shift(rate) # 0 /\ S!Unshift(S!Shift(rate)) = rate
<1>1. ASSUME NEW rate \in SettingRates
      PROVE  /\ S!Shift(rate) = S!Shift(1000) <=> rate = 1000
             /\ S!Shift(rate) # 0 /\ S!Unshift(S!Shift(rate)) = rate
  <2>1. rate \in Nat \ {0}
    BY SettingsAssumption
  <2> QED
    BY <2>1 DEF S!Shift, S!Unshift
<1> QED
  BY <1>1

LEMMA LineStep ==
  ASSUME LineInv, S!SetTrust
  PROVE  LineInv'
<1>1. PICK given : /\ IsTrust(given)
                   /\ \A name \in QualityNames \cap DOMAIN given : given[name] \in SettingRates
                   /\ line' = S!ApplyTrust(line, S!createTrustlineTransaction(given))
  <2>1. PICK spec \in S!Trustlines, qualities \in S!Qualities :
          line' = S!ApplyTrust(line, S!createTrustlineTransaction(S!Merged(spec, qualities)))
    BY DEF S!SetTrust, S!@@
  <2> QED
    BY <2>1, TrustGiven
<1>2. line' = [limit |-> given["limit"],
               qualityIn |-> QualityKept(given, "qualityIn", line.qualityIn),
               qualityOut |-> QualityKept(given, "qualityOut", line.qualityOut),
               flags |-> FlagsKept(given, line.flags)]
  BY <1>1, TrustApplied
<1>3. ASSUME NEW name \in QualityNames, NEW old, IsKeptQuality(old)
      PROVE  IsKeptQuality(QualityKept(given, name, old))
  <2>1. CASE name \notin DOMAIN given
    BY <1>3, <2>1 DEF QualityKept
  <2>2. CASE name \in DOMAIN given /\ given[name] = 1000
    BY <2>2 DEF QualityKept, IsKeptQuality
  <2>3. CASE name \in DOMAIN given /\ given[name] # 1000
    <3>1. given[name] \in SettingRates \ {1000}
      BY <1>1, <2>3
    <3>2. QualityKept(given, name, old) = S!Shift(given[name])
      BY <2>3, <3>1, ShiftedRates DEF QualityKept
    <3> QED
      BY <3>1, <3>2 DEF IsKeptQuality
  <2> QED
    BY <2>1, <2>2, <2>3
<1>4. FlagsKept(given, line.flags) \subseteq {"NoRipple", "Freeze", "Auth"}
  BY DEF FlagsKept, LineInv, IsLine
<1>5. /\ IsKeptQuality(QualityKept(given, "qualityIn", line.qualityIn))
      /\ IsKeptQuality(QualityKept(given, "qualityOut", line.qualityOut))
  BY <1>3 DEF QualityNames, LineInv, IsLine
<1> QED
  BY <1>2, <1>4, <1>5 DEF LineInv, IsLine

LEMMA LineStart ==
  ASSUME S!Init
  PROVE  LineInv
BY DEF S!Init, S!NoLine, LineInv, IsLine, IsKeptQuality

(* What a read says of a line.                                             *)
LEMMA LineParsed ==
  ASSUME NEW l, IsLine(l)
  PROVE  LET spec == S!parseAccountTrustline(l)
         IN /\ DOMAIN spec = {"limit", "currency"}
                 \cup {n \in {"qualityIn"} : l.qualityIn # 0}
                 \cup {n \in {"qualityOut"} : l.qualityOut # 0}
                 \cup {n \in {"ripplingDisabled"} : "NoRipple" \in l.flags}
                 \cup {n \in {"frozen"} : "Freeze" \in l.flags}
                 \cup {n \in {"authorized"} : "Auth" \in l.flags}
            /\ spec["limit"] = l.limit /\ spec["currency"] = "USD"
            /\ l.qualityIn # 0 => spec["qualityIn"] = S!Unshift(l.qualityIn)
            /\ l.qualityOut # 0 => spec["qualityOut"] = S!Unshift(l.qualityOut)
            /\ \A n \in TrustNames \cap DOMAIN spec : spec[n] = TRUE
<1> DEFINE limit == S!OneField("limit", l.limit)
           currency == S!OneField("currency", "USD")
           into == IF l.qualityIn = 0 THEN S!NoFields
                   ELSE S!OneField("qualityIn", S!parseQuality(l.qualityIn))
           out == IF l.qualityOut = 0 THEN S!NoFields
                  ELSE S!OneField("qualityOut", S!parseQuality(l.qualityOut))
           rippling == IF "NoRipple" \in l.flags THEN S!OneField("ripplingDisabled", TRUE)
                       ELSE S!NoFields
           frozen == IF "Freeze" \in l.flags THEN S!OneField("frozen", TRUE) ELSE S!NoFields
           authorized == IF "Auth" \in l.flags THEN S!OneField("authorized", TRUE)
                         ELSE S!NoFields
           two == S!Merged(limit, currency)
           three == S!Merged(two, into)
           four == S!Merged(three, out)
           five == S!Merged(four, rippling)
           six == S!Merged(five, frozen)
           spec == S!parseAccountTrustline(l)
           Names(given, name, holds) == DOMAIN given = {n \in {name} : holds}
<1>1. spec = S!Merged(six, authorized)
  BY DEF S!parseAccountTrustline, S!@@, S!:>
<1>2. /\ DOMAIN limit = {"limit"} /\ limit["limit"] = l.limit
      /\ DOMAIN currency = {"currency"} /\ currency["currency"] = "USD"
  BY DEF S!OneField
<1>3. /\ Names(into, "qualityIn", l.qualityIn # 0)
      /\ l.qualityIn # 0 => into["qualityIn"] = S!Unshift(l.qualityIn)
      /\ Names(out, "qualityOut", l.qualityOut # 0)
      /\ l.qualityOut # 0 => out["qualityOut"] = S!Unshift(l.qualityOut)
  BY DEF S!OneField, S!NoFields, S!parseQuality
<1>4. /\ Names(rippling, "ripplingDisabled", "NoRipple" \in l.flags)
      /\ \A n \in DOMAIN rippling : rippling[n] = TRUE
      /\ Names(frozen, "frozen", "Freeze" \in l.flags)
      /\ \A n \in DOMAIN frozen : frozen[n] = TRUE
      /\ Names(authorized, "authorized", "Auth" \in l.flags)
      /\ \A n \in DOMAIN authorized : authorized[n] = TRUE
  BY DEF S!OneField, S!NoFields
<1> HIDE DEF limit, currency, into, out, rippling, frozen, authorized, spec
<1>5. /\ DOMAIN two = {"limit", "currency"}
      /\ two["limit"] = l.limit /\ two["currency"] = "USD"
  BY <1>2 DEF S!Merged
<1> HIDE DEF two
<1>6. /\ DOMAIN three = {"limit", "currency"} \cup DOMAIN into
      /\ three["limit"] = l.limit /\ three["currency"] = "USD"
      /\ l.qualityIn # 0 => three["qualityIn"] = S!Unshift(l.qualityIn)
  BY <1>3, <1>5 DEF S!Merged
<1> HIDE DEF three
<1>7. /\ DOMAIN four = {"limit", "currency"} \cup DOMAIN into \cup DOMAIN out
      /\ four["limit"] = l.limit /\ four["currency"] = "USD"
      /\ l.qualityIn # 0 => four["qualityIn"] = S!Unshift(l.qualityIn)
      /\ l.qualityOut # 0 => four["qualityOut"] = S!Unshift(l.qualityOut)
  BY <1>3, <1>6 DEF S!Merged
<1> HIDE DEF four
<1>8. DOMAIN four \cap TrustNames = {}
  BY <1>3, <1>7 DEF TrustNames
<1>9. /\ DOMAIN five = DOMAIN four \cup DOMAIN rippling
      /\ \A n \in DOMAIN four : five[n] = four[n]
      /\ \A n \in DOMAIN rippling \ DOMAIN four : five[n] = rippling[n]
  BY DEF S!Merged
<1>10. /\ DOMAIN six = DOMAIN five \cup DOMAIN frozen
       /\ \A n \in DOMAIN five : six[n] = five[n]
       /\ \A n \in DOMAIN frozen \ DOMAIN five : six[n] = frozen[n]
  <2> HIDE DEF five
  <2> QED
    BY DEF S!Merged
<1>11. /\ DOMAIN spec = DOMAIN six \cup DOMAIN authorized
       /\ \A n \in DOMAIN six : spec[n] = six[n]
       /\ \A n \in DOMAIN authorized \ DOMAIN six : spec[n] = authorized[n]
  <2> HIDE DEF six
  <2> QED
    BY <1>1 DEF S!Merged
<1> HIDE DEF five, six
<1>12. \A n \in DOMAIN four : spec[n] = four[n]
  BY <1>9, <1>10, <1>11
<1>13. \A n \in DOMAIN spec \ DOMAIN four : spec[n] = TRUE
  BY <1>4, <1>9, <1>10, <1>11
<1>14. DOMAIN spec = {"limit", "currency"} \cup DOMAIN into \cup DOMAIN out
                       \cup DOMAIN rippling \cup DOMAIN frozen \cup DOMAIN authorized
  BY <1>7, <1>9, <1>10, <1>11
<1>15. \A n \in TrustNames \cap DOMAIN spec : spec[n] = TRUE
  BY <1>8, <1>13
<1>16. /\ spec["limit"] = l.limit /\ spec["currency"] = "USD"
       /\ l.qualityIn # 0 => spec["qualityIn"] = S!Unshift(l.qualityIn)
       /\ l.qualityOut # 0 => spec["qualityOut"] = S!Unshift(l.qualityOut)
  BY <1>3, <1>7, <1>12
<1> QED
  BY <1>3, <1>4, <1>14, <1>15, <1>16 DEF spec

LEMMA LineRead == LineInv => S!LineReadBack
<1> SUFFICES ASSUME LineInv
             PROVE  S!LineReadBack
  OBVIOUS
<1> DEFINE spec == S!parseAccountTrustline(line)
<1>1. IsLine(line)
  BY DEF LineInv
<1>2. /\ DOMAIN spec = {"limit", "currency"}
           \cup {n \in {"qualityIn"} : line.qualityIn # 0}
           \cup {n \in {"qualityOut"} : line.qualityOut # 0}
           \cup {n \in {"ripplingDisabled"} : "NoRipple" \in line.flags}
           \cup {n \in {"frozen"} : "Freeze" \in line.flags}
           \cup {n \in {"authorized"} : "Auth" \in line.flags}
      /\ spec["limit"] = line.limit /\ spec["currency"] = "USD"
      /\ line.qualityIn # 0 => spec["qualityIn"] = S!Unshift(line.qualityIn)
      /\ line.qualityOut # 0 => spec["qualityOut"] = S!Unshift(line.qualityOut)
      /\ \A n \in TrustNames \cap DOMAIN spec : spec[n] = TRUE
  BY <1>1, LineParsed
<1> HIDE DEF spec
<1>3. IsTrust(spec)
  BY <1>2 DEF IsTrust
<1>4. S!ApplyTrust(S!NoLine, S!createTrustlineTransaction(spec))
        = [limit |-> spec["limit"],
           qualityIn |-> QualityKept(spec, "qualityIn", S!NoLine.qualityIn),
           qualityOut |-> QualityKept(spec, "qualityOut", S!NoLine.qualityOut),
           flags |-> FlagsKept(spec, S!NoLine.flags)]
  BY <1>3, TrustApplied
<1>5. ASSUME NEW quality, IsKeptQuality(quality), quality # 0
      PROVE  /\ S!Shift(S!Unshift(quality)) = quality
             /\ S!Shift(S!Unshift(quality)) # S!Shift(1000)
  <2>1. PICK rate \in SettingRates \ {1000} : quality = S!Shift(rate)
    BY <1>5 DEF IsKeptQuality
  <2>2. S!Unshift(quality) = rate
    BY <2>1, ShiftedRates
  <2> QED
    BY <2>1, <2>2, ShiftedRates
<1>6. S!NoLine.qualityIn = 0 /\ S!NoLine.qualityOut = 0 /\ S!NoLine.flags = {}
  BY DEF S!NoLine
<1>7. QualityKept(spec, "qualityIn", 0) = line.qualityIn
  <2>1. CASE line.qualityIn = 0
    BY <1>2, <2>1 DEF QualityKept
  <2>2. CASE line.qualityIn # 0
    <3>1. "qualityIn" \in DOMAIN spec
      BY <1>2, <2>2
    <3> QED
      BY <1>1, <1>2, <1>5, <2>2, <3>1 DEF QualityKept, IsLine
  <2> QED
    BY <2>1, <2>2
<1>8. QualityKept(spec, "qualityOut", 0) = line.qualityOut
  <2>1. CASE line.qualityOut = 0
    BY <1>2, <2>1 DEF QualityKept
  <2>2. CASE line.qualityOut # 0
    <3>1. "qualityOut" \in DOMAIN spec
      BY <1>2, <2>2
    <3> QED
      BY <1>1, <1>2, <1>5, <2>2, <3>1 DEF QualityKept, IsLine
  <2> QED
    BY <2>1, <2>2
<1>9. FlagsKept(spec, {}) = line.flags
  <2>1. /\ Yes(spec, "authorized") <=> "Auth" \in line.flags
        /\ Yes(spec, "ripplingDisabled") <=> "NoRipple" \in line.flags
        /\ Yes(spec, "frozen") <=> "Freeze" \in line.flags
    BY <1>2 DEF Yes, TrustNames
  <2>2. line.flags \subseteq {"NoRipple", "Freeze", "Auth"}
    BY <1>1 DEF IsLine
  <2> QED
    BY <2>1, <2>2 DEF FlagsKept
<1>10. S!ApplyTrust(S!NoLine, S!createTrustlineTransaction(spec)) = line
  BY <1>1, <1>2, <1>4, <1>6, <1>7, <1>8, <1>9 DEF IsLine
<1>11. ASSUME NEW currency \in {S!NULL, "USD"}
       PROVE  S!getTrustlines(line, currency) = {spec_ \in {spec} : line # S!NoLine}
  BY <1>2 DEF S!getTrustlines, S!currencyFilter, spec
<1>12. ASSUME NEW currency \in {S!NULL, "USD"}
       PROVE  {S!ApplyTrust(S!NoLine, S!createTrustlineTransaction(spec_)) :
                 spec_ \in S!getTrustlines(line, currency)} = {line} \ {S!NoLine}
  <2>1. CASE line = S!NoLine
    BY <1>11, <2>1
  <2>2. CASE line # S!NoLine
    <3>1. S!getTrustlines(line, currency) = {spec}
      BY <1>11, <2>2
    <3> QED
      BY <1>10, <2>2, <3>1
  <2> QED
    BY <2>1, <2>2
<1> QED
  BY <1>12 DEF S!LineReadBack

LEMMA SettingsStep == RootInv /\ [Next]_vars => RootInv'
<1> SUFFICES ASSUME RootInv, [Next]_vars PROVE RootInv'
  OBVIOUS
<1>1. CASE S!SetSetting
  BY <1>1, SettingStep
<1>2. CASE S!PasswordSpent
  BY <1>2, PasswordStep
<1>3. CASE root' = root /\ asked' = asked
  BY <1>3 DEF RootInv
<1>4. \/ S!SetSetting \/ S!PasswordSpent
      \/ root' = root /\ asked' = asked
  BY DEF Next, Pay, Trade, Set, Hold, Claim, vars, settingVars, S!SetTrust
<1> QED
  BY <1>1, <1>2, <1>3, <1>4

LEMMA TrustStep == LineInv /\ [Next]_vars => LineInv'
<1> SUFFICES ASSUME LineInv, [Next]_vars PROVE LineInv'
  OBVIOUS
<1>1. CASE S!SetTrust
  BY <1>1, LineStep
<1>2. CASE line' = line
  BY <1>2 DEF LineInv
<1>3. S!SetTrust \/ line' = line
  BY DEF Next, Pay, Trade, Set, Hold, Claim, vars, settingVars, S!SetSetting, S!PasswordSpent
<1> QED
  BY <1>1, <1>2, <1>3

(* What a read gives of an order, of the settings, of a trust line and of  *)
(* a payment channel is what their transactions asked for, through every   *)
(* conversion of prepare, of rippled and of the parsers, and whatever the  *)
(* order of the transactions: the offers of a ledger are those of their    *)
(* makers, the account root has the setting that was given last of each    *)
(* kind, and the trust line and the channel what was last said of them.    *)
THEOREM ReadsGiveWhatWasAsked == Spec => []ReadsBack
<1> DEFINE ReadInv == OrderInv /\ RootInv /\ LineInv /\ ChannelInv
<1>1. Init => ReadInv
  <2>1. Init => S!Init
    BY DEF Init
  <2>2. Init => OrderInv
    BY OrdersStart DEF Init
  <2> QED
    BY <2>1, <2>2, RootStart, LineStart, ChannelStart
<1>2. ReadInv /\ [Next]_vars => ReadInv'
  BY OrderStep, SettingsStep, TrustStep, ChannelStep
<1>3. ReadInv => ReadsBack
  BY OrdersReadBack, SettingsRead, LineRead, ReadOfChannel DEF ReadsBack, S!ReadsBack
<1> QED
  BY <1>1, <1>2, <1>3, PTL DEF Spec

(* ---------------------------- Same outcomes ---------------------------- *)

(* The transaction of a trust line that parseTrustline's specification     *)
(* makes says the same of the line, and leaves the same.                   *)
LEMMA TrustParsed ==
  ASSUME NEW given, IsTrust(given)
  PROVE  LET spec == S!parseTrustline(S!createTrustlineTransaction(given))
         IN /\ IsTrust(spec) /\ spec["limit"] = given["limit"]
            /\ "qualityIn" \in DOMAIN spec <=> "qualityIn" \in DOMAIN given
            /\ "qualityOut" \in DOMAIN spec <=> "qualityOut" \in DOMAIN given
            /\ "qualityIn" \in DOMAIN given =>
                 spec["qualityIn"] = S!Unshift(S!Shift(given["qualityIn"]))
            /\ "qualityOut" \in DOMAIN given =>
                 spec["qualityOut"] = S!Unshift(S!Shift(given["qualityOut"]))
            /\ Yes(spec, "authorized") <=> Yes(given, "authorized")
            /\ Yes(spec, "ripplingDisabled") <=> Yes(given, "ripplingDisabled")
            /\ No(spec, "ripplingDisabled") <=> No(given, "ripplingDisabled")
            /\ Yes(spec, "frozen") <=> Yes(given, "frozen")
            /\ No(spec, "frozen") <=> No(given, "frozen")
<1> DEFINE t == S!createTrustlineTransaction(given)
           flags == t["Flags"]
           limit == S!OneField("limit", t["LimitAmount"])
           into == IF "QualityIn" \in DOMAIN t
                   THEN S!OneField("qualityIn", S!parseQuality(t["QualityIn"])) ELSE S!NoFields
           out == IF "QualityOut" \in DOMAIN t
                  THEN S!OneField("qualityOut", S!parseQuality(t["QualityOut"])) ELSE S!NoFields
           rippling == S!parseFlag("ripplingDisabled", flags, S!TrustSet.SetNoRipple,
                                   S!TrustSet.ClearNoRipple)
           frozen == S!parseFlag("frozen", flags, S!TrustSet.SetFreeze, S!TrustSet.ClearFreeze)
           authorized == S!parseFlag("authorized", flags, S!TrustSet.SetAuth, 0)
           two == S!Merged(limit, into)
           three == S!Merged(two, out)
           four == S!Merged(three, rippling)
           five == S!Merged(four, frozen)
           spec == S!parseTrustline(t)
           ReadAs(part, name, true, false) ==
             /\ DOMAIN part = {n \in {name} : true \/ false}
             /\ true => part[name] = TRUE
             /\ ~true /\ false => part[name] = FALSE
<1>1. spec = S!Merged(five, authorized)
  BY DEF S!parseTrustline, S!@@, S!:>
<1>2. /\ DOMAIN t = {"TransactionType", "LimitAmount", "Flags"}
                      \cup {f \in {"QualityIn"} : "qualityIn" \in DOMAIN given}
                      \cup {f \in {"QualityOut"} : "qualityOut" \in DOMAIN given}
      /\ t["LimitAmount"] = given["limit"]
      /\ "qualityIn" \in DOMAIN given => t["QualityIn"] = S!Shift(given["qualityIn"])
      /\ "qualityOut" \in DOMAIN given => t["QualityOut"] = S!Shift(given["qualityOut"])
      /\ flags \subseteq {16, 17, 18, 20, 21}
      /\ 16 \in flags <=> Yes(given, "authorized")
      /\ 17 \in flags <=> Yes(given, "ripplingDisabled")
      /\ 18 \in flags <=> No(given, "ripplingDisabled")
      /\ 20 \in flags <=> Yes(given, "frozen")
      /\ 21 \in flags <=> No(given, "frozen")
  BY TrustCreated
<1> HIDE DEF t
<1>3. DOMAIN limit = {"limit"} /\ limit["limit"] = given["limit"]
  BY <1>2 DEF S!OneField
<1>4. /\ DOMAIN into = {n \in {"qualityIn"} : "qualityIn" \in DOMAIN given}
      /\ "qualityIn" \in DOMAIN given =>
           into["qualityIn"] = S!Unshift(S!Shift(given["qualityIn"]))
      /\ DOMAIN out = {n \in {"qualityOut"} : "qualityOut" \in DOMAIN given}
      /\ "qualityOut" \in DOMAIN given =>
           out["qualityOut"] = S!Unshift(S!Shift(given["qualityOut"]))
  BY <1>2 DEF S!OneField, S!NoFields, S!parseQuality
<1>5. /\ ReadAs(rippling, "ripplingDisabled", 17 \in flags, 18 \in flags)
      /\ ReadAs(frozen, "frozen", 20 \in flags, 21 \in flags)
      /\ ReadAs(authorized, "authorized", 16 \in flags, FALSE)
  <2>1. 0 \notin flags
    BY <1>2
  <2>2. /\ S!TrustSet.SetNoRipple = 17 /\ S!TrustSet.ClearNoRipple = 18
        /\ S!TrustSet.SetFreeze = 20 /\ S!TrustSet.ClearFreeze = 21 /\ S!TrustSet.SetAuth = 16
    BY DEF S!TrustSet
  <2> HIDE DEF flags
  <2> QED
    BY <2>1, <2>2 DEF S!parseFlag, S!OneField, S!NoFields, S!:>
<1> HIDE DEF limit, into, out, rippling, frozen, authorized, spec
<1>6. /\ DOMAIN two = {"limit"} \cup DOMAIN into /\ two["limit"] = given["limit"]
      /\ "qualityIn" \in DOMAIN given =>
           two["qualityIn"] = S!Unshift(S!Shift(given["qualityIn"]))
  BY <1>3, <1>4 DEF S!Merged
<1> HIDE DEF two
<1>7. /\ DOMAIN three = {"limit"} \cup DOMAIN into \cup DOMAIN out
      /\ three["limit"] = given["limit"]
      /\ "qualityIn" \in DOMAIN given =>
           three["qualityIn"] = S!Unshift(S!Shift(given["qualityIn"]))
      /\ "qualityOut" \in DOMAIN given =>
           three["qualityOut"] = S!Unshift(S!Shift(given["qualityOut"]))
  BY <1>4, <1>6 DEF S!Merged
<1> HIDE DEF three
<1>8. /\ DOMAIN four = DOMAIN three \cup DOMAIN rippling
      /\ \A n \in DOMAIN three : four[n] = three[n]
      /\ \A n \in DOMAIN rippling \ DOMAIN three : four[n] = rippling[n]
  BY DEF S!Merged
<1>9. /\ DOMAIN five = DOMAIN four \cup DOMAIN frozen
      /\ \A n \in DOMAIN four : five[n] = four[n]
      /\ \A n \in DOMAIN frozen \ DOMAIN four : five[n] = frozen[n]
  <2> HIDE DEF four
  <2> QED
    BY DEF S!Merged
<1>10. /\ DOMAIN spec = DOMAIN five \cup DOMAIN authorized
       /\ \A n \in DOMAIN five : spec[n] = five[n]
       /\ \A n \in DOMAIN authorized \ DOMAIN five : spec[n] = authorized[n]
  <2> HIDE DEF five
  <2> QED
    BY <1>1 DEF S!Merged
<1> HIDE DEF four, five
<1>11. /\ DOMAIN rippling \subseteq {"ripplingDisabled"} /\ DOMAIN frozen \subseteq {"frozen"}
       /\ DOMAIN authorized \subseteq {"authorized"}
       /\ DOMAIN three \subseteq {"limit", "qualityIn", "qualityOut"}
  BY <1>4, <1>5, <1>7
<1>12. /\ \A n \in DOMAIN three : n \in DOMAIN spec /\ spec[n] = three[n]
       /\ \A n \in DOMAIN rippling : n \in DOMAIN spec /\ spec[n] = rippling[n]
       /\ \A n \in DOMAIN frozen : n \in DOMAIN spec /\ spec[n] = frozen[n]
       /\ \A n \in DOMAIN authorized : n \in DOMAIN spec /\ spec[n] = authorized[n]
  BY <1>8, <1>9, <1>10, <1>11
<1>13. DOMAIN spec = DOMAIN three \cup DOMAIN rippling \cup DOMAIN frozen \cup DOMAIN authorized
  BY <1>8, <1>9, <1>10
<1>14. /\ "ripplingDisabled" \in DOMAIN spec <=> "ripplingDisabled" \in DOMAIN rippling
       /\ "frozen" \in DOMAIN spec <=> "frozen" \in DOMAIN frozen
       /\ "authorized" \in DOMAIN spec <=> "authorized" \in DOMAIN authorized
       /\ "qualityIn" \in DOMAIN spec <=> "qualityIn" \in DOMAIN given
       /\ "qualityOut" \in DOMAIN spec <=> "qualityOut" \in DOMAIN given
  BY <1>4, <1>7, <1>11, <1>13
<1>15. /\ ReadAs(rippling, "ripplingDisabled", Yes(given, "ripplingDisabled"),
               No(given, "ripplingDisabled"))
       /\ ReadAs(frozen, "frozen", Yes(given, "frozen"), No(given, "frozen"))
       /\ ReadAs(authorized, "authorized", Yes(given, "authorized"), FALSE)
  BY <1>2, <1>5
<1>16. /\ ~(Yes(given, "ripplingDisabled") /\ No(given, "ripplingDisabled"))
       /\ ~(Yes(given, "frozen") /\ No(given, "frozen"))
  BY DEF Yes, No
<1>17. /\ Yes(spec, "authorized") <=> Yes(given, "authorized")
       /\ "authorized" \in DOMAIN spec => spec["authorized"] = TRUE
  BY <1>12, <1>14, <1>15 DEF Yes
<1>18. /\ Yes(spec, "ripplingDisabled") <=> Yes(given, "ripplingDisabled")
       /\ No(spec, "ripplingDisabled") <=> No(given, "ripplingDisabled")
       /\ "ripplingDisabled" \in DOMAIN spec => spec["ripplingDisabled"] \in BOOLEAN
  <2> HIDE DEF flags
  <2>1. CASE Yes(given, "ripplingDisabled")
    BY <1>12, <1>14, <1>15, <1>16, <2>1 DEF Yes, No
  <2>2. CASE No(given, "ripplingDisabled")
    BY <1>12, <1>14, <1>15, <1>16, <2>2 DEF Yes, No
  <2>3. CASE ~Yes(given, "ripplingDisabled") /\ ~No(given, "ripplingDisabled")
    <3>1. "ripplingDisabled" \notin DOMAIN spec
      BY <1>14, <1>15, <2>3
    <3>2. ~Yes(spec, "ripplingDisabled") /\ ~No(spec, "ripplingDisabled")
      BY <3>1 DEF Yes, No
    <3> QED
      BY <2>3, <3>1, <3>2
  <2> QED
    BY <2>1, <2>2, <2>3
<1>19. /\ Yes(spec, "frozen") <=> Yes(given, "frozen")
       /\ No(spec, "frozen") <=> No(given, "frozen")
       /\ "frozen" \in DOMAIN spec => spec["frozen"] \in BOOLEAN
  <2> HIDE DEF flags
  <2>1. CASE Yes(given, "frozen")
    BY <1>12, <1>14, <1>15, <1>16, <2>1 DEF Yes, No
  <2>2. CASE No(given, "frozen")
    BY <1>12, <1>14, <1>15, <1>16, <2>2 DEF Yes, No
  <2>3. CASE ~Yes(given, "frozen") /\ ~No(given, "frozen")
    <3>1. "frozen" \notin DOMAIN spec
      BY <1>14, <1>15, <2>3
    <3>2. ~Yes(spec, "frozen") /\ ~No(spec, "frozen")
      BY <3>1 DEF Yes, No
    <3> QED
      BY <2>3, <3>1, <3>2
  <2> QED
    BY <2>1, <2>2, <2>3
<1>20. "limit" \in DOMAIN spec /\ spec["limit"] = given["limit"]
  BY <1>7, <1>12
<1>21. /\ "qualityIn" \in DOMAIN given =>
            spec["qualityIn"] = S!Unshift(S!Shift(given["qualityIn"]))
       /\ "qualityOut" \in DOMAIN given =>
            spec["qualityOut"] = S!Unshift(S!Shift(given["qualityOut"]))
  BY <1>4, <1>7, <1>12
<1>22. IsTrust(spec)
  BY <1>17, <1>18, <1>19, <1>20 DEF IsTrust, TrustNames
<1> QED
  BY <1>14, <1>17, <1>18, <1>19, <1>20, <1>21, <1>22 DEF spec, t

LEMMA TrustAgain == TrustRecreated
<1> SUFFICES ASSUME NEW asking \in S!Trustlines, NEW qualities \in S!Qualities
             PROVE  LET t == S!createTrustlineTransaction(S!Merged(asking, qualities))
                        again == PreparedOf(None, parseTransaction(t, None, None))
                    IN S!ApplyTrust(line, again) = S!ApplyTrust(line, t)
  BY DEF TrustRecreated, @@, Merged, S!Merged
<1> DEFINE given == S!Merged(asking, qualities)
           t == S!createTrustlineTransaction(given)
           spec == S!parseTrustline(t)
           again == S!createTrustlineTransaction(spec)
<1>1. /\ IsTrust(given)
      /\ \A name \in QualityNames \cap DOMAIN given : given[name] \in SettingRates
  BY TrustGiven
<1> HIDE DEF given
<1>2. t["TransactionType"] = "TrustSet"
  BY <1>1, TrustCreated
<1>3. /\ IsTrust(spec) /\ spec["limit"] = given["limit"]
      /\ "qualityIn" \in DOMAIN spec <=> "qualityIn" \in DOMAIN given
      /\ "qualityOut" \in DOMAIN spec <=> "qualityOut" \in DOMAIN given
      /\ "qualityIn" \in DOMAIN given =>
           spec["qualityIn"] = S!Unshift(S!Shift(given["qualityIn"]))
      /\ "qualityOut" \in DOMAIN given =>
           spec["qualityOut"] = S!Unshift(S!Shift(given["qualityOut"]))
      /\ Yes(spec, "authorized") <=> Yes(given, "authorized")
      /\ Yes(spec, "ripplingDisabled") <=> Yes(given, "ripplingDisabled")
      /\ No(spec, "ripplingDisabled") <=> No(given, "ripplingDisabled")
      /\ Yes(spec, "frozen") <=> Yes(given, "frozen")
      /\ No(spec, "frozen") <=> No(given, "frozen")
  BY <1>1, TrustParsed
<1> HIDE DEF t, spec
<1>4. PreparedOf(None, parseTransaction(t, None, None)) = again
  <2>1. parseTransaction(t, None, None) = [type |-> "trustline", specification |-> spec]
    BY <1>2 DEF parseTransaction, parseTransactionType, spec
  <2> QED
    BY <2>1 DEF PreparedOf
<1>5. \A name \in QualityNames : \A old :
        QualityKept(spec, name, old) = QualityKept(given, name, old)
  <2>1. ASSUME NEW name \in QualityNames, name \in DOMAIN given
        PROVE  spec[name] = given[name]
    <3>1. given[name] \in SettingRates
      BY <1>1, <2>1
    <3>2. S!Unshift(S!Shift(given[name])) = given[name]
      BY <3>1, ShiftedRates
    <3> QED
      BY <1>3, <2>1, <3>2 DEF QualityNames
  <2>2. \A name \in QualityNames : name \in DOMAIN spec <=> name \in DOMAIN given
    BY <1>3 DEF QualityNames
  <2> QED
    BY <2>1, <2>2 DEF QualityKept
<1>6. FlagsKept(spec, line.flags) = FlagsKept(given, line.flags)
  BY <1>3 DEF FlagsKept
<1>7. S!ApplyTrust(line, again) = S!ApplyTrust(line, t)
  <2>1. S!ApplyTrust(line, again)
          = [limit |-> spec["limit"],
             qualityIn |-> QualityKept(spec, "qualityIn", line.qualityIn),
             qualityOut |-> QualityKept(spec, "qualityOut", line.qualityOut),
             flags |-> FlagsKept(spec, line.flags)]
    BY <1>3, TrustApplied
  <2>2. S!ApplyTrust(line, t)
          = [limit |-> given["limit"],
             qualityIn |-> QualityKept(given, "qualityIn", line.qualityIn),
             qualityOut |-> QualityKept(given, "qualityOut", line.qualityOut),
             flags |-> FlagsKept(given, line.flags)]
    BY <1>1, TrustApplied DEF t
  <2> QED
    BY <1>3, <1>5, <1>6, <2>1, <2>2 DEF QualityNames
<1> QED
  BY <1>4, <1>7 DEF t, given

(* What parse and prepare make of a transaction of settings, by how many   *)
(* keys its specification has.                                             *)
LEMMA SettingsPrepared ==
  ASSUME NEW t, NEW before, NEW after,
         t["TransactionType"] \in {"AccountSet", "SetRegularKey", "SignerListSet"}
  PROVE  LET spec == S!parseSettings(t, before, after)
             again == PreparedOf(None, parseTransaction(t, before, after))
         IN /\ DOMAIN spec = {} => again = None
            /\ \A name : DOMAIN spec = {name} =>
                 again = S!createSettingsTransaction(name, spec[name])
<1> DEFINE spec == S!parseSettings(t, before, after)
           again == PreparedOf(None, parseTransaction(t, before, after))
<1>1. parseTransactionType(t["TransactionType"]) = "settings"
  BY DEF parseTransactionType
<1>2. parseTransaction(t, before, after) = [type |-> "settings", specification |-> spec]
  BY <1>1 DEF parseTransaction
<1> HIDE DEF spec
<1>3. again = IF Cardinality(DOMAIN spec) = 1
              THEN LET name == CHOOSE n \in DOMAIN spec : TRUE
                   IN S!createSettingsTransaction(name, spec[name])
              ELSE None
  BY <1>2 DEF PreparedOf
<1>4. DOMAIN spec = {} => again = None
  <2>1. Cardinality({}) = 0
    BY FS_EmptySet
  <2> QED
    BY <1>3, <2>1
<1>5. ASSUME NEW name, DOMAIN spec = {name}
      PROVE  again = S!createSettingsTransaction(name, spec[name])
  <2>1. Cardinality({name}) = 1
    BY FS_Singleton
  <2>2. (CHOOSE n \in {name} : TRUE) = name
    OBVIOUS
  <2> QED
    BY <1>3, <1>5, <2>1, <2>2
<1> QED
  BY <1>4, <1>5 DEF spec

LEMMA RootsEqual ==
  ASSUME NEW after, NEW r, IsRoot(after), IsRoot(r), \A f \in RootFields : after[f] = r[f]
  PROVE  after = r
BY DEF IsRoot

(* Neither the flags nor the tracking tell of a root that has changed in   *)
(* other fields.                                                           *)
LEMMA FlagsUntold ==
  ASSUME NEW before, NEW after, before["Flags"] = after["Flags"],
         before["AccountTxnID"] = after["AccountTxnID"]
  PROVE  DOMAIN S!parseFlags(before, after) = {}
<1> DEFINE changed == (after["Flags"] \ before["Flags"]) \cup (before["Flags"] \ after["Flags"])
           bits == [name \in {n \in DOMAIN S!AccountFlags : S!AccountFlags[n] \in changed} |->
                      S!AccountFlags[name] \in after["Flags"] \ before["Flags"]]
<1>1. S!parseFlags(before, after) = S!Merged(bits, S!NoFields)
  BY DEF S!parseFlags, S!@@
<1>2. DOMAIN bits = {}
  BY DEF bits
<1> HIDE DEF bits
<1> QED
  BY <1>1, <1>2 DEF S!Merged, S!NoFields

(* The same change, or none at all.                                        *)
Again(r, name, value) ==
  LET t == S!createSettingsTransaction(name, value)
      after == Applied(r, name, value)
      again == PreparedOf(None, parseTransaction(t, r, after))
  IN \/ again = t /\ again # None
     \/ again = None /\ after = r

LEMMA AgainOneKey ==
  ASSUME NEW r, NEW name, NEW value,
         LET t == S!createSettingsTransaction(name, value)
             spec == S!parseSettings(t, r, Applied(r, name, value))
         IN /\ t["TransactionType"] \in {"AccountSet", "SetRegularKey", "SignerListSet"}
            /\ "TransactionType" \in DOMAIN t /\ DOMAIN spec = {name}
            /\ S!createSettingsTransaction(name, spec[name]) = t
  PROVE  Again(r, name, value)
<1> DEFINE t == S!createSettingsTransaction(name, value)
           after == Applied(r, name, value)
           spec == S!parseSettings(t, r, after)
           again == PreparedOf(None, parseTransaction(t, r, after))
<1>1. t["TransactionType"] \in {"AccountSet", "SetRegularKey", "SignerListSet"}
  OBVIOUS
<1>2. again = S!createSettingsTransaction(name, spec[name])
  <2> HIDE DEF t, after
  <2> QED
    BY <1>1, SettingsPrepared DEF t, after
<1>3. again = t
  BY <1>2
<1>4. t # None
  <2>1. "TransactionType" \in DOMAIN t
    OBVIOUS
  <2>2. DOMAIN None = {"none"}
    BY DEF None
  <2> HIDE DEF t
  <2> QED
    BY <2>1, <2>2
<1> QED
  BY <1>3, <1>4 DEF Again

LEMMA AgainNothing ==
  ASSUME NEW r, NEW name, NEW value, Applied(r, name, value) = r,
         LET t == S!createSettingsTransaction(name, value)
         IN /\ t["TransactionType"] = "AccountSet"
            /\ DOMAIN S!parseSettings(t, r, r) = {}
  PROVE  Again(r, name, value)
<1> DEFINE t == S!createSettingsTransaction(name, value)
<1>1. t["TransactionType"] \in {"AccountSet", "SetRegularKey", "SignerListSet"}
      /\ DOMAIN S!parseSettings(t, r, r) = {}
  OBVIOUS
<1>2. PreparedOf(None, parseTransaction(t, r, r)) = None
  <2> HIDE DEF t
  <2> QED
    BY <1>1, SettingsPrepared
<1>3. PreparedOf(None, parseTransaction(t, r, Applied(r, name, value))) = None
  BY <1>2
<1> QED
  BY <1>3 DEF Again

LEMMA FlagAgain ==
  ASSUME IsRoot(root), NEW name \in FlagNames \cap Bits, NEW value \in BOOLEAN
  PROVE  Again(root, name, value)
<1> DEFINE t == S!createSettingsTransaction(name, value)
           flag == IF value THEN "SetFlag" ELSE "ClearFlag"
           after == Applied(root, name, value)
           bit == S!AccountFlags[name]
           flags == S!parseFlags(root, after)
           spec == S!parseSettings(t, root, after)
           set == after["Flags"] \ root["Flags"]
           cleared == root["Flags"] \ after["Flags"]
           bits == [n \in {m \in DOMAIN S!AccountFlags : S!AccountFlags[m] \in set \cup cleared} |->
                      S!AccountFlags[n] \in set]
<1>1. /\ DOMAIN t = {"TransactionType", flag}
      /\ t["TransactionType"] = "AccountSet"
      /\ t[flag] = S!AccountFlagIndices[name]
  BY CreatedFlag
<1>2. /\ IsRoot(after) /\ SameBut(after, root, {"Flags"})
      /\ after["Flags"] = IF value THEN root["Flags"] \cup {bit}
                          ELSE IF name = "noFreeze" THEN root["Flags"]
                          ELSE root["Flags"] \ {bit}
  BY AppliedFlag
<1> HIDE DEF t, after
<1>3. \A f \in RootFields \ {"Flags"} : after[f] = root[f]
  BY <1>2 DEF SameBut, IsRoot
<1>4. DOMAIN S!parseFields(t) = {}
  <2>1. /\ "SignerQuorum" \notin DOMAIN t /\ "RegularKey" \notin DOMAIN t
        /\ \A n \in FieldNames : FieldOf(n) \notin DOMAIN t
    BY <1>1 DEF FieldNames, FieldOf
  <2> QED
    BY <2>1, ParsedFields
<1>5. DOMAIN spec = DOMAIN flags /\ \A n \in DOMAIN flags : spec[n] = flags[n]
  <2> DEFINE fields == S!parseFields(t)
  <2>1. spec = S!Merged(flags, fields)
    BY <1>1 DEF S!parseSettings, S!@@
  <2> HIDE DEF spec, flags, fields
  <2> QED
    BY <1>4, <2>1 DEF S!Merged, fields
<1>6. flags = S!Merged(bits, S!NoFields)
  <2>1. root["AccountTxnID"] = after["AccountTxnID"]
    BY <1>3 DEF RootFields
  <2> QED
    BY <2>1 DEF S!parseFlags, S!@@
<1> HIDE DEF spec, flags
<1>7. DOMAIN flags = DOMAIN bits /\ \A n \in DOMAIN bits : flags[n] = bits[n]
  <2> HIDE DEF bits
  <2> QED
    BY <1>6 DEF S!Merged, S!NoFields
<1>8. \A n \in DOMAIN S!AccountFlags : S!AccountFlags[n] = bit <=> n = name
  <2>1. ASSUME NEW n \in Bits
        PROVE  S!AccountFlags[n] = bit <=> n = name
    BY FlagTables
  <2>2. S!AccountFlags["passwordSpent"] # bit /\ "passwordSpent" # name
    <3>1. bit \in 17 .. 23
      BY FlagTables, Zenon
    <3> QED
      BY <3>1, FlagTables DEF Bits
  <2> QED
    BY <2>1, <2>2, FlagTables
<1>9. CASE after["Flags"] = root["Flags"]
  <2>1. after = root
    BY <1>2, <1>3, <1>9, RootsEqual
  <2>2. DOMAIN S!parseFlags(root, after) = {}
    BY <2>1, FlagsUntold
  <2>3. DOMAIN S!parseSettings(t, root, root) = {}
    BY <1>5, <2>1, <2>2 DEF spec, flags
  <2> QED
    BY <1>1, <2>1, <2>3, AgainNothing DEF t, after
<1>10. CASE after["Flags"] # root["Flags"]
  <2>1. /\ set \cup cleared = {bit}
        /\ bit \in set <=> value
    <3>1. CASE value
      BY <1>2, <1>10, <3>1
    <3>2. CASE ~value
      BY <1>2, <1>10, <3>2
    <3> QED
      BY <3>1, <3>2
  <2> HIDE DEF set, cleared, bit
  <2>2. DOMAIN bits = {name}
    <3>1. name \in DOMAIN S!AccountFlags
      BY FlagTables
    <3>2. \A x : x \in set \cup cleared <=> x = bit
      BY <2>1
    <3>3. \A n \in DOMAIN S!AccountFlags : S!AccountFlags[n] \in set \cup cleared <=> n = name
      BY <1>8, <3>2
    <3> QED
      BY <3>1, <3>3
  <2>3. bits[name] = (bit \in set)
    BY <2>2 DEF bit
  <2> HIDE DEF bits
  <2>4. bits[name] = value
    <3>1. CASE value = TRUE
      BY <2>1, <2>3, <3>1
    <3>2. CASE value = FALSE
      BY <2>1, <2>3, <3>2
    <3> QED
      BY <3>1, <3>2
  <2>5. DOMAIN spec = {name} /\ spec[name] = value
    BY <1>5, <1>7, <2>2, <2>4
  <2> QED
    BY <1>1, <2>5, AgainOneKey DEF t, spec, after
<1> QED
  BY <1>9, <1>10

LEMMA TrackingAgain ==
  ASSUME IsRoot(root), "enableTransactionIDTracking" \in FlagNames, NEW value \in BOOLEAN
  PROVE  Again(root, "enableTransactionIDTracking", value)
<1> DEFINE name == "enableTransactionIDTracking"
           t == S!createSettingsTransaction(name, value)
           flag == IF value THEN "SetFlag" ELSE "ClearFlag"
           after == Applied(root, name, value)
           flags == S!parseFlags(root, after)
           spec == S!parseSettings(t, root, after)
           set == after["Flags"] \ root["Flags"]
           cleared == root["Flags"] \ after["Flags"]
           bits == [n \in {m \in DOMAIN S!AccountFlags : S!AccountFlags[m] \in set \cup cleared} |->
                      S!AccountFlags[n] \in set]
<1>1. DOMAIN t = {"TransactionType", flag} /\ t["TransactionType"] = "AccountSet"
  BY CreatedFlag
<1>2. /\ IsRoot(after) /\ SameBut(after, root, {"AccountTxnID"})
      /\ after["AccountTxnID"] = value
  BY AppliedTracking
<1> HIDE DEF t, after
<1>3. \A f \in RootFields \ {"AccountTxnID"} : after[f] = root[f]
  BY <1>2 DEF SameBut, IsRoot
<1>4. DOMAIN S!parseFields(t) = {}
  <2>1. /\ "SignerQuorum" \notin DOMAIN t /\ "RegularKey" \notin DOMAIN t
        /\ \A n \in FieldNames : FieldOf(n) \notin DOMAIN t
    BY <1>1 DEF FieldNames, FieldOf
  <2> QED
    BY <2>1, ParsedFields
<1>5. DOMAIN spec = DOMAIN flags /\ \A n \in DOMAIN flags : spec[n] = flags[n]
  <2> DEFINE fields == S!parseFields(t)
  <2>1. spec = S!Merged(flags, fields)
    BY <1>1 DEF S!parseSettings, S!@@
  <2> HIDE DEF spec, flags, fields
  <2> QED
    BY <1>4, <2>1 DEF S!Merged, fields
<1> HIDE DEF spec
<1>6. CASE after["AccountTxnID"] = root["AccountTxnID"]
  <2>1. after = root
    BY <1>2, <1>3, <1>6, RootsEqual
  <2>2. DOMAIN S!parseFlags(root, after) = {}
    BY <2>1, FlagsUntold
  <2>3. DOMAIN S!parseSettings(t, root, root) = {}
    BY <1>5, <2>1, <2>2 DEF spec
  <2> QED
    BY <1>1, <2>1, <2>3, AgainNothing DEF t, after
<1>7. CASE after["AccountTxnID"] # root["AccountTxnID"]
  <2>1. flags = S!Merged(bits, S!OneField(name, after["AccountTxnID"]))
    BY <1>7 DEF S!parseFlags, S!@@, S!:>
  <2>2. DOMAIN bits = {}
    <3>1. after["Flags"] = root["Flags"]
      BY <1>3 DEF RootFields
    <3> QED
      BY <3>1
  <2> HIDE DEF bits, flags
  <2>3. DOMAIN flags = {name} /\ flags[name] = value
    BY <1>2, <2>1, <2>2 DEF S!Merged, S!OneField
  <2>4. DOMAIN spec = {name} /\ spec[name] = value
    BY <1>5, <2>3 DEF flags
  <2> QED
    BY <1>1, <2>4, AgainOneKey DEF t, spec, after
<1> QED
  BY <1>6, <1>7

LEMMA FieldAgain ==
  ASSUME IsRoot(root), NEW name \in FieldNames, NEW value, IsField(name, value),
         name = "transferRate" => value # S!NULLRATE
  PROVE  Again(root, name, value)
<1> DEFINE t == S!createSettingsTransaction(name, value)
           field == FieldOf(name)
           after == Applied(root, name, value)
           flags == S!parseFlags(root, after)
           fields == S!parseFields(t)
           spec == S!parseSettings(t, root, after)
           parsed == S!parseField(field, S!FieldValue(name, value))
<1>1. /\ DOMAIN t = {"TransactionType", field} /\ t["TransactionType"] = "AccountSet"
      /\ t[field] = S!FieldValue(name, value)
  BY CreatedField
<1>2. IsRoot(after) /\ SameBut(after, root, {field})
  BY AppliedField
<1>3. /\ field \in {"EmailHash", "MessageKey", "Domain", "TransferRate"}
      /\ \A n \in FieldNames : FieldOf(n) = field <=> n = name
      /\ \A n \in FieldNames : FieldOf(n) # "TransactionType"
  BY DEF FieldNames, FieldOf
<1> HIDE DEF t, after, field
<1>4. DOMAIN flags = {}
  <2>1. root["Flags"] = after["Flags"] /\ root["AccountTxnID"] = after["AccountTxnID"]
    BY <1>2, <1>3 DEF SameBut, IsRoot, RootFields
  <2> QED
    BY <2>1, FlagsUntold
<1>5. DOMAIN fields = {name} /\ fields[name] = parsed
  <2>1. "SignerQuorum" \notin DOMAIN t /\ "RegularKey" \notin DOMAIN t
    BY <1>1, <1>3
  <2>2. \A n \in FieldNames : FieldOf(n) \in DOMAIN t <=> n = name
    BY <1>1, <1>3
  <2>3. /\ DOMAIN fields = {n \in FieldNames : FieldOf(n) \in DOMAIN t}
                             \cup {n \in {"regularKey"} : "RegularKey" \in DOMAIN t}
        /\ \A n \in FieldNames : FieldOf(n) \in DOMAIN t =>
             fields[n] = S!parseField(FieldOf(n), t[FieldOf(n)])
    BY <2>1, ParsedFields
  <2> HIDE DEF fields
  <2>4. DOMAIN fields = {name}
    BY <2>1, <2>2, <2>3
  <2> QED
    BY <1>1, <2>2, <2>3, <2>4 DEF field
<1>6. DOMAIN spec = {name} /\ spec[name] = parsed
  <2>1. spec = S!Merged(flags, fields)
    BY <1>1 DEF S!parseSettings, S!@@
  <2> HIDE DEF spec, flags, fields, parsed
  <2> QED
    BY <1>4, <1>5, <2>1 DEF S!Merged
<1>7. S!FieldValue(name, parsed) = S!FieldValue(name, value)
  <2>1. CASE name = "domain"
    <3>1. value \in {"", "d"}
      BY <2>1 DEF IsField
    <3>2. parsed = value
      BY <2>1, <3>1, HexTable DEF S!FieldValue, FieldOf, field
    <3> QED
      BY <3>2
  <2>2. CASE name = "messageKey"
    BY <2>2 DEF S!FieldValue, S!parseField, FieldOf, field
  <2>3. CASE name = "emailHash"
    BY <2>3 DEF S!FieldValue, S!parseField, FieldOf, field, S!NULL
  <2>4. CASE name = "transferRate"
    <3>1. value \in GivenRates \ {S!NULLRATE}
      BY <2>4 DEF IsField
    <3>2. S!FieldValue(name, value) = S!Shift(value)
      BY <2>4, <3>1 DEF S!FieldValue
    <3>3. parsed = S!Unshift(S!Shift(value))
      BY <2>4, <3>2 DEF S!parseField, FieldOf, field
    <3>4. parsed = value
      BY <3>1, <3>3, RatesGiven
    <3> QED
      BY <3>4
  <2> QED
    BY <2>1, <2>2, <2>3, <2>4 DEF FieldNames
<1>8. S!createSettingsTransaction(name, parsed) = t
  <2> HIDE DEF parsed
  <2>1. name \notin DOMAIN S!AccountFlagIndices /\ name # "regularKey" /\ name # "signers"
    BY FlagTables DEF FieldNames, Bits
  <2>2. S!setTransactionFlags(name, parsed) = S!setTransactionFlags(name, value)
    BY <2>1 DEF S!setTransactionFlags
  <2>3. S!setTransactionFields(name, parsed) = S!setTransactionFields(name, value)
    BY <1>7 DEF S!setTransactionFields
  <2> QED
    BY <2>1, <2>2, <2>3 DEF S!createSettingsTransaction, t
<1>9. S!createSettingsTransaction(name, spec[name]) = t
  BY <1>6, <1>8
<1> HIDE DEF spec
<1> QED
  BY <1>1, <1>6, <1>9, AgainOneKey DEF t, spec, after

LEMMA KeyAgain ==
  ASSUME NEW key, key # "null"
  PROVE  Again(root, "regularKey", key)
<1> DEFINE t == S!createSettingsTransaction("regularKey", key)
           after == Applied(root, "regularKey", key)
           fields == S!parseFields(t)
           spec == S!parseSettings(t, root, after)
<1>1. /\ t["TransactionType"] = "SetRegularKey"
      /\ DOMAIN t = {"TransactionType", "RegularKey"} /\ t["RegularKey"] = key
  BY CreatedKey
<1> HIDE DEF t, after
<1>2. DOMAIN fields = {"regularKey"} /\ fields["regularKey"] = key
  <2>1. /\ "SignerQuorum" \notin DOMAIN t /\ "RegularKey" \in DOMAIN t
        /\ \A n \in FieldNames : FieldOf(n) \notin DOMAIN t
    BY <1>1 DEF FieldNames, FieldOf
  <2> QED
    BY <1>1, <2>1, ParsedFields
<1>3. DOMAIN spec = {"regularKey"} /\ spec["regularKey"] = key
  <2>1. spec = S!Merged(S!NoFields, fields)
    BY <1>1 DEF S!parseSettings, S!@@
  <2> HIDE DEF spec, fields
  <2> QED
    BY <1>2, <2>1 DEF S!Merged, S!NoFields
<1> HIDE DEF spec
<1> QED
  BY <1>1, <1>3, AgainOneKey DEF t, spec, after

LEMMA SignersAgain ==
  ASSUME NEW value
  PROVE  Again(root, "signers", value)
<1> DEFINE t == S!createSettingsTransaction("signers", value)
           after == Applied(root, "signers", value)
           entries == {S!formatSignerEntry(signer) : signer \in value.weights}
           Signer(entry) == [address |-> entry.Account, weight |-> entry.SignerWeight]
           weights == {Signer(entry) : entry \in entries}
           parsed == [threshold |-> value.threshold, weights |-> weights]
           names == {S!AccountFields[f] : f \in DOMAIN S!AccountFields \cap DOMAIN t}
           Field(name) == CHOOSE f \in DOMAIN S!AccountFields : S!AccountFields[f] = name
           given == [name \in names |-> S!parseField(Field(name), t[Field(name)])]
           signers == S!OneField("signers", parsed)
           fields == S!parseFields(t)
           spec == S!parseSettings(t, root, after)
           Created(v) ==
             S!Merged(S!Merged(S!OneField("TransactionType", "SignerListSet"),
                               S!OneField("SignerQuorum", v.threshold)),
                      S!OneField("SignerEntries",
                                 {S!formatSignerEntry(signer) : signer \in v.weights}))
<1>1. /\ DOMAIN t = {"TransactionType", "SignerQuorum", "SignerEntries"}
      /\ t["TransactionType"] = "SignerListSet"
      /\ t["SignerQuorum"] = value.threshold /\ t["SignerEntries"] = entries
  BY CreatedSigners
<1> HIDE DEF t, after
<1>2. fields = S!Merged(S!Merged(given, S!NoFields), signers)
  <2>1. parsed = [threshold |-> t["SignerQuorum"],
                  weights |-> {Signer(entry) : entry \in t["SignerEntries"]}]
    BY <1>1
  <2> HIDE DEF parsed
  <2> QED
    BY <1>1, <2>1 DEF S!parseFields, S!@@, S!:>
<1>3. DOMAIN given = {}
  BY <1>1, FieldTable
<1>4. DOMAIN signers = {"signers"} /\ signers["signers"] = parsed
  BY DEF S!OneField
<1> HIDE DEF given, signers, parsed
<1>5. DOMAIN fields = {"signers"} /\ fields["signers"] = parsed
  <2> HIDE DEF fields
  <2> DEFINE both == S!Merged(given, S!NoFields)
  <2>1. DOMAIN both = {}
    BY <1>3 DEF S!Merged, S!NoFields
  <2> HIDE DEF both
  <2>2. fields = S!Merged(both, signers)
    BY <1>2 DEF both
  <2> QED
    BY <1>4, <2>1, <2>2 DEF S!Merged
<1>6. DOMAIN spec = {"signers"} /\ spec["signers"] = parsed
  <2>1. spec = S!Merged(S!NoFields, fields)
    BY <1>1 DEF S!parseSettings, S!@@
  <2> HIDE DEF spec, fields
  <2> QED
    BY <1>5, <2>1 DEF S!Merged, S!NoFields
<1> HIDE DEF spec
<1>7. \A v : S!createSettingsTransaction("signers", v) = Created(v)
  BY DEF S!createSettingsTransaction, S!@@, S!:>
<1>8. {S!formatSignerEntry(signer) : signer \in weights} = entries
  <2>1. \A signer : S!formatSignerEntry(Signer(S!formatSignerEntry(signer)))
                      = S!formatSignerEntry(signer)
    BY DEF S!formatSignerEntry
  <2> HIDE DEF Signer
  <2>2. \A entry \in entries : S!formatSignerEntry(Signer(entry)) = entry
    BY <2>1
  <2> HIDE DEF entries
  <2> QED
    BY <2>2
<1>9. S!createSettingsTransaction("signers", parsed) = t
  <2>1. Created(parsed) = Created(value)
    <3>1. parsed.threshold = value.threshold /\ parsed.weights = weights
      BY DEF parsed
    <3>2. {S!formatSignerEntry(signer) : signer \in parsed.weights}
            = {S!formatSignerEntry(signer) : signer \in value.weights}
      BY <1>8, <3>1
    <3> QED
      BY <3>1, <3>2
  <2> QED
    BY <1>7, <2>1 DEF t
<1> QED
  BY <1>1, <1>6, <1>9, AgainOneKey DEF t, spec, after

LEMMA PairIs ==
  ASSUME NEW A, NEW B, NEW pair \in A \X B
  PROVE  pair = <<pair[1], pair[2]>>
OBVIOUS

LEMMA SettingIsPair ==
  ASSUME NEW setting \in S!Settings
  PROVE  setting = <<setting[1], setting[2]>>
<1>1. CASE setting \in {s \in {"transferRate"} \X ({S!NULLRATE} \cup SettingRates) :
                          S!Permitted(s[1], s[2])}
  BY <1>1
<1>2. CASE setting \in FlagNames \X BOOLEAN
  BY <1>2
<1>3. CASE setting \in {"domain"} \X {"", "d"}
  BY <1>3, PairIs, Zenon
<1>6. CASE setting \in {"messageKey"} \X {"", "m"}
  BY <1>6, PairIs, Zenon
<1>7. CASE setting \in {"emailHash"} \X {S!NULL, "e"}
  BY <1>7
<1>4. CASE setting \in {"regularKey"} \X ({S!NULL} \cup Keys)
  BY <1>4
<1>5. CASE setting \in
             {"signers"} \X {S!NoSigners, [threshold |-> 2, weights |-> [address : Keys, weight : {2}]]}
  BY <1>5
<1> QED
  BY <1>1, <1>2, <1>3, <1>4, <1>5, <1>6, <1>7 DEF S!Settings

LEMMA SettingsAgain == RootInv => SettingsRecreated
<1> SUFFICES ASSUME RootInv, NEW setting \in S!Settings,
                    setting \notin {<<"regularKey", S!NULL>>, <<"signers", S!NoSigners>>,
                                     <<"transferRate", S!NULLRATE>>}
             PROVE  Again(root, setting[1], setting[2])
  <2>1. ASSUME NEW setting \in S!Settings, Again(root, setting[1], setting[2])
        PROVE  LET t == S!createSettingsTransaction(setting[1], setting[2])
                   after == S!ApplySettings(root, t)
                   again == PreparedOf(None, parseTransaction(t, root, after))
               IN IF again = None THEN after = root ELSE S!ApplySettings(root, again) = after
    BY <2>1 DEF Again, Applied
  <2> QED
    BY <2>1 DEF SettingsRecreated
<1> DEFINE name == setting[1]
           value == setting[2]
<1>1. IsRoot(root)
  BY DEF RootInv
<1>2. setting = <<name, value>>
  BY SettingIsPair
<1>3. CASE name \in FlagNames /\ value \in BOOLEAN
  BY <1>1, <1>3, FlagAgain, TrackingAgain, NamesApart
<1>4. CASE name \in FieldNames /\ IsField(name, value)
  <2>1. name = "transferRate" => value # S!NULLRATE
    BY <1>2
  <2> QED
    BY <1>1, <1>4, <2>1, FieldAgain
<1>5. CASE name = "regularKey" /\ value \in {"null"} \cup Keys
  <2>1. value # "null"
    BY <1>2, <1>5 DEF S!NULL
  <2> QED
    BY <1>5, <2>1, KeyAgain
<1>6. CASE name = "signers"
  BY <1>6, SignersAgain
<1> QED
  BY <1>3, <1>4, <1>5, <1>6, SettingCases

(* ------------------------- An order once more -------------------------- *)

(* The transactions of orders.                                             *)
OrdersPlaced ==
  [TransactionType : {"OfferCreate"}, Account : Makers, TakerGets : RippledIssued,
   TakerPays : RippledIssued, Flags : {flags \in SUBSET {16, 17, 18, 19, 31} : 31 \in flags},
   OfferSequence : Nat]
OrdersCancelled ==
  [TransactionType : {"OfferCancel"}, Account : Makers, Flags : {{31}}, OfferSequence : Nat]

OrderSentInv == order \in {None} \cup OrdersPlaced \cup OrdersCancelled

LEMMA OptionFlags ==
  /\ O!OfferCreate["passive"] = 16 /\ O!OfferCreate["immediateOrCancel"] = 17
  /\ O!OfferCreate["fillOrKill"] = 18 /\ O!OfferCreate.Sell = 19
BY DEF O!OfferCreate

LEMMA OrderSpelled ==
  ASSUME NEW account, NEW spec, NEW gets, NEW pays, NEW flags,
         gets = O!toRippledAmount(IF spec.direction = "buy" THEN spec.totalPrice
                                  ELSE spec.quantity),
         pays = O!toRippledAmount(IF spec.direction = "buy" THEN spec.quantity
                                  ELSE spec.totalPrice),
         flags = (IF spec.direction = "buy" THEN {} ELSE {19})
                   \cup {O!OfferCreate[option] : option \in spec.options} \cup {31}
  PROVE  O!setCanonicalFlag(O!createOrderTransaction(account, spec))
           = [TransactionType |-> "OfferCreate", Account |-> account, TakerGets |-> gets,
              TakerPays |-> pays, Flags |-> flags, OfferSequence |-> spec.orderToReplace]
<1> DEFINE own == (IF spec.direction = "buy" THEN {} ELSE {19})
                    \cup {O!OfferCreate[option] : option \in spec.options}
           created == O!createOrderTransaction(account, spec)
<1>1. created = [TransactionType |-> "OfferCreate", Account |-> account, TakerGets |-> gets,
                 TakerPays |-> pays, Flags |-> own, OfferSequence |-> spec.orderToReplace]
  <2>1. (IF spec.direction = "buy" THEN {} ELSE {O!OfferCreate.Sell})
          \cup {O!OfferCreate[option] : option \in spec.options} = own
    BY OptionFlags
  <2> HIDE DEF own
  <2> QED
    BY <2>1 DEF O!createOrderTransaction
<1>2. flags = own \cup {31}
  OBVIOUS
<1> HIDE DEF own, created
<1> QED
  BY <1>1, <1>2 DEF O!setCanonicalFlag, O!FullyCanonicalSig, created

LEMMA OrderSent ==
  ASSUME OrderInv, NEW maker \in Makers, O!PlaceOrder(maker) PROVE OrderSentInv'
<1> DEFINE Of(issue, value) == [currency |-> issue.currency, value |-> value,
                                counterparty |-> issue.counterparty]
           Placed(direction, gets, pays, rate, lots, options, replaced) ==
             [direction |-> direction,
              quantity |-> IF direction = "buy" THEN Of(pays, rate * lots)
                           ELSE Of(gets, lots),
              totalPrice |-> IF direction = "buy" THEN Of(gets, lots)
                             ELSE Of(pays, rate * lots),
              options |-> options, orderToReplace |-> replaced]
           Tx(placed) == O!setCanonicalFlag(O!createOrderTransaction(maker, placed))
<1>1. PICK direction \in {"buy", "sell"}, gets \in O!Issues, pays \in O!Issues,
           rate \in OrderRates, lots \in Lots,
           options \in {{}} \cup {{o} : o \in O!Options},
           replaced \in {0} \cup {o.Sequence : o \in O!Last(ledgers)} :
             /\ gets # pays
             /\ O!Include(Tx(Placed(direction, gets, pays, rate, lots, options, replaced)))
  BY Zenon DEF O!PlaceOrder
<1> DEFINE placed == Placed(direction, gets, pays, rate, lots, options, replaced)
           takerGets == O!toRippledAmount(Of(gets, lots))
           takerPays == O!toRippledAmount(Of(pays, rate * lots))
           flags == (IF direction = "buy" THEN {} ELSE {19})
                      \cup {O!OfferCreate[option] : option \in options} \cup {31}
<1>2. order' = Tx(placed)
  BY <1>1 DEF O!Include
<1>3. takerGets \in RippledIssued /\ takerPays \in RippledIssued
  <2>1. rate \in Int /\ rate >= 1 /\ lots \in Int /\ lots >= 1
    BY RatesAssumption
  <2>2. lots \in Value /\ rate * lots \in Value
    BY <2>1 DEF Value
  <2> QED
    BY <2>2, AmountThereAndBack
<1>4. flags \in SUBSET {16, 17, 18, 19, 31} /\ 31 \in flags
  <2>1. \A option \in options : O!OfferCreate[option] \in {16, 17, 18}
    BY OptionFlags DEF O!Options
  <2> QED
    BY <2>1
<1>5. replaced \in Nat
  <2>1. \A o \in O!Last(ledgers) : o.Sequence \in Nat
    BY LastLedger DEF OrderInv, OffersOk, Offer
  <2> QED
    BY <2>1
<1> HIDE DEF Of
<1>6. /\ placed.direction = direction /\ placed.options = options
      /\ placed.orderToReplace = replaced
      /\ (IF direction = "buy" THEN placed.totalPrice ELSE placed.quantity) = Of(gets, lots)
      /\ (IF direction = "buy" THEN placed.quantity ELSE placed.totalPrice)
           = Of(pays, rate * lots)
  OBVIOUS
<1> HIDE DEF placed
<1>7. Tx(placed) = [TransactionType |-> "OfferCreate", Account |-> maker,
                    TakerGets |-> takerGets, TakerPays |-> takerPays, Flags |-> flags,
                    OfferSequence |-> replaced]
  <2>1. /\ takerGets = O!toRippledAmount(IF placed.direction = "buy" THEN placed.totalPrice
                                         ELSE placed.quantity)
        /\ takerPays = O!toRippledAmount(IF placed.direction = "buy" THEN placed.quantity
                                         ELSE placed.totalPrice)
    BY <1>6
  <2>2. flags = (IF placed.direction = "buy" THEN {} ELSE {19})
                  \cup {O!OfferCreate[option] : option \in placed.options} \cup {31}
    BY <1>6
  <2> HIDE DEF takerGets, takerPays, flags
  <2> QED
    BY <1>6, <2>1, <2>2, OrderSpelled
<1> HIDE DEF takerGets, takerPays, flags, Tx
<1>8. Tx(placed) \in OrdersPlaced
  BY <1>3, <1>4, <1>5, <1>7 DEF OrdersPlaced
<1> QED
  BY <1>2, <1>8 DEF OrderSentInv

LEMMA CancellationSpelled ==
  \A account, sequence :
    O!setCanonicalFlag(O!createOrderCancellationTransaction(account, sequence))
      = [TransactionType |-> "OfferCancel", Account |-> account, Flags |-> {31},
         OfferSequence |-> sequence]
BY DEF O!setCanonicalFlag, O!createOrderCancellationTransaction, O!FullyCanonicalSig

LEMMA CancellationSent ==
  ASSUME OrderInv, O!CancelOrder PROVE OrderSentInv'
<1>1. PICK o \in O!Last(ledgers) :
        O!Include(O!setCanonicalFlag(
                    O!createOrderCancellationTransaction(o.Account, o.Sequence)))
  BY DEF O!CancelOrder
<1>2. o.Account \in Makers /\ o.Sequence \in Nat
  BY LastLedger DEF OrderInv, OffersOk, Offer
<1>3. order' = [TransactionType |-> "OfferCancel", Account |-> o.Account, Flags |-> {31},
                OfferSequence |-> o.Sequence]
  BY <1>1, CancellationSpelled DEF O!Include
<1> QED
  BY <1>2, <1>3 DEF OrderSentInv, OrdersCancelled

LEMMA OrderSentStep == OrderInv /\ OrderSentInv /\ [Next]_vars => OrderSentInv'
<1> SUFFICES ASSUME OrderInv, OrderSentInv, [Next]_vars PROVE OrderSentInv'
  OBVIOUS
<1>1. CASE UNCHANGED order
  BY <1>1 DEF OrderSentInv
<1>2. CASE O!Next
  <2>1. ASSUME NEW maker \in Makers, O!PlaceOrder(maker) PROVE OrderSentInv'
    BY <2>1, OrderSent
  <2>2. CASE O!CancelOrder
    BY <2>2, CancellationSent
  <2>3. CASE O!Trade
    BY <2>3 DEF O!Trade, OrderSentInv, None, O!None
  <2>4. CASE O!GetOrderbook
    BY <1>1, <2>4 DEF O!GetOrderbook
  <2>5. ASSUME NEW side \in O!Sides, O!AnswersBook(side) PROVE OrderSentInv'
    BY <1>1, <2>5 DEF O!AnswersBook
  <2> QED
    BY <1>2, <2>1, <2>2, <2>3, <2>4, <2>5 DEF O!Next
<1> QED
  BY <1>1, <1>2 DEF Next, Pay, Trade, Set, Hold, Claim, vars, orderVars

LEMMA IssuedAgain == \A amount \in RippledIssued :
                       O!toRippledAmount(O!parseAmount(amount)) = amount
<1> SUFFICES ASSUME NEW amount \in RippledIssued
             PROVE  O!toRippledAmount(O!parseAmount(amount)) = amount
  OBVIOUS
<1>1. O!parseAmount(amount) = [currency |-> amount.currency, value |-> amount.value,
                               counterparty |-> amount.issuer]
  BY AmountThereAndBack
<1>2. amount.currency = "USD"
  BY DEF RippledIssued
<1>3. O!toRippledAmount(O!parseAmount(amount))
        = [currency |-> amount.currency, issuer |-> amount.issuer, value |-> amount.value]
  BY <1>1, <1>2 DEF O!toRippledAmount
<1> QED
  BY <1>3 DEF RippledIssued

LEMMA PlacedAgain ==
  ASSUME NEW t \in OrdersPlaced, t.OfferSequence = 0
  PROVE  Recreates(t.Account, t)
<1> DEFINE spec == O!parseOrder(t)
           sell == 19 \in t.Flags
           gets == O!parseAmount(t.TakerGets)
           pays == O!parseAmount(t.TakerPays)
           options == {option \in O!Options : O!OfferCreate[option] \in t.Flags}
<1>1. /\ spec.direction = (IF sell THEN "sell" ELSE "buy")
      /\ spec.quantity = (IF sell THEN gets ELSE pays)
      /\ spec.totalPrice = (IF sell THEN pays ELSE gets)
      /\ spec.options = options /\ spec.orderToReplace = 0
  <2> HIDE DEF gets, pays, options
  <2> QED
    BY OptionFlags DEF O!parseOrder, O!Specification, gets, pays, options
<1>2. t.TakerGets \in RippledIssued /\ t.TakerPays \in RippledIssued
  BY DEF OrdersPlaced
<1>3. O!toRippledAmount(gets) = t.TakerGets /\ O!toRippledAmount(pays) = t.TakerPays
  BY <1>2, IssuedAgain
<1>4. t.Flags = (IF spec.direction = "buy" THEN {} ELSE {19})
                  \cup {O!OfferCreate[option] : option \in spec.options} \cup {31}
  <2>1. t.Flags \in SUBSET {16, 17, 18, 19, 31} /\ 31 \in t.Flags
    BY DEF OrdersPlaced
  <2>2. {O!OfferCreate[option] : option \in options} = t.Flags \cap {16, 17, 18}
    <3>1. O!Options = {"passive", "immediateOrCancel", "fillOrKill"}
      BY DEF O!Options
    <3> HIDE DEF sell
    <3> QED
      BY <3>1, OptionFlags
  <2> HIDE DEF spec, options
  <2> QED
    BY <1>1, <2>1, <2>2
<1>5. parseTransaction(t, None, None) = [type |-> "order", specification |-> spec]
  <2>1. t["TransactionType"] = "OfferCreate"
    BY DEF OrdersPlaced
  <2> QED
    BY <2>1 DEF parseTransaction, parseTransactionType, spec
<1> HIDE DEF spec, gets, pays, options
<1>6. /\ t.TakerGets = O!toRippledAmount(IF spec.direction = "buy" THEN spec.totalPrice
                                         ELSE spec.quantity)
      /\ t.TakerPays = O!toRippledAmount(IF spec.direction = "buy" THEN spec.quantity
                                         ELSE spec.totalPrice)
  BY <1>1, <1>3
<1>7. O!setCanonicalFlag(O!createOrderTransaction(t.Account, spec))
        = [TransactionType |-> "OfferCreate", Account |-> t.Account, TakerGets |-> t.TakerGets,
           TakerPays |-> t.TakerPays, Flags |-> t.Flags,
           OfferSequence |-> spec.orderToReplace]
  <2> DEFINE takerGets == t.TakerGets
             takerPays == t.TakerPays
             flags == t.Flags
  <2>1. /\ takerGets = O!toRippledAmount(IF spec.direction = "buy" THEN spec.totalPrice
                                         ELSE spec.quantity)
        /\ takerPays = O!toRippledAmount(IF spec.direction = "buy" THEN spec.quantity
                                         ELSE spec.totalPrice)
        /\ flags = (IF spec.direction = "buy" THEN {} ELSE {19})
                     \cup {O!OfferCreate[option] : option \in spec.options} \cup {31}
    BY <1>4, <1>6
  <2> HIDE DEF takerGets, takerPays, flags
  <2>2. O!setCanonicalFlag(O!createOrderTransaction(t.Account, spec))
          = [TransactionType |-> "OfferCreate", Account |-> t.Account,
             TakerGets |-> takerGets, TakerPays |-> takerPays, Flags |-> flags,
             OfferSequence |-> spec.orderToReplace]
    BY <2>1, OrderSpelled
  <2> QED
    BY <2>2 DEF takerGets, takerPays, flags
<1>8. O!setCanonicalFlag(O!createOrderTransaction(t.Account, spec)) = t
  BY <1>1, <1>7 DEF OrdersPlaced
<1> QED
  BY <1>5, <1>8 DEF Recreates, PreparedOf

LEMMA CancelledAgain ==
  ASSUME NEW t \in OrdersCancelled PROVE Recreates(t.Account, t)
<1>1. t["TransactionType"] = "OfferCancel"
  BY DEF OrdersCancelled
<1>2. parseTransaction(t, None, None)
        = [type |-> "orderCancellation",
           specification |-> [orderSequence |-> t.OfferSequence]]
  BY <1>1 DEF parseTransaction, parseTransactionType, parseOrderCancellation
<1>3. O!setCanonicalFlag(O!createOrderCancellationTransaction(t.Account, t.OfferSequence)) = t
  BY CancellationSpelled DEF OrdersCancelled
<1> QED
  BY <1>2, <1>3 DEF Recreates, PreparedOf

LEMMA OrderAgain ==
  ASSUME OrderSentInv, order # None, order.TransactionType = "OfferCreate" => order.OfferSequence = 0
  PROVE  Recreates(order.Account, order)
<1>1. CASE order \in OrdersPlaced
  BY <1>1, PlacedAgain DEF OrdersPlaced
<1>2. CASE order \in OrdersCancelled
  BY <1>2, CancelledAgain
<1> QED
  BY <1>1, <1>2 DEF OrderSentInv

(* ------------------------- An escrow once more ------------------------- *)

(* The transactions about escrows.  A time that a ledger accepts is after  *)
(* that of the ledger, so never the 0 that reads as absent.                *)
Time == Nat \ {0}
MaybeTime == {undefined} \cup Time
InOrderOfTime(cancel, finish) == cancel # undefined /\ finish # undefined => finish < cancel
EscrowsMade ==
  {t \in [TransactionType : {"EscrowCreate"}, Destination : {"payee"}, Amount : Int,
          Condition : {undefined, "", "c"}, CancelAfter : MaybeTime, FinishAfter : MaybeTime] :
     InOrderOfTime(t.CancelAfter, t.FinishAfter)}
EscrowsExecuted ==
  {t \in [TransactionType : {"EscrowFinish"}, Owner : {"payer"}, OfferSequence : E!Sequences,
          Condition : {undefined, "", "c"}, Fulfillment : {undefined, "f"}] :
     E!Truthy(t.Condition) = E!Truthy(t.Fulfillment)}
EscrowsCancelled ==
  [TransactionType : {"EscrowCancel"}, Owner : {"payer"}, OfferSequence : E!Sequences]

EscrowSentInv ==
  /\ closeTime \in Time
  /\ validated # E!None =>
       validated.tx \in EscrowsMade \cup EscrowsExecuted \cup EscrowsCancelled

LEMMA DropsAgain ==
  /\ \A value \in Int : E!xrpToDrops(value) \in Int
  /\ \A drops \in Int : E!xrpToDrops(E!dropsToXrp(drops)) = drops
BY DEF E!xrpToDrops, E!dropsToXrp, E!Tenths

LEMMA EscrowTyped ==
  ASSUME NEW Conditions, NEW Times, NEW drops \in Int, NEW condition \in Conditions,
         NEW cancel \in Times, NEW finish \in Times
  PROVE  [TransactionType |-> "EscrowCreate", Destination |-> "payee", Amount |-> drops,
          Condition |-> condition, CancelAfter |-> cancel, FinishAfter |-> finish]
            \in [TransactionType : {"EscrowCreate"}, Destination : {"payee"}, Amount : Int,
                Condition : Conditions, CancelAfter : Times, FinishAfter : Times]
OBVIOUS

LEMMA EscrowMadeSent ==
  ASSUME EscrowSentInv, NEW spec \in E!Creations, NEW t,
         t = E!createEscrowCreationTransaction(spec),
         "TransactionType" \in DOMAIN t, E!AcceptsCreation(t)
  PROVE  t \in EscrowsMade
<1> DEFINE cancel == spec.allowCancelAfter
           finish == spec.allowExecuteAfter
           keptCancel == E!Optional(cancel, E!iso8601ToRippleTime)
           keptFinish == E!Optional(finish, E!iso8601ToRippleTime)
           drops == E!xrpToDrops(spec.amount)
           condition == spec.condition
<1>1. t # E!ValidationError
  BY DEF E!ValidationError
<1>2. t = [TransactionType |-> "EscrowCreate", Destination |-> spec.destination,
           Amount |-> drops, Condition |-> condition,
           CancelAfter |-> keptCancel, FinishAfter |-> keptFinish]
  BY <1>1, Zenon DEF E!createEscrowCreationTransaction
<1>3. /\ spec.destination = "payee" /\ spec.amount \in Int
      /\ condition \in {undefined, "", "c"}
      /\ cancel = undefined \/ cancel \in Int
      /\ finish = undefined \/ finish \in Int
  BY NumbersAssumption DEF E!Creations
<1>4. drops \in Int
  BY <1>3, DropsAgain
<1>5. closeTime \in Int /\ closeTime >= 1
  BY DEF EscrowSentInv, Time
<1>6. ASSUME NEW time, time = undefined \/ time \in Int,
             NEW kept, kept = E!Optional(time, E!iso8601ToRippleTime),
             kept # undefined => closeTime < kept
      PROVE  kept \in {undefined} \cup Time
  <2>1. CASE time = undefined
    BY <1>6, <2>1 DEF E!Optional
  <2>2. CASE time # undefined
    <3>1. kept = E!iso8601ToRippleTime(time) /\ kept \in Int
      BY <1>6, <2>2 DEF E!Optional, E!iso8601ToRippleTime
    <3>2. kept # undefined
      BY <3>1, NumbersAssumption
    <3> QED
      BY <1>5, <1>6, <3>1, <3>2 DEF Time
  <2> QED
    BY <2>1, <2>2
<1>7. /\ keptCancel # undefined => closeTime < keptCancel
      /\ keptFinish # undefined => closeTime < keptFinish
      /\ keptCancel # undefined /\ keptFinish # undefined => keptFinish < keptCancel
  <2> HIDE DEF keptCancel, keptFinish, drops
  <2>1. t.CancelAfter = keptCancel /\ t.FinishAfter = keptFinish
    BY <1>2
  <2>2. /\ t.CancelAfter # undefined => closeTime < t.CancelAfter
        /\ t.FinishAfter # undefined => closeTime < t.FinishAfter
        /\ t.CancelAfter # undefined /\ t.FinishAfter # undefined =>
             t.FinishAfter < t.CancelAfter
    BY DEF E!AcceptsCreation
  <2> QED
    BY <2>1, <2>2
<1>8. keptCancel \in {undefined} \cup Time /\ keptFinish \in {undefined} \cup Time
  <2> HIDE DEF cancel, finish
  <2> QED
    BY <1>3, <1>6, <1>7
<1> HIDE DEF cancel, finish, keptCancel, keptFinish, drops, condition
<1>9. InOrderOfTime(keptCancel, keptFinish) /\ keptCancel \in MaybeTime
      /\ keptFinish \in MaybeTime
  BY <1>7, <1>8 DEF InOrderOfTime, MaybeTime
<1>10. t \in [TransactionType : {"EscrowCreate"}, Destination : {"payee"}, Amount : Int,
              Condition : {undefined, "", "c"}, CancelAfter : MaybeTime,
              FinishAfter : MaybeTime]
  <2> DEFINE Conditions == {undefined, "", "c"}
             made == [TransactionType |-> "EscrowCreate", Destination |-> "payee",
                      Amount |-> drops, Condition |-> condition,
                      CancelAfter |-> keptCancel, FinishAfter |-> keptFinish]
  <2>1. t = made
    BY <1>2, <1>3, Zenon
  <2>2. condition \in Conditions
    BY <1>3
  <2> HIDE DEF Conditions
  <2>3. made \in [TransactionType : {"EscrowCreate"}, Destination : {"payee"}, Amount : Int,
                 Condition : Conditions, CancelAfter : MaybeTime, FinishAfter : MaybeTime]
    BY <1>4, <1>9, <2>2, EscrowTyped
  <2> QED
    BY <2>1, <2>3, Zenon DEF Conditions
<1>11. t.CancelAfter = keptCancel /\ t.FinishAfter = keptFinish
  BY <1>2
<1> QED
  BY <1>9, <1>10, <1>11, Zenon DEF EscrowsMade

LEMMA EscrowSent ==
  ASSUME EscrowInv, EscrowSentInv, E!Validated
  PROVE  EscrowSentInv'
<1> DEFINE t == prepared.tx
<1>1. /\ prepared # E!None /\ "TransactionType" \in DOMAIN t /\ E!Accepts(t)
      /\ closeTime' = closeTime /\ validated'.tx = t
  BY DEF E!Validated, E!IsTransaction
<1>2. CASE \E spec \in E!Creations :
             prepared = [spec |-> spec, tx |-> E!createEscrowCreationTransaction(spec)]
  <2>1. PICK spec \in E!Creations :
          prepared = [spec |-> spec, tx |-> E!createEscrowCreationTransaction(spec)]
    BY <1>2
  <2>2. t = E!createEscrowCreationTransaction(spec)
    BY <2>1
  <2>3. t.TransactionType = "EscrowCreate"
    BY <1>1, <2>2, CreationFacts
  <2>4. E!AcceptsCreation(t)
    BY <1>1, <2>3 DEF E!Accepts
  <2>5. t \in EscrowsMade
    <3> HIDE DEF t
    <3> QED
      BY <1>1, <2>2, <2>4, EscrowMadeSent
  <2> QED
    BY <1>1, <2>5 DEF EscrowSentInv
<1>3. CASE \E spec \in E!Executions :
             prepared = [spec |-> spec, tx |-> E!createEscrowExecutionTransaction(spec)]
  <2>1. PICK spec \in E!Executions :
          prepared = [spec |-> spec, tx |-> E!createEscrowExecutionTransaction(spec)]
    BY <1>3
  <2>2. t # E!ReferenceError
    BY <1>1 DEF E!ReferenceError
  <2>3. /\ E!Truthy(spec.condition) = E!Truthy(spec.fulfillment)
        /\ t = [TransactionType |-> "EscrowFinish", Owner |-> spec.owner,
                OfferSequence |-> spec.escrowSequence, Condition |-> spec.condition,
                Fulfillment |-> spec.fulfillment]
    BY <2>1, <2>2 DEF E!createEscrowExecutionTransaction, E!Truthy
  <2>4. t \in EscrowsExecuted
    <3>1. /\ spec.owner = "payer" /\ spec.escrowSequence \in E!Sequences
          /\ spec.condition \in {undefined, "", "c"} /\ spec.fulfillment \in {undefined, "f"}
      BY DEF E!Executions
    <3> DEFINE condition == spec.condition
               fulfillment == spec.fulfillment
    <3>2. /\ E!Truthy(condition) = E!Truthy(fulfillment)
          /\ t = [TransactionType |-> "EscrowFinish", Owner |-> "payer",
                  OfferSequence |-> spec.escrowSequence, Condition |-> condition,
                  Fulfillment |-> fulfillment]
      BY <2>3, <3>1
    <3> HIDE DEF condition, fulfillment, t
    <3>3. t.Condition = condition /\ t.Fulfillment = fulfillment
      BY <3>2
    <3>4. E!Truthy(t.Condition) = E!Truthy(t.Fulfillment)
      BY <3>2, <3>3, Zenon
    <3> QED
      BY <3>1, <3>2, <3>4 DEF EscrowsExecuted, condition, fulfillment
  <2> QED
    BY <1>1, <2>4 DEF EscrowSentInv
<1>4. CASE \E spec \in E!Cancellations :
             prepared = [spec |-> spec, tx |-> E!createEscrowCancellationTransaction(spec)]
  <2>1. PICK spec \in E!Cancellations :
          prepared = [spec |-> spec, tx |-> E!createEscrowCancellationTransaction(spec)]
    BY <1>4
  <2>2. t \in EscrowsCancelled
    BY <2>1 DEF EscrowsCancelled, E!Cancellations, E!createEscrowCancellationTransaction
  <2> QED
    BY <1>1, <2>2 DEF EscrowSentInv
<1> QED
  BY <1>1, <1>2, <1>3, <1>4 DEF EscrowInv, PreparedInv

LEMMA EscrowSentStep == EscrowInv /\ EscrowSentInv /\ [Next]_vars => EscrowSentInv'
<1> SUFFICES ASSUME EscrowInv, EscrowSentInv, [Next]_vars PROVE EscrowSentInv'
  OBVIOUS
<1>1. CASE UNCHANGED <<closeTime, validated>>
  BY <1>1 DEF EscrowSentInv
<1>2. CASE E!Validated
  BY <1>2, EscrowSent
<1>3. CASE E!LedgerCloses
  BY <1>3 DEF E!LedgerCloses, EscrowSentInv, Time
<1>4. CASE E!PrepareEscrowCreation \/ E!PrepareEscrowExecution \/ E!PrepareEscrowCancellation
  BY <1>1, <1>4 DEF E!PrepareEscrowCreation, E!PrepareEscrowExecution,
                    E!PrepareEscrowCancellation, E!Prepare
<1> QED
  BY <1>1, <1>2, <1>3, <1>4
  DEF Next, Pay, Trade, Set, Hold, Claim, vars, escrowVars, E!Next

(* A time of the ledger is read and given to the ledger again.             *)
LEMMA TimesAgain ==
  ASSUME NEW time \in {undefined} \cup Time
  PROVE  /\ E!Optional(E!parseTimestamp(time), E!iso8601ToRippleTime) = time
         /\ E!parseTimestamp(time) = undefined <=> time = undefined
         /\ time # undefined => E!iso8601ToRippleTime(E!parseTimestamp(time)) = time
<1>1. CASE time = undefined
  BY <1>1 DEF E!parseTimestamp, E!Optional
<1>2. CASE time # undefined
  <2>1. time \in Int /\ time # 0 /\ time # undefined
    BY <1>2 DEF Time
  <2>2. E!parseTimestamp(time) = 4 * time
    BY <2>1, Zenon DEF E!parseTimestamp, E!rippleTimeToISO8601
  <2>3. E!iso8601ToRippleTime(4 * time) = time
    BY <2>1 DEF E!iso8601ToRippleTime
  <2>4. 4 * time # undefined
    BY <2>1, NumbersAssumption
  <2> QED
    BY <1>2, <2>2, <2>3, <2>4, Zenon DEF E!Optional
<1> QED
  BY <1>1, <1>2

LEMMA EscrowMadeAgain ==
  ASSUME NEW t \in EscrowsMade PROVE Recreates(None, t)
<1> DEFINE spec == E!parseEscrowCreation(t)
<1>1. /\ t = [TransactionType |-> "EscrowCreate", Destination |-> t.Destination,
              Amount |-> t.Amount, Condition |-> t.Condition,
              CancelAfter |-> t.CancelAfter, FinishAfter |-> t.FinishAfter]
      /\ t.TransactionType = "EscrowCreate" /\ t.Amount \in Int
      /\ t.CancelAfter \in {undefined} \cup Time /\ t.FinishAfter \in {undefined} \cup Time
      /\ t.CancelAfter # undefined /\ t.FinishAfter # undefined =>
           t.FinishAfter < t.CancelAfter
  BY DEF EscrowsMade, MaybeTime, InOrderOfTime
<1>2. parseTransaction(t, None, None) = [type |-> "escrowCreation", specification |-> spec]
  BY <1>1 DEF parseTransaction, parseTransactionType, spec
<1>3. /\ spec.amount = E!dropsToXrp(t.Amount) /\ spec.destination = t.Destination
      /\ spec.condition = t.Condition
      /\ spec.allowCancelAfter = E!parseTimestamp(t.CancelAfter)
      /\ spec.allowExecuteAfter = E!parseTimestamp(t.FinishAfter)
  BY DEF E!parseEscrowCreation
<1> HIDE DEF spec
<1>4. ~(/\ spec.allowCancelAfter # undefined /\ spec.allowExecuteAfter # undefined
        /\ E!Contradicts(spec))
  <2> SUFFICES ASSUME spec.allowCancelAfter # undefined, spec.allowExecuteAfter # undefined
               PROVE  ~E!Contradicts(spec)
    OBVIOUS
  <2>1. t.CancelAfter # undefined /\ t.FinishAfter # undefined
    BY <1>1, <1>3, TimesAgain
  <2>2. /\ E!iso8601ToRippleTime(spec.allowCancelAfter) = t.CancelAfter
        /\ E!iso8601ToRippleTime(spec.allowExecuteAfter) = t.FinishAfter
    BY <1>1, <1>3, <2>1, TimesAgain
  <2>3. t.CancelAfter \in Int /\ t.FinishAfter \in Int /\ t.FinishAfter < t.CancelAfter
    BY <1>1, <2>1 DEF Time
  <2> QED
    BY <2>2, <2>3 DEF E!Contradicts
<1>5. E!createEscrowCreationTransaction(spec)
        = [TransactionType |-> "EscrowCreate", Destination |-> spec.destination,
           Amount |-> E!xrpToDrops(spec.amount), Condition |-> spec.condition,
           CancelAfter |-> E!Optional(spec.allowCancelAfter, E!iso8601ToRippleTime),
           FinishAfter |-> E!Optional(spec.allowExecuteAfter, E!iso8601ToRippleTime)]
  BY <1>4, Zenon DEF E!createEscrowCreationTransaction
<1>6. /\ E!xrpToDrops(spec.amount) = t.Amount
      /\ E!Optional(spec.allowCancelAfter, E!iso8601ToRippleTime) = t.CancelAfter
      /\ E!Optional(spec.allowExecuteAfter, E!iso8601ToRippleTime) = t.FinishAfter
  BY <1>1, <1>3, TimesAgain, DropsAgain
<1>7. E!createEscrowCreationTransaction(spec) = t
  BY <1>1, <1>3, <1>5, <1>6, Zenon
<1> QED
  BY <1>2, <1>7 DEF Recreates, PreparedOf

LEMMA EscrowAgain ==
  ASSUME EscrowSentInv, validated # None PROVE Recreates(None, validated.tx)
<1> DEFINE t == validated.tx
<1>1. CASE t \in EscrowsMade
  BY <1>1, EscrowMadeAgain
<1>2. CASE t \in EscrowsExecuted
  <2> DEFINE spec == E!parseEscrowExecution(t)
  <2>1. /\ t = [TransactionType |-> "EscrowFinish", Owner |-> t.Owner,
                OfferSequence |-> t.OfferSequence, Condition |-> t.Condition,
                Fulfillment |-> t.Fulfillment]
        /\ t.TransactionType = "EscrowFinish"
        /\ E!Truthy(t.Condition) = E!Truthy(t.Fulfillment)
    BY <1>2 DEF EscrowsExecuted
  <2>2. parseTransaction(t, None, None)
          = [type |-> "escrowExecution", specification |-> spec]
    BY <2>1 DEF parseTransaction, parseTransactionType, spec
  <2>3. E!createEscrowExecutionTransaction(spec) = t
    <3> HIDE DEF t
    <3> QED
      BY <2>1 DEF E!createEscrowExecutionTransaction, E!parseEscrowExecution
  <2> QED
    BY <2>2, <2>3 DEF Recreates, PreparedOf
<1>3. CASE t \in EscrowsCancelled
  <2> DEFINE spec == E!parseEscrowCancellation(t)
  <2>1. /\ t = [TransactionType |-> "EscrowCancel", Owner |-> t.Owner,
                OfferSequence |-> t.OfferSequence]
        /\ t.TransactionType = "EscrowCancel"
    BY <1>3 DEF EscrowsCancelled
  <2>2. parseTransaction(t, None, None)
          = [type |-> "escrowCancellation", specification |-> spec]
    BY <2>1 DEF parseTransaction, parseTransactionType, spec
  <2>3. E!createEscrowCancellationTransaction(spec) = t
    BY <2>1 DEF E!createEscrowCancellationTransaction, E!parseEscrowCancellation
  <2> QED
    BY <2>2, <2>3 DEF Recreates, PreparedOf
<1> QED
  BY <1>1, <1>2, <1>3 DEF EscrowSentInv, None, E!None

(* ------------------------- A channel once more ------------------------- *)

(* The transactions about channels.                                        *)
MaybeDrops == {undefined} \cup Int
ChannelsMade ==
  [TransactionType : {"PaymentChannelCreate"}, Amount : Int, Destination : {"payee"},
   SettleDelay : {1}, PublicKey : {"payer's"}, CancelAfter : MaybeTime]
ChannelsFunded ==
  [TransactionType : {"PaymentChannelFund"}, Amount : Int, Expiration : MaybeTime]
IsClaim(t) ==
  /\ t = [TransactionType |-> "PaymentChannelClaim", Balance |-> t.Balance,
          Amount |-> t.Amount, Signature |-> t.Signature, PublicKey |-> t.PublicKey,
          Flags |-> t.Flags]
  /\ t.TransactionType = "PaymentChannelClaim"
  /\ t.Balance \in MaybeDrops /\ t.Amount \in MaybeDrops
  /\ (t.Signature = undefined) = (t.PublicKey = undefined)
  /\ t.Flags \in SUBSET {16, 17} /\ t.Flags # {16, 17}

ClaimSentInv ==
  claimed # C!None => claimed \in ChannelsMade \cup ChannelsFunded \/ IsClaim(claimed)

LEMMA TimeKept ==
  \A time \in {undefined} \cup ChannelTimes :
    C!Optional(time, C!iso8601ToRippleTime) \in MaybeTime
<1>1. \A time \in ChannelTimes : C!iso8601ToRippleTime(time) \in Time /\ time # undefined
  BY RoundedTimes DEF TimeOk, Time
<1>2. C!Optional(undefined, C!iso8601ToRippleTime) = undefined
  BY DEF C!Optional
<1>3. ASSUME NEW time \in ChannelTimes
      PROVE  C!Optional(time, C!iso8601ToRippleTime) = C!iso8601ToRippleTime(time)
  BY <1>1 DEF C!Optional
<1> QED
  BY <1>1, <1>2, <1>3 DEF MaybeTime

LEMMA DropsKept ==
  \A amount \in {undefined} \cup ChannelAmounts :
    C!Optional(amount, C!xrpToDrops) \in MaybeDrops
<1>1. C!Optional(undefined, C!xrpToDrops) = undefined
  BY DEF C!Optional
<1>2. ASSUME NEW amount \in ChannelAmounts
      PROVE  C!Optional(amount, C!xrpToDrops) = C!xrpToDrops(amount)
  BY RoundedDrops DEF C!Optional
<1> QED
  BY <1>1, <1>2, RoundedDrops DEF MaybeDrops

LEMMA ChannelMadeSent ==
  ASSUME C!Creates PROVE claimed' \in ChannelsMade
<1>1. PICK amount \in ChannelAmounts, cancelAfter \in {undefined} \cup ChannelTimes :
        C!IncludeCreate([amount |-> amount, destination |-> "payee",
                         settleDelay |-> 1, publicKey |-> C!Key,
                         cancelAfter |-> cancelAfter])
  BY DEF C!Creates
<1> DEFINE drops == C!xrpToDrops(amount)
           kept == C!Optional(cancelAfter, C!iso8601ToRippleTime)
<1>2. claimed' = [TransactionType |-> "PaymentChannelCreate", Amount |-> drops,
                  Destination |-> "payee", SettleDelay |-> 1, PublicKey |-> "payer's",
                  CancelAfter |-> kept]
  BY <1>1 DEF C!IncludeCreate, C!Include, C!createPaymentChannelCreateTransaction, C!Key
<1>3. drops \in Int /\ kept \in MaybeTime
  BY RoundedDrops, TimeKept
<1> HIDE DEF drops, kept
<1> QED
  BY <1>2, <1>3 DEF ChannelsMade

LEMMA ChannelFundedSent ==
  ASSUME C!Funds PROVE claimed' \in ChannelsFunded
<1>1. PICK amount \in ChannelAmounts, expiration \in {undefined} \cup ChannelTimes :
        C!IncludeFund([amount |-> amount, expiration |-> expiration])
  BY DEF C!Funds
<1> DEFINE drops == C!xrpToDrops(amount)
           kept == C!Optional(expiration, C!iso8601ToRippleTime)
<1>2. claimed' = [TransactionType |-> "PaymentChannelFund", Amount |-> drops,
                  Expiration |-> kept]
  BY <1>1 DEF C!IncludeFund, C!Include, C!createPaymentChannelFundTransaction
<1>3. drops \in Int /\ kept \in MaybeTime
  BY RoundedDrops, TimeKept
<1> HIDE DEF drops, kept
<1> QED
  BY <1>2, <1>3 DEF ChannelsFunded

LEMMA ClaimSpelled ==
  ASSUME NEW spec, (spec.signature = undefined) = (spec.publicKey = undefined),
         ~({"renew", "close"} \subseteq spec.options),
         NEW drawn, drawn = C!Optional(spec.balance, C!xrpToDrops),
         NEW amount, amount = C!Optional(spec.amount, C!xrpToDrops),
         NEW flags, flags = C!Flag("renew" \in spec.options, 16)
                              \cup C!Flag("close" \in spec.options, 17)
  PROVE  C!createPaymentChannelClaimTransaction(spec)
           = [TransactionType |-> "PaymentChannelClaim", Balance |-> drawn,
              Amount |-> amount, Signature |-> spec.signature,
              PublicKey |-> spec.publicKey, Flags |-> flags]
<1>1. C!claimFlags.Renew = 16 /\ C!claimFlags.Close = 17
  BY DEF C!claimFlags
<1>2. ~((spec.signature = undefined) # (spec.publicKey = undefined)
          \/ {"renew", "close"} \subseteq spec.options)
  OBVIOUS
<1> QED
  BY <1>1, <1>2, Zenon DEF C!createPaymentChannelClaimTransaction

LEMMA ClaimMadeSent ==
  ASSUME C!ClaimsSome PROVE IsClaim(claimed')
<1>1. PICK by \in C!Parties, spec \in C!Claims : C!IncludeClaim(by, spec)
  BY DEF C!ClaimsSome
<1> DEFINE t == C!createPaymentChannelClaimTransaction(spec)
           drawn == C!Optional(spec.balance, C!xrpToDrops)
           amount == C!Optional(spec.amount, C!xrpToDrops)
           renews == "renew" \in spec.options
           closes == "close" \in spec.options
           flags == C!Flag(renews, 16) \cup C!Flag(closes, 17)
<1>2. t # C!ValidationError /\ claimed' = t
  BY <1>1 DEF C!IncludeClaim, C!Include
<1>3. /\ (spec.signature = undefined) = (spec.publicKey = undefined)
      /\ ~({"renew", "close"} \subseteq spec.options)
  BY <1>2, Zenon DEF C!createPaymentChannelClaimTransaction
<1>4. spec.balance \in {undefined} \cup ChannelAmounts
      /\ spec.amount \in {undefined} \cup ChannelAmounts
  BY DEF C!Claims
<1>5. drawn \in MaybeDrops /\ amount \in MaybeDrops
  BY <1>4, DropsKept
<1>6. flags \in SUBSET {16, 17} /\ flags # {16, 17}
  <2>1. ~(renews /\ closes)
    BY <1>3
  <2> HIDE DEF renews, closes
  <2> QED
    BY <2>1 DEF C!Flag
<1> HIDE DEF drawn, amount, flags
<1>7. t = [TransactionType |-> "PaymentChannelClaim", Balance |-> drawn,
           Amount |-> amount, Signature |-> spec.signature,
           PublicKey |-> spec.publicKey, Flags |-> flags]
  BY <1>3, ClaimSpelled DEF drawn, amount, flags
<1> HIDE DEF t
<1>8. /\ t.TransactionType = "PaymentChannelClaim" /\ t.Balance = drawn
      /\ t.Amount = amount /\ t.Signature = spec.signature
      /\ t.PublicKey = spec.publicKey /\ t.Flags = flags
  BY <1>7
<1>9. IsClaim(t)
  BY <1>3, <1>5, <1>6, <1>7, <1>8, Zenon DEF IsClaim
<1> QED
  BY <1>2, <1>9

LEMMA ClaimSentStep == ClaimSentInv /\ [Next]_vars => ClaimSentInv'
<1> SUFFICES ASSUME ClaimSentInv, [Next]_vars PROVE ClaimSentInv'
  OBVIOUS
<1>1. CASE UNCHANGED claimed
  BY <1>1 DEF ClaimSentInv, IsClaim
<1>2. CASE C!Creates
  BY <1>2, ChannelMadeSent DEF ClaimSentInv
<1>3. CASE C!Funds
  BY <1>3, ChannelFundedSent DEF ClaimSentInv
<1>4. CASE C!ClaimsSome
  BY <1>4, ClaimMadeSent DEF ClaimSentInv
<1>5. CASE C!Signs \/ C!LedgerCloses
  BY <1>1, <1>5 DEF C!Signs, C!LedgerCloses
<1> QED
  BY <1>1, <1>2, <1>3, <1>4, <1>5
  DEF Next, Pay, Trade, Set, Hold, Claim, vars, channelVars, C!Next

(* Times and drops of the ledger are read and given to the ledger again.   *)
LEMMA ChannelTimesAgain ==
  ASSUME NEW time \in MaybeTime
  PROVE  C!Optional(C!parseTimestamp(time), C!iso8601ToRippleTime) = time
<1>1. CASE time = undefined
  BY <1>1 DEF C!parseTimestamp, C!Optional
<1>2. CASE time # undefined
  <2>1. time \in Int /\ time # 0 /\ time # undefined
    BY <1>2 DEF MaybeTime, Time
  <2>2. C!parseTimestamp(time) = 4 * time
    BY <2>1, Zenon DEF C!parseTimestamp, C!rippleTimeToISO8601
  <2>3. C!iso8601ToRippleTime(4 * time) = time
    BY <2>1 DEF C!iso8601ToRippleTime
  <2>4. 4 * time # undefined
    BY <2>1, NumbersAssumption
  <2> QED
    BY <2>2, <2>3, <2>4, Zenon DEF C!Optional
<1> QED
  BY <1>1, <1>2

LEMMA ChannelDropsAgain ==
  /\ \A drops \in Int : C!xrpToDrops(C!dropsToXrp(drops)) = drops
  /\ \A drops \in MaybeDrops :
       C!Optional(C!Optional(drops, C!dropsToXrp), C!xrpToDrops) = drops
<1>1. \A drops \in Int : /\ C!xrpToDrops(C!dropsToXrp(drops)) = drops
                         /\ C!dropsToXrp(drops) \in Int
  BY DEF C!xrpToDrops, C!dropsToXrp, C!Tenths
<1>2. ASSUME NEW drops \in MaybeDrops
      PROVE  C!Optional(C!Optional(drops, C!dropsToXrp), C!xrpToDrops) = drops
  <2>1. CASE drops = undefined
    BY <2>1 DEF C!Optional
  <2>2. CASE drops # undefined
    <3>1. drops \in Int
      BY <2>2 DEF MaybeDrops
    <3>2. C!dropsToXrp(drops) # undefined
      BY <1>1, <3>1, NumbersAssumption
    <3> QED
      BY <1>1, <2>2, <3>1, <3>2, Zenon DEF C!Optional
  <2> QED
    BY <2>1, <2>2
<1> QED
  BY <1>1, <1>2

LEMMA ChannelMadeAgain ==
  ASSUME NEW t \in ChannelsMade PROVE Recreates(None, t)
<1> DEFINE spec == C!parsePaymentChannelCreate(t)
<1>1. /\ t = [TransactionType |-> "PaymentChannelCreate", Amount |-> t.Amount,
              Destination |-> t.Destination, SettleDelay |-> t.SettleDelay,
              PublicKey |-> t.PublicKey, CancelAfter |-> t.CancelAfter]
      /\ t.TransactionType = "PaymentChannelCreate" /\ t.Amount \in Int
      /\ t.CancelAfter \in MaybeTime
  BY DEF ChannelsMade
<1>2. parseTransaction(t, None, None)
        = [type |-> "paymentChannelCreate", specification |-> spec]
  BY <1>1 DEF parseTransaction, parseTransactionType, spec
<1>3. /\ spec.amount = C!dropsToXrp(t.Amount) /\ spec.destination = t.Destination
      /\ spec.settleDelay = t.SettleDelay /\ spec.publicKey = t.PublicKey
      /\ spec.cancelAfter = C!parseTimestamp(t.CancelAfter)
  BY DEF C!parsePaymentChannelCreate
<1> HIDE DEF spec
<1>4. /\ C!xrpToDrops(spec.amount) = t.Amount
      /\ C!Optional(spec.cancelAfter, C!iso8601ToRippleTime) = t.CancelAfter
  BY <1>1, <1>3, ChannelTimesAgain, ChannelDropsAgain
<1>5. C!createPaymentChannelCreateTransaction(spec) = t
  BY <1>1, <1>3, <1>4, Zenon DEF C!createPaymentChannelCreateTransaction
<1> QED
  BY <1>2, <1>5 DEF Recreates, PreparedOf

LEMMA ChannelFundedAgain ==
  ASSUME NEW t \in ChannelsFunded PROVE Recreates(None, t)
<1> DEFINE spec == C!parsePaymentChannelFund(t)
<1>1. /\ t = [TransactionType |-> "PaymentChannelFund", Amount |-> t.Amount,
              Expiration |-> t.Expiration]
      /\ t.TransactionType = "PaymentChannelFund" /\ t.Amount \in Int
      /\ t.Expiration \in MaybeTime
  BY DEF ChannelsFunded
<1>2. parseTransaction(t, None, None)
        = [type |-> "paymentChannelFund", specification |-> spec]
  BY <1>1 DEF parseTransaction, parseTransactionType, spec
<1>3. /\ spec.amount = C!dropsToXrp(t.Amount)
      /\ spec.expiration = C!parseTimestamp(t.Expiration)
  BY DEF C!parsePaymentChannelFund
<1> HIDE DEF spec
<1>4. /\ C!xrpToDrops(spec.amount) = t.Amount
      /\ C!Optional(spec.expiration, C!iso8601ToRippleTime) = t.Expiration
  BY <1>1, <1>3, ChannelTimesAgain, ChannelDropsAgain
<1>5. C!createPaymentChannelFundTransaction(spec) = t
  BY <1>1, <1>3, <1>4, Zenon DEF C!createPaymentChannelFundTransaction
<1> QED
  BY <1>2, <1>5 DEF Recreates, PreparedOf

LEMMA ClaimMadeAgain ==
  ASSUME NEW t, IsClaim(t) PROVE Recreates(None, t)
<1> DEFINE spec == C!parsePaymentChannelClaim(t)
           flags == t.Flags
<1>1. parseTransaction(t, None, None)
        = [type |-> "paymentChannelClaim", specification |-> spec]
  <2>1. t["TransactionType"] = "PaymentChannelClaim"
    BY DEF IsClaim
  <2> QED
    BY <2>1 DEF parseTransaction, parseTransactionType, spec
<1>2. /\ spec.balance = C!Optional(t.Balance, C!dropsToXrp)
      /\ spec.amount = C!Optional(t.Amount, C!dropsToXrp)
      /\ spec.signature = t.Signature /\ spec.publicKey = t.PublicKey
      /\ spec.options = (IF 16 \in flags THEN {"renew"} ELSE {})
                          \cup (IF 17 \in flags THEN {"close"} ELSE {})
  <2>1. C!claimFlags.Renew = 16 /\ C!claimFlags.Close = 17
    BY DEF C!claimFlags
  <2> QED
    BY <2>1, Zenon DEF C!parsePaymentChannelClaim
<1> HIDE DEF spec
<1>3. flags \in SUBSET {16, 17} /\ flags # {16, 17}
  BY DEF IsClaim
<1> HIDE DEF flags
<1>4. /\ "renew" \in spec.options <=> 16 \in flags
      /\ "close" \in spec.options <=> 17 \in flags
  BY <1>2
<1>5. ~({"renew", "close"} \subseteq spec.options)
  BY <1>3, <1>4
<1>6. flags = C!Flag("renew" \in spec.options, 16) \cup C!Flag("close" \in spec.options, 17)
  BY <1>3, <1>4 DEF C!Flag
<1>7. /\ t.Balance = C!Optional(spec.balance, C!xrpToDrops)
      /\ t.Amount = C!Optional(spec.amount, C!xrpToDrops)
  BY <1>2, ChannelDropsAgain DEF IsClaim
<1>8. (spec.signature = undefined) = (spec.publicKey = undefined)
  BY <1>2, Zenon DEF IsClaim
<1>9. C!createPaymentChannelClaimTransaction(spec)
        = [TransactionType |-> "PaymentChannelClaim", Balance |-> t.Balance,
           Amount |-> t.Amount, Signature |-> spec.signature,
           PublicKey |-> spec.publicKey, Flags |-> flags]
  BY <1>5, <1>6, <1>7, <1>8, ClaimSpelled, Zenon
<1>10. C!createPaymentChannelClaimTransaction(spec) = t
  BY <1>2, <1>9, Zenon DEF IsClaim, flags
<1> QED
  BY <1>1, <1>10 DEF Recreates, PreparedOf

LEMMA ClaimAgain ==
  ASSUME ClaimSentInv, claimed # None PROVE Recreates(None, claimed)
BY ChannelMadeAgain, ChannelFundedAgain, ClaimMadeAgain DEF ClaimSentInv, None, C!None

(* ------------------------ A payment once more -------------------------- *)

(* A payment is signed canonically.                                        *)
PaymentSentInv ==
  payment # P!None /\ payment # P!ValidationError => 31 \in payment.Flags

LEMMA PaymentSent ==
  ASSUME PaymentInv, P!Pays PROVE PaymentSentInv'
<1>1. PICK address \in {Payer, Payee},
           specification \in IF paths = P!None THEN P!Payments ELSE P!FoundPaths :
        P!PreparePayment(address, specification)
  BY DEF P!Pays
<1> DEFINE t == P!createPaymentTransaction(address, specification)
<1>2. payment' = IF t = P!ValidationError THEN t ELSE P!setCanonicalFlag(t)
  BY <1>1 DEF P!PreparePayment
<1>3. specification \in Payables
  <2>1. CASE specification \in P!Payments
    BY <2>1, PaymentsPayable
  <2>2. CASE specification \in P!FoundPaths
    <3>1. "paths" \in DOMAIN found /\ specification \in found.paths
      BY <2>2 DEF P!FoundPaths
    <3> QED
      BY <3>1 DEF PaymentInv, Found, PayableAs
  <2> QED
    BY <1>1, <2>1, <2>2
<1>4. t # P!ValidationError => PaymentTyped(t)
  BY <1>3, PreparedFacts
<1> HIDE DEF t
<1>5. ASSUME t # P!ValidationError PROVE 31 \in P!setCanonicalFlag(t).Flags
  <2>1. "Flags" \in DOMAIN t
    BY <1>4, <1>5 DEF PaymentTyped
  <2> QED
    BY <2>1 DEF P!setCanonicalFlag, P!FullyCanonicalSig
<1> QED
  BY <1>2, <1>5 DEF PaymentSentInv

LEMMA PaymentSentStep == PaymentInv /\ PaymentSentInv /\ [Next]_vars => PaymentSentInv'
<1> SUFFICES ASSUME PaymentInv, PaymentSentInv, [Next]_vars PROVE PaymentSentInv'
  OBVIOUS
<1>1. CASE UNCHANGED payment
  BY <1>1 DEF PaymentSentInv
<1>2. CASE P!Next
  <2>1. CASE P!Pays
    BY <2>1, PaymentSent
  <2>2. CASE P!AnswersPaths
    BY <1>1, <2>2 DEF P!AnswersPaths, P!PathsArrived
  <2>3. CASE P!BalanceArrived \/ P!BalanceChanges \/ P!Validated
    BY <1>1, <2>3 DEF P!BalanceArrived, P!BalanceChanges, P!Validated
  <2>4. CASE \E pathfind \in P!Pathfinds : P!GetPaths(pathfind)
    BY <1>1, <2>4 DEF P!GetPaths
  <2> QED
    BY <1>2, <2>1, <2>2, <2>3, <2>4 DEF P!Next
<1> QED
  BY <1>1, <1>2 DEF Next, Pay, Trade, Set, Hold, Claim, vars, payVars

(* The specification in a parsed payment.                                  *)
LEMMA PaymentParsed ==
  ASSUME NEW t, PaymentTyped(t)
  PROVE  LET spec == P!parsePayment(t)
             most == P!removeGenericCounterparty(
                       P!parseAmount(P!Or(t.SendMax, t.Amount)), Payer)
             whole == P!removeGenericCounterparty(P!parseAmount(t.Amount), Payee)
             text == IF t.Paths = undefined THEN undefined ELSE P!JSONtext(t.Paths)
         IN /\ spec \in Payables
            /\ spec.source.amount = undefined /\ spec.source.maxAmount = most
            /\ spec.destination.amount = whole /\ spec.destination.minAmount = undefined
            /\ spec.source.tag = t.SourceTag /\ spec.destination.tag = t.DestinationTag
            /\ spec.invoiceID = t.InvoiceID /\ spec.paths = text
            /\ "allowPartialPayment" \in spec.options <=> 17 \in t.Flags
            /\ "noDirectRipple" \in spec.options <=> 16 \in t.Flags
            /\ "limitQuality" \in spec.options <=> 18 \in t.Flags
<1> DEFINE spec == P!parsePayment(t)
           most == P!removeGenericCounterparty(
                     P!parseAmount(P!Or(t.SendMax, t.Amount)), Payer)
           whole == P!removeGenericCounterparty(P!parseAmount(t.Amount), Payee)
           text == IF t.Paths = undefined THEN undefined ELSE P!JSONtext(t.Paths)
           options == (IF 17 \in t.Flags THEN {"allowPartialPayment"} ELSE {})
                        \cup (IF 16 \in t.Flags THEN {"noDirectRipple"} ELSE {})
                        \cup (IF 18 \in t.Flags THEN {"limitQuality"} ELSE {})
<1>1. /\ t.Account = Payer /\ t.Destination = Payee /\ t.Amount \in RippledAmounts
      /\ t.InvoiceID = undefined /\ t.SourceTag = undefined
      /\ t.DestinationTag \in {undefined, 0}
      /\ t.SendMax = undefined \/ t.SendMax \in RippledAmounts
      /\ t.Paths = undefined \/ t.Paths \in Texts
  BY DEF PaymentTyped
<1>2. undefined \notin RippledAmounts /\ undefined \notin GivenAmounts
      /\ Payer \in Accounts /\ Payee \in Accounts
  BY AbsentAssumption DEF Accounts
<1>3. most \in GivenAmounts /\ whole \in GivenAmounts
  <2>1. P!Or(t.SendMax, t.Amount) \in RippledAmounts
    BY <1>1 DEF P!Or
  <2> QED
    BY <1>1, <1>2, <2>1, ReencodedFacts
<1>4. text \in {undefined} \cup [text : Texts]
  BY <1>1 DEF P!JSONtext
<1>5. P!isPartialPayment(t) <=> 17 \in t.Flags
  BY DEF P!isPartialPayment, P!PaymentFlags
<1>6. spec = [source |-> [address |-> Payer, amount |-> undefined, maxAmount |-> most,
                          tag |-> t.SourceTag],
              destination |-> [address |-> Payee, minAmount |-> undefined,
                               amount |-> whole, tag |-> t.DestinationTag],
              invoiceID |-> t.InvoiceID, paths |-> text, options |-> options]
  <2>1. P!PaymentFlags.NoRippleDirect = 16 /\ P!PaymentFlags.LimitQuality = 18
    BY DEF P!PaymentFlags
  <2> QED
    BY <1>1, <1>5, <2>1, Zenon DEF P!parsePayment
<1>7. /\ options \in SUBSET {"allowPartialPayment", "noDirectRipple", "limitQuality"}
      /\ "allowPartialPayment" \in options <=> 17 \in t.Flags
      /\ "noDirectRipple" \in options <=> 16 \in t.Flags
      /\ "limitQuality" \in options <=> 18 \in t.Flags
  OBVIOUS
<1> HIDE DEF spec, most, whole, text, options
<1>8. /\ spec.source.amount = undefined /\ spec.source.maxAmount = most
      /\ spec.destination.amount = whole /\ spec.destination.minAmount = undefined
      /\ spec.source.tag = t.SourceTag /\ spec.destination.tag = t.DestinationTag
      /\ spec.invoiceID = t.InvoiceID /\ spec.paths = text /\ spec.options = options
  BY <1>6
<1>9. spec \in Payables
  <2>1. most \in MaybeGiven /\ whole \in MaybeGiven /\ undefined \in MaybeGiven
        /\ most # undefined /\ whole # undefined
    BY <1>2, <1>3 DEF MaybeGiven
  <2>2. [address |-> Payer, amount |-> undefined, maxAmount |-> most, tag |-> t.SourceTag]
          \in [address : {Payer}, tag : {undefined}, amount : MaybeGiven,
               maxAmount : MaybeGiven]
    BY <1>1, <2>1
  <2>3. [address |-> Payee, minAmount |-> undefined, amount |-> whole,
         tag |-> t.DestinationTag]
          \in [address : {Payee}, tag : {undefined, 0}, amount : MaybeGiven,
               minAmount : MaybeGiven]
    BY <1>1, <2>1
  <2>4. spec \in [source : [address : {Payer}, tag : {undefined}, amount : MaybeGiven,
                            maxAmount : MaybeGiven],
                  destination : [address : {Payee}, tag : {undefined, 0},
                                 amount : MaybeGiven, minAmount : MaybeGiven],
                  paths : {undefined} \cup [text : Texts], invoiceID : {undefined},
                  options : SUBSET {"allowPartialPayment", "noDirectRipple",
                                    "limitQuality"}]
    BY <1>1, <1>4, <1>6, <1>7, <2>2, <2>3
  <2> QED
    BY <1>8, <2>1, <2>4 DEF Payables
<1> QED
  BY <1>7, <1>8, <1>9 DEF spec, most, whole, text

LEMMA PaymentCreatedAgain ==
  ASSUME NEW t, PaymentTyped(t), 31 \in t.Flags, t.DeliverMin = undefined
  PROVE  P!setCanonicalFlag(P!createPaymentTransaction(t.Account, P!parsePayment(t))) = t
<1> DEFINE spec == P!parsePayment(t)
           limit == P!Or(t.SendMax, t.Amount)
           most == P!removeGenericCounterparty(P!parseAmount(limit), Payer)
           whole == P!removeGenericCounterparty(P!parseAmount(t.Amount), Payee)
           sm == P!Encoded(most, Payer)
           da == P!Encoded(whole, Payee)
           text == IF t.Paths = undefined THEN undefined ELSE P!JSONtext(t.Paths)
           xrp == sm.currency = "XRP" /\ da.currency = "XRP"
           partial == "allowPartialPayment" \in spec.options
           flags == P!Flag("noDirectRipple" \in spec.options, 16)
                      \cup P!Flag("limitQuality" \in spec.options, 18)
                      \cup P!Flag(~xrp /\ partial, 17)
<1>1. /\ t = [TransactionType |-> "Payment", Account |-> Payer, Destination |-> Payee,
              Amount |-> t.Amount, InvoiceID |-> t.InvoiceID, SourceTag |-> t.SourceTag,
              DestinationTag |-> t.DestinationTag, Flags |-> t.Flags,
              SendMax |-> t.SendMax, DeliverMin |-> t.DeliverMin, Paths |-> t.Paths]
      /\ t.Account = Payer /\ t.Amount \in RippledAmounts
      /\ t.Flags \in SUBSET {16, 17, 18, 31}
      /\ t.SendMax = undefined \/ t.SendMax \in RippledAmounts
      /\ t.Paths = undefined \/ t.Paths \in Texts
      /\ t.SendMax = undefined =>
           P!isDrops(t.Amount) /\ 17 \notin t.Flags /\ t.Paths = undefined
      /\ t.SendMax # undefined => ~(P!isDrops(t.SendMax) /\ P!isDrops(t.Amount))
  BY DEF PaymentTyped
<1>2. undefined \notin RippledAmounts /\ undefined \notin GivenAmounts
      /\ Payer \in Accounts /\ Payee \in Accounts
  BY AbsentAssumption DEF Accounts
<1>3. /\ spec \in Payables
      /\ spec.source.amount = undefined /\ spec.source.maxAmount = most
      /\ spec.destination.amount = whole /\ spec.destination.minAmount = undefined
      /\ spec.source.tag = t.SourceTag /\ spec.destination.tag = t.DestinationTag
      /\ spec.invoiceID = t.InvoiceID /\ spec.paths = text
      /\ partial <=> 17 \in t.Flags
      /\ "noDirectRipple" \in spec.options <=> 16 \in t.Flags
      /\ "limitQuality" \in spec.options <=> 18 \in t.Flags
  BY PaymentParsed
<1>4. /\ limit \in RippledAmounts
      /\ t.SendMax # undefined => limit = t.SendMax
      /\ t.SendMax = undefined => limit = t.Amount
  BY <1>1 DEF P!Or
<1>5. /\ sm # undefined /\ P!toRippledAmount(sm) = limit
      /\ sm.currency = "XRP" <=> P!isDrops(limit)
      /\ da # undefined /\ P!toRippledAmount(da) = t.Amount
      /\ da.currency = "XRP" <=> P!isDrops(t.Amount)
  <2> HIDE DEF limit
  <2> QED
    BY <1>1, <1>2, <1>4, ReencodedFacts
<1>6. xrp <=> t.SendMax = undefined
  BY <1>1, <1>4, <1>5
<1>7. P!JSONparse(text) = t.Paths
  <2>1. CASE t.Paths = undefined
    BY <2>1 DEF P!JSONparse
  <2>2. CASE t.Paths # undefined
    <3>1. [text |-> t.Paths] # undefined
      BY <1>1, <2>2, AbsentAssumption DEF Texts
    <3> QED
      BY <2>2, <3>1 DEF P!JSONparse, P!JSONtext
  <2> QED
    BY <2>1, <2>2
<1>8. P!createPaymentTransaction(t.Account, spec)
        = Transaction(spec, undefined, sm, da, undefined)
  <2>1. P!createPaymentTransaction(Payer, spec)
          = Transaction(spec, P!Encoded(spec.source.amount, Payer),
                        P!Encoded(spec.source.maxAmount, Payer),
                        P!Encoded(spec.destination.amount, Payee),
                        P!Encoded(spec.destination.minAmount, Payee))
    BY <1>3, CreateFacts
  <2>2. /\ P!Encoded(spec.source.amount, Payer) = undefined
        /\ P!Encoded(spec.source.maxAmount, Payer) = sm
        /\ P!Encoded(spec.destination.amount, Payee) = da
        /\ P!Encoded(spec.destination.minAmount, Payee) = undefined
    <3> HIDE DEF spec, most, whole
    <3> QED
      BY <1>3, NothingEncoded
  <2> HIDE DEF spec, sm, da
  <2> QED
    BY <1>1, <2>1, <2>2
<1> HIDE DEF spec, sm, da, limit, text, most, whole
<1>9. P!Or(sm, undefined) = sm /\ P!Or(da, undefined) = da
  BY <1>5 DEF P!Or
<1>10. ~(xrp /\ partial)
  BY <1>1, <1>3, <1>6
<1>11. Transaction(spec, undefined, sm, da, undefined)
         = [TransactionType |-> "Payment", Account |-> Payer, Destination |-> Payee,
            Amount |-> P!toRippledAmount(da), InvoiceID |-> spec.invoiceID,
            SourceTag |-> spec.source.tag, DestinationTag |-> spec.destination.tag,
            Flags |-> flags,
            SendMax |-> IF xrp THEN undefined ELSE P!toRippledAmount(sm),
            DeliverMin |-> undefined,
            Paths |-> IF xrp THEN undefined ELSE P!JSONparse(spec.paths)]
  BY <1>9, <1>10, Zenon DEF Transaction
<1>12. flags \cup {31} = t.Flags
  <2>1. xrp => 17 \notin t.Flags
    BY <1>1, <1>6
  <2> HIDE DEF xrp, partial
  <2> QED
    BY <1>1, <1>3, <2>1 DEF P!Flag
<1>13. (IF xrp THEN undefined ELSE P!toRippledAmount(sm)) = t.SendMax
  BY <1>4, <1>5, <1>6
<1>14. (IF xrp THEN undefined ELSE P!JSONparse(spec.paths)) = t.Paths
  BY <1>1, <1>3, <1>6, <1>7
<1> HIDE DEF flags, xrp, partial
<1>15. Transaction(spec, undefined, sm, da, undefined)
         = [TransactionType |-> "Payment", Account |-> Payer, Destination |-> Payee,
            Amount |-> t.Amount, InvoiceID |-> t.InvoiceID, SourceTag |-> t.SourceTag,
            DestinationTag |-> t.DestinationTag, Flags |-> flags,
            SendMax |-> t.SendMax, DeliverMin |-> t.DeliverMin, Paths |-> t.Paths]
  BY <1>3, <1>5, <1>11, <1>13, <1>14, Zenon
<1>16. P!setCanonicalFlag(Transaction(spec, undefined, sm, da, undefined))
         = [TransactionType |-> "Payment", Account |-> Payer, Destination |-> Payee,
            Amount |-> t.Amount, InvoiceID |-> t.InvoiceID, SourceTag |-> t.SourceTag,
            DestinationTag |-> t.DestinationTag, Flags |-> t.Flags,
            SendMax |-> t.SendMax, DeliverMin |-> t.DeliverMin, Paths |-> t.Paths]
  BY <1>12, <1>15 DEF P!setCanonicalFlag, P!FullyCanonicalSig
<1> QED
  BY <1>1, <1>8, <1>16, Zenon DEF spec

LEMMA PaymentAgain ==
  ASSUME PaymentInv, PaymentSentInv, payment # None, payment # P!ValidationError,
         payment.DeliverMin = undefined
  PROVE  Recreates(payment.Account, payment)
<1> DEFINE t == payment
           spec == P!parsePayment(t)
<1>1. PaymentTyped(t) /\ 31 \in t.Flags
  BY DEF PaymentInv, PaymentSentInv, None, P!None
<1>2. t["TransactionType"] = "Payment"
  BY <1>1 DEF PaymentTyped
<1>3. parseTransaction(t, None, None) = [type |-> "payment", specification |-> spec]
  BY <1>2 DEF parseTransaction, parseTransactionType
<1>4. P!setCanonicalFlag(P!createPaymentTransaction(t.Account, spec)) = t
  BY <1>1, PaymentCreatedAgain
<1> HIDE DEF spec
<1> QED
  BY <1>3, <1>4 DEF Recreates, PreparedOf

Topics == {"payments", "orders", "settings", "trust lines", "escrows", "channels"}

SentInv ==
  /\ topic \in Topics
  /\ PaymentSentInv /\ OrderSentInv /\ EscrowSentInv /\ ClaimSentInv

LEMMA SentStart == Init => SentInv
<1> SUFFICES ASSUME Init PROVE SentInv
  OBVIOUS
<1>1. /\ topic \in Topics /\ payment = P!None /\ order = None
      /\ closeTime = 1 /\ validated = E!None /\ claimed = C!None
  BY DEF Init, Topics, P!Init, O!Init, E!Init, C!Init, O!None, None
<1> QED
  BY <1>1 DEF SentInv, PaymentSentInv, OrderSentInv, EscrowSentInv, ClaimSentInv, Time

LEMMA SentStep ==
  PaymentInv /\ OrderInv /\ EscrowInv /\ SentInv /\ [Next]_vars => SentInv'
<1> SUFFICES ASSUME PaymentInv, OrderInv, EscrowInv, SentInv, [Next]_vars PROVE SentInv'
  OBVIOUS
<1>1. topic' = topic
  BY DEF Next, Pay, Trade, Set, Hold, Claim, vars
<1> QED
  BY <1>1, PaymentSentStep, OrderSentStep, EscrowSentStep, ClaimSentStep DEF SentInv

(* Whatever the topic, what was sent last and is found in a ledger is sent *)
(* again by its specification.                                             *)
LEMMA SentAgain ==
  PaymentInv /\ RootInv /\ SentInv => SameOutcome
<1> SUFFICES ASSUME PaymentInv, RootInv, SentInv PROVE SameOutcome
  OBVIOUS
<1>1. topic \in Topics
  BY DEF SentInv
<1>2. CASE topic = "payments"
  BY <1>2, PaymentAgain DEF SentInv, SameOutcome
<1>3. CASE topic = "orders"
  BY <1>3, OrderAgain DEF SentInv, SameOutcome
<1>4. CASE topic = "settings"
  BY <1>4, SettingsAgain DEF SameOutcome
<1>5. CASE topic = "trust lines"
  BY <1>5, TrustAgain DEF SameOutcome
<1>6. CASE topic = "escrows"
  BY <1>6, EscrowAgain DEF SentInv, SameOutcome
<1>7. CASE topic = "channels"
  BY <1>7, ClaimAgain DEF SentInv, SameOutcome
<1> QED
  BY <1>1, <1>2, <1>3, <1>4, <1>5, <1>6, <1>7 DEF Topics

(* The specification of a transaction in the history, given to prepare     *)
(* again, makes the same transaction of a payment, an order, an escrow and *)
(* a channel, but for a minimum to deliver and an order that is replaced,  *)
(* and the same change of settings and trust lines, but for the removal of *)
(* a regular key and of a transfer rate.                                   *)
THEOREM SpecificationsRecreate == Spec => []SameOutcome
<1>1. Init => EscrowInv
  <2>1. Init => closeTime = 1 /\ prepared = E!None /\ escrow = E!None
                /\ validated = E!None
    BY DEF Init, E!Init
  <2> QED
    BY <2>1 DEF EscrowInv, PreparedInv
<1>2. Init => OrderInv
  BY OrdersStart DEF Init
<1>3. Init => PaymentInv /\ RootInv /\ SentInv
  BY PaymentInit, RootStart, SentStart DEF Init
<1> QED
  BY <1>1, <1>2, <1>3, PaymentStep, OrderStep, SettingsStep, EscrowStep, SentStep, SentAgain,
     PTL DEF Spec

=============================================================================
