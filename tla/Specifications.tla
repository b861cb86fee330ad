---------------------------- MODULE Specifications ----------------------------
(***************************************************************************)
(* All that an application can ask a ledger to do: payments, orders,       *)
(* settings and trust lines, escrows and payment channels.  parseTransac-  *)
(* tion, behind getTransaction and getTransactions, finds for any of their *)
(* transactions the parser that turns it back into a specification         *)
(* (src/src/ledger/parse/transaction.js).                                  *)
(*                                                                         *)
(* Each kind has a module with the transactions, the ledger entries and    *)
(* the reads of its own; no two kinds share state, so a behaviour is of    *)
(* one kind, its topic.                                                    *)
(***************************************************************************)
EXTENDS Integers, Sequences, FiniteSets, Objects

CONSTANTS
  undefined, unavailable,
  Payer, Payee, Gateway, DropsPerXrp, LastUnrecorded, XrpValues, IssuedValues,
  Balances,
  Makers, Issuers, OrderRates, Lots,
  FlagNames, Keys, SettingRates, Limits,
  EscrowAmounts, EscrowTimes, LastClose,
  ChannelAmounts, ChannelTimes, Fundings, LastClosed,
  MaxVersion  \* bound: ledger versions

(* Rates are compared by their first digits, and have two at most; nothing *)
(* is no amount to trade.                                                  *)
ASSUME RatesAssumption == OrderRates \subseteq 1 .. 99 /\ Lots \subseteq Nat \ {0}

Accounts == {Payer, Payee, Gateway}
(* Amounts as rippled has them, and as an application does.                *)
RippledAmounts == [drops : Int] \cup [currency : {"USD"}, issuer : Accounts, value : Int]
GivenAmounts == [currency : {"XRP", "USD"}, value : Int,
                 counterparty : {undefined} \cup Accounts]

(* What is absent is no amount, no account and no text.                    *)
ASSUME AbsentAssumption ==
  /\ undefined \notin RippledAmounts \cup GivenAmounts \cup Accounts \cup {unavailable}
  /\ undefined \notin [text : {<<>>, <<<<[account |-> Gateway]>>>>}]
  /\ unavailable \notin RippledAmounts

(* Amounts of XRP and balances are not negative (schemas/objects/value).   *)
ASSUME PaymentsAssumption ==
  /\ DropsPerXrp \in Nat \ {0} /\ XrpValues \subseteq Nat
  /\ IssuedValues \subseteq Int /\ Balances \subseteq Nat
  /\ LastUnrecorded \in Nat /\ MaxVersion \in Nat

(* Times and amounts are numbers, and there is none that is absent.  Those *)
(* of channels are not in the first half of a second that rippled counts,  *)
(* which it would keep as 0: no time.                                      *)
ASSUME NumbersAssumption ==
  /\ EscrowAmounts \subseteq Int /\ EscrowTimes \subseteq Int
  /\ ChannelAmounts \subseteq Int
  /\ ChannelTimes \subseteq Nat \ {0, 1}
  /\ undefined \notin Int

(* Nor is a key, a signature or a ledger entry that is there.              *)
ChannelEntries ==
  [LedgerEntryType : {"PayChannel"}, Amount : Int, Balance : Int,
   Destination : {"payee"}, SettleDelay : {1}, PublicKey : {"payer's"},
   CancelAfter : {undefined} \cup Nat, Expiration : {undefined} \cup Nat]
ASSUME KeysAssumption ==
  undefined \notin {"payer's"} \cup [drops : Int, key : {"payer's"}] \cup ChannelEntries

VARIABLES
  topic,
  balance, paths, found, payment, ledger,      \* Payments
  ledgers, order, call, answers, book,         \* Orders
  root, line, asked,                           \* Settings
  closeTime, prepared, escrow, validated,      \* Escrows
  closed, channel, meant, signed, claimed      \* Channels

P == INSTANCE Payments WITH call <- paths, tx <- payment
O == INSTANCE Orders WITH Rates <- OrderRates, tx <- order
S == INSTANCE Settings WITH Rates <- SettingRates
E == INSTANCE Escrows
C == INSTANCE Channels WITH validated <- claimed

(* Flags have a SetFlag, a key is not "" or null, and rates are positive   *)
(* (schemas/objects/settings.json, quality.json).                          *)
ASSUME SettingsAssumption ==
  /\ FlagNames \subseteq DOMAIN S!AccountFlagIndices
  /\ Keys \cap {"", S!NULL} = {}
  /\ SettingRates \subseteq Nat \ {0}

payVars == <<balance, paths, found, payment, ledger>>
orderVars == <<ledgers, order, call, answers, book>>
settingVars == <<root, line, asked>>
escrowVars == <<closeTime, prepared, escrow, validated>>
channelVars == <<closed, channel, meant, signed, claimed>>
vars == <<topic, payVars, orderVars, settingVars, escrowVars, channelVars>>

None == [none |-> TRUE]

-----------------------------------------------------------------------------
(* parseTransaction                                                        *)

parseTransactionType(type) ==
  CASE type = "Payment" -> "payment"
    [] type = "TrustSet" -> "trustline"
    [] type = "OfferCreate" -> "order"
    [] type = "OfferCancel" -> "orderCancellation"
    [] type \in {"AccountSet", "SetRegularKey", "SignerListSet"} -> "settings"
    [] type = "EscrowCreate" -> "escrowCreation"
    [] type = "EscrowFinish" -> "escrowExecution"
    [] type = "EscrowCancel" -> "escrowCancellation"
    [] type = "PaymentChannelCreate" -> "paymentChannelCreate"
    [] type = "PaymentChannelFund" -> "paymentChannelFund"
    [] type = "PaymentChannelClaim" -> "paymentChannelClaim"

parseOrderCancellation(t) == [orderSequence |-> t.OfferSequence]

(* The parser of settings looks at the change of the account root.         *)
parseTransaction(t, before, after) ==
  LET type == parseTransactionType(t["TransactionType"])
  IN [type |-> type, specification |->
        CASE type = "payment" -> P!parsePayment(t)
          [] type = "trustline" -> S!parseTrustline(t)
          [] type = "order" -> O!parseOrder(t)
          [] type = "orderCancellation" -> parseOrderCancellation(t)
          [] type = "settings" -> S!parseSettings(t, before, after)
          [] type = "escrowCreation" -> E!parseEscrowCreation(t)
          [] type = "escrowExecution" -> E!parseEscrowExecution(t)
          [] type = "escrowCancellation" -> E!parseEscrowCancellation(t)
          [] type = "paymentChannelCreate" -> C!parsePaymentChannelCreate(t)
          [] type = "paymentChannelFund" -> C!parsePaymentChannelFund(t)
          [] type = "paymentChannelClaim" -> C!parsePaymentChannelClaim(t)]

-----------------------------------------------------------------------------

(* Only payments start from more than one state.                           *)
Init ==
  /\ topic \in {"payments", "orders", "settings", "trust lines", "escrows", "channels"}
  /\ P!Init /\ O!Init /\ S!Init /\ E!Init /\ C!Init
  /\ topic # "payments" => balance = CHOOSE b \in Balances : TRUE

Pay ==
  /\ topic = "payments" /\ P!Next
  /\ UNCHANGED <<topic, orderVars, settingVars, escrowVars, channelVars>>
Trade ==
  /\ topic = "orders" /\ O!Next
  /\ UNCHANGED <<topic, payVars, settingVars, escrowVars, channelVars>>
Set ==
  /\ \/ topic = "settings" /\ (S!SetSetting \/ S!PasswordSpent)
     \/ topic = "trust lines" /\ S!SetTrust
  /\ UNCHANGED <<topic, payVars, orderVars, escrowVars, channelVars>>
Hold ==
  /\ topic = "escrows" /\ E!Next
  /\ UNCHANGED <<topic, payVars, orderVars, settingVars, channelVars>>
Claim ==
  /\ topic = "channels" /\ C!Next
  /\ UNCHANGED <<topic, payVars, orderVars, settingVars, escrowVars>>

Next == Pay \/ Trade \/ Set \/ Hold \/ Claim

Spec == Init /\ [][Next]_vars

-----------------------------------------------------------------------------
(* Properties                                                              *)

(* Those of the kinds, stated and explained in their modules.              *)
PathsCanBePaid == P!PathsCanBePaid
DeliveredIsTold == P!DeliveredIsTold
BookOfALedger == O!BookOfALedger
EscrowAsAsked == E!EscrowAsAsked
ClaimsHonoured == C!ClaimsHonoured

(* What a read gives of an order, of settings and trust lines and of a     *)
(* payment channel is what its transactions asked for, whatever their      *)
(* order and however the ledger keeps it.                                  *)
ReadsBack == O!ReadsRecreate /\ S!ReadsBack /\ C!ChannelReadsBack

(* What prepare makes of the specification in a parsed transaction.  The   *)
(* specification of settings has one key at most, as they must have.       *)
PreparedOf(address, parsed) ==
  LET spec == parsed.specification
      type == parsed.type
  IN CASE type = "payment" -> P!setCanonicalFlag(P!createPaymentTransaction(address, spec))
       [] type = "trustline" -> S!createTrustlineTransaction(spec)
       [] type = "order" -> O!setCanonicalFlag(O!createOrderTransaction(address, spec))
       [] type = "orderCancellation" ->
            O!setCanonicalFlag(O!createOrderCancellationTransaction(address, spec.orderSequence))
       [] type = "settings" /\ Cardinality(DOMAIN spec) = 1 ->
            LET name == CHOOSE n \in DOMAIN spec : TRUE
            IN S!createSettingsTransaction(name, spec[name])
       [] type = "escrowCreation" -> E!createEscrowCreationTransaction(spec)
       [] type = "escrowExecution" -> E!createEscrowExecutionTransaction(spec)
       [] type = "escrowCancellation" -> E!createEscrowCancellationTransaction(spec)
       [] type = "paymentChannelCreate" -> C!createPaymentChannelCreateTransaction(spec)
       [] type = "paymentChannelFund" -> C!createPaymentChannelFundTransaction(spec)
       [] type = "paymentChannelClaim" -> C!createPaymentChannelClaimTransaction(spec)
       [] OTHER -> None

(* The same transaction again.                                             *)
Recreates(address, t) == PreparedOf(address, parseTransaction(t, None, None)) = t

(* The same change, of transactions that may say in other words, or need   *)
(* not say, what the account or the line is already.                       *)
SettingsRecreated ==
  \A setting \in S!Settings :
    setting \notin {<<"regularKey", S!NULL>>, <<"signers", S!NoSigners>>,
                     <<"transferRate", S!NULLRATE>>} =>
      LET t == S!createSettingsTransaction(setting[1], setting[2])
          after == S!ApplySettings(root, t)
          again == PreparedOf(None, parseTransaction(t, root, after))
      IN IF again = None THEN after = root ELSE S!ApplySettings(root, again) = after
TrustRecreated ==
  \A spec \in S!Trustlines, qualities \in S!Qualities :
    LET t == S!createTrustlineTransaction(spec @@ qualities)
        again == PreparedOf(None, parseTransaction(t, None, None))
    IN S!ApplyTrust(line, again) = S!ApplyTrust(line, t)

(* The specification of a transaction in the history would produce the     *)
(* same outcome as its transaction (docs/index.md 878).  It does not for   *)
(* five: a payment with a minimum to deliver (parsePayment does not read   *)
(* it), an order that replaces another (nor does parseOrder), and the      *)
(* removal of a regular key, of a transfer rate or of signers, whose       *)
(* specifications are empty, of the rate 0, and of an empty list, which    *)
(* the schema refuses (schemas/objects/settings.json 81, 95).              *)
SameOutcome ==
  CASE topic = "payments" ->
         payment # None /\ payment # P!ValidationError /\ payment.DeliverMin = undefined
           => Recreates(payment.Account, payment)
    [] topic = "orders" ->
         order # None /\ (order.TransactionType = "OfferCreate" => order.OfferSequence = 0)
           => Recreates(order.Account, order)
    [] topic = "settings" -> SettingsRecreated
    [] topic = "trust lines" -> TrustRecreated
    [] topic = "escrows" -> validated # None => Recreates(None, validated.tx)
    [] topic = "channels" -> claimed # None => Recreates(None, claimed)

=============================================================================
