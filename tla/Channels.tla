------------------------------ MODULE Channels ------------------------------
(***************************************************************************)
(* A payment channel: the transactions that create it, fund it and claim   *)
(* from it, as prepared; the claims that the payer signs and the payee     *)
(* verifies between them, off the ledger; and what getTransaction and      *)
(* getPaymentChannel say (src/src/transaction/payment-channel-*.js,        *)
(* src/src/offline/*-payment-channel-claim.js, src/src/ledger/             *)
(* payment-channel.js and parse/payment-channel*.js).                      *)
(*                                                                         *)
(* Tags and the case of hexadecimal keys are left out.                     *)
(***************************************************************************)
EXTENDS Amounts

CONSTANTS
  ChannelAmounts,  \* bound: amounts in tenths of a drop
  ChannelTimes,    \* bound: times in quarters of a second
  Fundings,        \* bound: how often the channel is funded
  LastClosed       \* bound: the time of the last ledger

VARIABLES
  closed,     \* the time of the last validated ledger
  channel,    \* the ledger entry, or None
  meant,      \* what the specifications of the validated transactions say
  signed,     \* the last claim that the payer has given, its amount and
              \* signature, or None
  validated   \* the last transaction in a ledger

vars == <<closed, channel, meant, signed, validated>>

None == [none |-> TRUE]
ValidationError == [error |-> "ValidationError"]
NotFoundError == [error |-> "NotFoundError"]
claimFlags == [Renew |-> 16, Close |-> 17]

Key == "payer's"
Parties == {"payer", "payee"}

-----------------------------------------------------------------------------
(* Preparing                                                               *)

createPaymentChannelCreateTransaction(spec) ==
  [TransactionType |-> "PaymentChannelCreate", Amount |-> xrpToDrops(spec.amount),
   Destination |-> spec.destination, SettleDelay |-> spec.settleDelay,
   PublicKey |-> spec.publicKey,
   CancelAfter |-> Optional(spec.cancelAfter, iso8601ToRippleTime)]

createPaymentChannelFundTransaction(spec) ==
  [TransactionType |-> "PaymentChannelFund", Amount |-> xrpToDrops(spec.amount),
   Expiration |-> Optional(spec.expiration, iso8601ToRippleTime)]

createPaymentChannelClaimTransaction(spec) ==
  IF (spec.signature = undefined) # (spec.publicKey = undefined)
       \/ {"renew", "close"} \subseteq spec.options
  THEN ValidationError
  ELSE [TransactionType |-> "PaymentChannelClaim",
        Balance |-> Optional(spec.balance, xrpToDrops),
        Amount |-> Optional(spec.amount, xrpToDrops),
        Signature |-> spec.signature, PublicKey |-> spec.publicKey,
        Flags |-> Flag("renew" \in spec.options, claimFlags.Renew)
                    \cup Flag("close" \in spec.options, claimFlags.Close)]

(* A signature is what is signed and with which key.                       *)
encodeForSigningClaim(drops, key) == [drops |-> drops, key |-> key]

(* Mutant of signPaymentChannelClaim: the drops are rounded up.            *)
signRoundedUp(amount, key) == encodeForSigningClaim(-((-amount) \div Tenths), key)
signPaymentChannelClaim(amount, key) == encodeForSigningClaim(xrpToDrops(amount), key)
verifyPaymentChannelClaim(amount, signature, key) ==
  signature = encodeForSigningClaim(xrpToDrops(amount), key)

-----------------------------------------------------------------------------
(* Parsing                                                                 *)

parsePaymentChannelCreate(t) ==
  [amount |-> dropsToXrp(t.Amount), destination |-> t.Destination,
   settleDelay |-> t.SettleDelay, publicKey |-> t.PublicKey,
   cancelAfter |-> parseTimestamp(t.CancelAfter)]

parsePaymentChannelFund(t) ==
  [amount |-> dropsToXrp(t.Amount), expiration |-> parseTimestamp(t.Expiration)]

parsePaymentChannelClaim(t) ==
  [balance |-> Optional(t.Balance, dropsToXrp), amount |-> Optional(t.Amount, dropsToXrp),
   signature |-> t.Signature, publicKey |-> t.PublicKey,
   options |-> (IF claimFlags.Renew \in t.Flags THEN {"renew"} ELSE {})
                 \cup IF claimFlags.Close \in t.Flags THEN {"close"} ELSE {}]

(* Mutant of parsePaymentChannel: the expiration is the time at which the  *)
(* channel was to be cancelled in any case.                                *)
parseCancelAfter(node) ==
  [amount |-> dropsToXrp(node.Amount), balance |-> dropsToXrp(node.Balance),
   destination |-> node.Destination, publicKey |-> node.PublicKey,
   settleDelay |-> node.SettleDelay, expiration |-> parseTimestamp(node.CancelAfter),
   cancelAfter |-> parseTimestamp(node.CancelAfter)]
parsePaymentChannel(node) ==
  [amount |-> dropsToXrp(node.Amount), balance |-> dropsToXrp(node.Balance),
   destination |-> node.Destination, publicKey |-> node.PublicKey,
   settleDelay |-> node.SettleDelay, expiration |-> parseTimestamp(node.Expiration),
   cancelAfter |-> parseTimestamp(node.CancelAfter)]

formatResponse(response) ==
  IF response.node # undefined /\ response.node.LedgerEntryType = "PayChannel"
  THEN parsePaymentChannel(response.node) ELSE NotFoundError

(* Of the ledger entry with the identifier of the channel.                 *)
getPaymentChannel == formatResponse([node |-> IF channel = None THEN undefined ELSE channel])

-----------------------------------------------------------------------------
(* The ledger                                                              *)

Earlier(a, b) == IF a = undefined \/ (b # undefined /\ b < a) THEN b ELSE a

Expired ==
  LET end == Earlier(channel.CancelAfter, channel.Expiration)
  IN end # undefined /\ closed >= end

Include(t, node, means) ==
  /\ channel' = node
  /\ meant' = means
  /\ validated' = t
  /\ UNCHANGED <<closed, signed>>

IncludeCreate(spec) ==
  LET t == createPaymentChannelCreateTransaction(spec)
  IN /\ channel = None /\ validated = None
     /\ Include(t, [LedgerEntryType |-> "PayChannel", Amount |-> t.Amount, Balance |-> 0,
                    Destination |-> t.Destination, SettleDelay |-> t.SettleDelay,
                    PublicKey |-> t.PublicKey, CancelAfter |-> t.CancelAfter,
                    Expiration |-> undefined],
                [funded |-> spec.amount, times |-> 1, claimed |-> 0,
                 expiration |-> undefined, cancelAfter |-> spec.cancelAfter])

(* Once it has expired, any transaction deletes the channel.               *)
IncludeFund(spec) ==
  LET t == createPaymentChannelFundTransaction(spec)
  IN /\ channel # None /\ meant.times < Fundings
     /\ t.Expiration # undefined =>
          t.Expiration >= Earlier(channel.Expiration, closed + channel.SettleDelay)
     /\ IF Expired THEN Include(t, None, meant)
        ELSE Include(t, [channel EXCEPT !.Amount = @ + t.Amount,
                                        !.Expiration = Or(t.Expiration, @)],
                     [meant EXCEPT !.funded = @ + spec.amount, !.times = @ + 1,
                                   !.expiration = Or(spec.expiration, @)])

(* The payee needs a signature, of the amount or else of the balance.      *)
AcceptsClaim(by, t) ==
  /\ channel # None
  /\ t.Balance # undefined =>
       /\ t.Amount # undefined => t.Balance <= t.Amount
       /\ t.Balance > channel.Balance /\ t.Balance <= channel.Amount
       /\ by = "payee" => t.Signature # undefined
       /\ t.Signature # undefined =>
            t.Signature = encodeForSigningClaim(Or(t.Amount, t.Balance), channel.PublicKey)
  /\ claimFlags.Renew \in t.Flags => by = "payer"

(* The payee closes at once, the payer after the delay.                    *)
IncludeClaim(by, spec) ==
  LET t == createPaymentChannelClaimTransaction(spec)
      node == [channel EXCEPT !.Balance = Or(t.Balance, @),
                              !.Expiration = IF claimFlags.Renew \in t.Flags THEN undefined ELSE @]
      means == [meant EXCEPT !.claimed = Or(spec.balance, @),
                             !.expiration = IF "renew" \in spec.options THEN undefined ELSE @]
      end == Earlier(node.Expiration, closed + channel.SettleDelay)
  IN /\ t # ValidationError /\ AcceptsClaim(by, t)
     /\ IF Expired THEN Include(t, None, meant)
        ELSE IF claimFlags.Close \notin t.Flags THEN Include(t, node, means)
        ELSE IF by = "payee" \/ node.Balance = node.Amount THEN Include(t, None, means)
        ELSE Include(t, [node EXCEPT !.Expiration = end],
                     [means EXCEPT !.expiration =
                        IF end = node.Expiration THEN @ ELSE rippleTimeToISO8601(end)])

-----------------------------------------------------------------------------
(* The two parties                                                         *)

Creates ==
  \E amount \in ChannelAmounts, cancelAfter \in {undefined} \cup ChannelTimes :
    IncludeCreate([amount |-> amount, destination |-> "payee", settleDelay |-> 1,
                   publicKey |-> Key, cancelAfter |-> cancelAfter])

Funds ==
  \E amount \in ChannelAmounts, expiration \in {undefined} \cup ChannelTimes :
    IncludeFund([amount |-> amount, expiration |-> expiration])

Claims ==
  [balance : {undefined} \cup ChannelAmounts, amount : {undefined} \cup ChannelAmounts,
   signature : {undefined} \cup IF signed = None THEN {} ELSE {signed.signature},
   publicKey : {undefined, Key}, options : SUBSET {"renew", "close"}]

ClaimsSome == \E by \in Parties, spec \in Claims : IncludeClaim(by, spec)

Signs ==
  /\ channel # None
  /\ \E amount \in ChannelAmounts :
       signed' = [amount |-> amount, signature |-> signPaymentChannelClaim(amount, Key)]
  /\ UNCHANGED <<closed, channel, meant, validated>>

LedgerCloses ==
  /\ closed < LastClosed
  /\ closed' = closed + 1
  /\ UNCHANGED <<channel, meant, signed, validated>>

Init ==
  /\ closed = 1 /\ channel = None /\ signed = None /\ validated = None
  /\ meant = None

Next == Creates \/ Funds \/ ClaimsSome \/ Signs \/ LedgerCloses

Spec == Init /\ [][Next]_vars

-----------------------------------------------------------------------------
(* Properties                                                              *)

(* The time that was asked for, to the half of a second.                   *)
About(time, asked) ==
  IF asked = undefined THEN time = undefined
  ELSE time # undefined /\ time - asked \in -1 .. 2

(* getPaymentChannel says how much XRP the channel was funded with in all  *)
(* and how much it has delivered (docs/index.md 2829, 2830), less than a   *)
(* drop for each transaction below what their specifications said, and the *)
(* times of the last specification that changes them; it fails once the    *)
(* channel is closed.                                                      *)
ChannelReadsBack ==
  LET read == getPaymentChannel IN
  IF channel = None THEN read = NotFoundError
  ELSE /\ meant.funded - read.amount \in 0 .. meant.times * (Tenths - 1)
       /\ meant.claimed - read.balance \in 0 .. Tenths - 1
       /\ About(read.expiration, meant.expiration)
       /\ About(read.cancelAfter, meant.cancelAfter)

(* A claim that the payer signs for an amount gives no more than that, and *)
(* is one that the payee verifies for it and can then take: what           *)
(* preparePaymentChannelClaim makes of it is accepted while the channel    *)
(* holds that much more than it has delivered (docs/index.md 3735, 3774).  *)
ClaimsHonoured ==
  signed # None =>
    LET t == createPaymentChannelClaimTransaction(
               [balance |-> signed.amount, amount |-> signed.amount,
                signature |-> signed.signature, publicKey |-> Key, options |-> {}])
    IN /\ dropsToXrp(signed.signature.drops) <= signed.amount
       /\ verifyPaymentChannelClaim(signed.amount, signed.signature, Key)
       /\ channel # None /\ channel.Balance < t.Balance /\ t.Balance <= channel.Amount
            => AcceptsClaim("payee", t)

(* The amount of a claim is the XRP balance of the channel after it        *)
(* (docs/index.md 649).                                                    *)
ClaimAsDocumented ==
  [][validated' # validated /\ channel' # None /\ validated' # None
       /\ validated'.TransactionType = "PaymentChannelClaim"
       /\ validated'.Amount # undefined
     => channel'.Balance = validated'.Amount]_vars

=============================================================================
