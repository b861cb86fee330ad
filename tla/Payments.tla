------------------------------ MODULE Payments ------------------------------
(***************************************************************************)
(* One payment: the paths that getPaths finds for it, the transaction that *)
(* preparePayment makes of it, and what getTransaction says of it when it  *)
(* is in a ledger (src/src/ledger/pathfind.js, src/src/transaction/        *)
(* payment.js, src/src/ledger/parse/pathfind.js, payment.js and the        *)
(* delivered amount of utils.js there).                                    *)
(*                                                                         *)
(* getPaths is one or two requests; the balance goes on changing between   *)
(* them.  Memos are left out.                                              *)
(***************************************************************************)
EXTENDS Amounts, Sequences, FiniteSets

CONSTANTS
  Payer, Payee, Gateway,  \* the accounts
  DropsPerXrp,            \* 1000000 in the code
  unavailable,            \* 'unavailable', a value of delivered_amount
  LastUnrecorded,         \* 4594094 in the code: the last ledger in which a
                          \* partial payment does not say what it delivered
  XrpValues, IssuedValues,  \* bound: values of amounts
  Balances,               \* bound: balances of the payer, in drops
  MaxVersion              \* bound: ledger versions

VARIABLES
  balance,  \* of the payer, in drops, at the server
  call,     \* one call of getPaths: its argument, its request, what it was told
  found,    \* what it resolved or failed with
  tx,       \* the transaction that preparePayment made, or its error
  ledger    \* where and with which metadata tx was validated

vars == <<balance, call, found, tx, ledger>>

None == [none |-> TRUE]
ValidationError == [error |-> "ValidationError"]
NotFoundError == [error |-> "NotFoundError"]
NotANumber == [error |-> "BigNumber Error"]

PaymentFlags == [NoRippleDirect |-> 16, PartialPayment |-> 17, LimitQuality |-> 18]

MaxXrp == 1000000
MaxIssued == 9999999

-----------------------------------------------------------------------------
(* preparePayment.  The boolean options are the set of those that are true *)

isXRPToXRPPayment(payment) ==
  /\ Or(payment.source.maxAmount, payment.source.amount).currency = "XRP"
  /\ Or(payment.destination.amount, payment.destination.minAmount).currency = "XRP"

isIOUWithoutCounterparty(amount) ==
  amount # undefined /\ amount.currency # "XRP" /\ amount.counterparty = undefined

(* No counterparty is written as the account itself: any counterparty.     *)
Encoded(amount, address) ==
  IF isIOUWithoutCounterparty(amount) THEN [amount EXCEPT !.counterparty = address]
  ELSE amount
applyAnyCounterpartyEncoding(payment) ==
  LET from == payment.source
      to == payment.destination
  IN [payment EXCEPT
        !.source.amount = Encoded(@, from.address),
        !.source.maxAmount = Encoded(@, from.address),
        !.destination.amount = Encoded(@, to.address),
        !.destination.minAmount = Encoded(@, to.address)]

createMaximalAmount(amount) ==
  [amount EXCEPT !.value = IF amount.currency = "XRP" THEN MaxXrp ELSE MaxIssued]

(* JSON text of paths is kept apart from the paths.                        *)
JSONtext(paths) == [text |-> paths]
JSONparse(json) == IF json = undefined THEN undefined ELSE json.text

createPaymentTransaction(address, paymentArgument) ==
  LET payment == applyAnyCounterpartyEncoding(paymentArgument)
      from == payment.source
      to == payment.destination
      xrp == isXRPToXRPPayment(payment)
      partial == "allowPartialPayment" \in payment.options
      amount == IF to.minAmount # undefined /\ ~xrp THEN createMaximalAmount(to.minAmount)
                ELSE Or(to.amount, to.minAmount)
  IN IF \/ address # from.address
        \/ from.maxAmount # undefined /\ to.minAmount # undefined
        \/ from.amount # undefined /\ to.amount # undefined
        \/ xrp /\ partial
     THEN ValidationError
     ELSE [TransactionType |-> "Payment", Account |-> from.address,
           Destination |-> to.address, Amount |-> toRippledAmount(amount),
           InvoiceID |-> payment.invoiceID, SourceTag |-> from.tag,
           DestinationTag |-> to.tag,
           Flags |-> Flag("noDirectRipple" \in payment.options, PaymentFlags.NoRippleDirect)
             \cup Flag("limitQuality" \in payment.options, PaymentFlags.LimitQuality)
             \cup Flag(~xrp /\ (partial \/ to.minAmount # undefined),
                       PaymentFlags.PartialPayment),
           SendMax |-> IF xrp THEN undefined
                       ELSE toRippledAmount(Or(from.maxAmount, from.amount)),
           DeliverMin |-> IF xrp \/ to.minAmount = undefined THEN undefined
                          ELSE toRippledAmount(to.minAmount),
           Paths |-> IF xrp THEN undefined ELSE JSONparse(payment.paths)]

-----------------------------------------------------------------------------
(* getTransaction, of a payment                                            *)

isPartialPayment(t) == PaymentFlags.PartialPayment \in t.Flags

removeGenericCounterparty(amount, address) ==
  IF amount.counterparty = address THEN [amount EXCEPT !.counterparty = undefined]
  ELSE amount

parsePayment(t) ==
  [source |-> [address |-> t.Account, amount |-> undefined,
               maxAmount |-> removeGenericCounterparty(
                 parseAmount(Or(t.SendMax, t.Amount)), t.Account),
               tag |-> t.SourceTag],
   destination |-> [address |-> t.Destination, minAmount |-> undefined,
                    amount |-> removeGenericCounterparty(parseAmount(t.Amount), t.Destination),
                    tag |-> t.DestinationTag],
   invoiceID |-> t.InvoiceID,
   paths |-> IF t.Paths = undefined THEN undefined ELSE JSONtext(t.Paths),
   options |->
     (IF isPartialPayment(t) THEN {"allowPartialPayment"} ELSE {})
       \cup (IF PaymentFlags.NoRippleDirect \in t.Flags THEN {"noDirectRipple"} ELSE {})
       \cup (IF PaymentFlags.LimitQuality \in t.Flags THEN {"limitQuality"} ELSE {})]

(* Mutant of parseDeliveredAmount: the first ledger that records is not    *)
(* told apart from those before it.                                        *)
parseDeliveredLate(t, meta, ledger_index) ==
  IF meta.TransactionResult # "tesSUCCESS" \/ meta.delivered_amount = unavailable
  THEN undefined
  ELSE IF meta.delivered_amount # undefined THEN parseAmount(meta.delivered_amount)
  ELSE IF meta.DeliveredAmount # undefined THEN parseAmount(meta.DeliveredAmount)
  ELSE IF ~isPartialPayment(t) \/ ledger_index >= LastUnrecorded THEN parseAmount(t.Amount)
  ELSE undefined
parseDeliveredAmount(t, meta, ledger_index) ==
  IF meta.TransactionResult # "tesSUCCESS" \/ meta.delivered_amount = unavailable
  THEN undefined
  ELSE IF meta.delivered_amount # undefined THEN parseAmount(meta.delivered_amount)
  ELSE IF meta.DeliveredAmount # undefined THEN parseAmount(meta.DeliveredAmount)
  ELSE IF ~isPartialPayment(t) \/ ledger_index > LastUnrecorded THEN parseAmount(t.Amount)
  ELSE undefined

-----------------------------------------------------------------------------
(* getPaths                                                                *)

(* The alternatives, a list in the code, are a set: their order decides    *)
(* nothing but that of the paths which are offered.                        *)

(* The value of the destination's amount, by default -1.                   *)
Asked(amount) ==
  [amount EXCEPT !.value =
     IF @ # undefined THEN @
     ELSE IF amount.currency = "XRP" THEN -(Tenths * DropsPerXrp) ELSE -1]

WithIssuer(amount, address) ==
  IF ~isDrops(amount) /\ amount.issuer = undefined THEN [amount EXCEPT !.issuer = address]
  ELSE amount

RequestOf(pathfind) ==
  LET from == pathfind.source
      to == pathfind.destination
  IN [source_account |-> from.address, destination_account |-> to.address,
      destination_amount |-> WithIssuer(toRippledAmount(Asked(to.amount)), to.address),
      source_currencies |-> from.currencies,
      send_max |-> IF from.amount = undefined THEN undefined
                   ELSE WithIssuer(toRippledAmount(from.amount), from.address)]

(* What the parser needs of the request: the amount unless it is told.     *)
addParams(request, answer) ==
  [alternatives |-> answer.alternatives,
   destination_currencies |-> answer.destination_currencies,
   source_account |-> request.source_account,
   destination_account |-> answer.destination_account,
   destination_amount |-> IF answer.destination_amount = undefined
                          THEN request.destination_amount ELSE answer.destination_amount]

(* The payment in XRP itself, which rippled does not list.  A balance in   *)
(* XRP is compared with an amount in drops.                                *)
addDirectXrpPath(paths, xrpBalance) ==
  IF xrpBalance >= Tenths * DropsPerXrp * paths.destination_amount.drops
  THEN [paths EXCEPT !.alternatives =
          {[paths_computed |-> <<>>, source_amount |-> paths.destination_amount,
            destination_amount |-> undefined]} \cup @]
  ELSE paths

acceptsXrp(paths) ==
  isDrops(paths.destination_amount) /\ "XRP" \in paths.destination_currencies

parsePaths(paths) ==
  [i \in DOMAIN paths |-> [j \in DOMAIN paths[i] |-> [account |-> paths[i][j].account]]]

parseAlternative(paths, alternative) ==
  LET all == alternative.destination_amount # undefined
      sent == removeGenericCounterparty(parseAmount(alternative.source_amount),
                                        paths.source_account)
      got == removeGenericCounterparty(
               parseAmount(IF all THEN alternative.destination_amount
                           ELSE paths.destination_amount), paths.destination_account)
      Where(condition, amount) == IF condition THEN amount ELSE undefined
  IN [source |-> [address |-> paths.source_account, tag |-> undefined,
                  amount |-> Where(all, sent), maxAmount |-> Where(~all, sent)],
      destination |-> [address |-> paths.destination_account, tag |-> undefined,
                       amount |-> Where(~all, got), minAmount |-> Where(all, got)],
      paths |-> JSONtext(parsePaths(alternative.paths_computed)),
      invoiceID |-> undefined, options |-> {}]

(* Mutant of sendsAll: alternatives that send less are kept.               *)
sendsAny(pathfind, alternative) == TRUE
sendsAll(pathfind, alternative) ==
  /\ ~isDrops(alternative.source_amount)
  /\ alternative.source_amount.value = pathfind.source.amount.value

(* filterSourceFundsLowPaths and formatResponse.  An amount of XRP has no  *)
(* field value; new BigNumber(undefined) throws, or is equal to nothing.   *)
formatResponse(pathfind, paths, throws) ==
  LET filtering == pathfind.source.amount # undefined
      kept == IF filtering
              THEN {a \in paths.alternatives : sendsAll(pathfind, a)}
              ELSE paths.alternatives
  IN IF throws /\ filtering /\ \E a \in paths.alternatives : isDrops(a.source_amount)
     THEN NotANumber
     ELSE IF kept = {} THEN NotFoundError
     ELSE [paths |-> {parseAlternative(paths, a) : a \in kept}]

GetPaths(pathfind) ==
  /\ call = None /\ tx = None
  /\ LET request == RequestOf(pathfind)
         both == pathfind.source.amount # undefined
                   /\ pathfind.destination.amount.value # undefined
     IN /\ call' = [pathfind |-> pathfind, request |-> request, paths |-> None,
                    drops |-> undefined]
        /\ found' = IF both THEN ValidationError ELSE None
  /\ UNCHANGED <<balance, tx, ledger>>

(* The answer of ripple_path_find.                                         *)
PathsArrived(answer) ==
  /\ call # None /\ found = None /\ call.paths = None
  /\ LET paths == addParams(call.request, answer)
     IN /\ call' = [call EXCEPT !.paths = paths]
        /\ \E throws \in BOOLEAN :
             found' = IF acceptsXrp(paths) THEN None
                      ELSE formatResponse(call.pathfind, paths, throws)
  /\ UNCHANGED <<balance, tx, ledger>>

(* The answer of account_info, which is asked for only then.               *)
BalanceArrived ==
  /\ call # None /\ found = None /\ call.paths # None
  /\ LET paths == addDirectXrpPath(call.paths, dropsToXrp(balance))
     IN /\ call' = [call EXCEPT !.drops = balance]
        /\ \E throws \in BOOLEAN : found' = formatResponse(call.pathfind, paths, throws)
  /\ UNCHANGED <<balance, tx, ledger>>

BalanceChanges ==
  /\ call # None /\ found = None
  /\ balance' \in Balances \ {balance}
  /\ UNCHANGED <<call, found, tx, ledger>>

-----------------------------------------------------------------------------
(* The server: paths, and the validation of a payment                      *)

Issued(value) == [currency |-> "USD", issuer |-> Gateway, value |-> value]

(* What a payment along a path may send: what was given, or less of it; or *)
(* an amount of one of the currencies asked for.                           *)
Sources(request) ==
  IF request.send_max # undefined THEN
    {request.send_max}
      \cup IF isDrops(request.send_max) THEN {Drops(1)}
           ELSE {[request.send_max EXCEPT !.value = 1]}
  ELSE {[currency |-> "USD", issuer |-> i, value |-> v] :
          i \in {Gateway, request.source_account}, v \in IssuedValues}
         \cup IF request.source_currencies = {} THEN {Drops(2)} ELSE {}

(* destination_amount is told of conversions that send all; from XRP to    *)
(* XRP there is no path.                                                   *)
Alternatives(request) ==
  {a \in [source_amount : Sources(request),
          destination_amount :
            IF request.send_max = undefined THEN {undefined}
            ELSE IF isDrops(request.destination_amount) THEN {Drops(3)}
            ELSE {[request.destination_amount EXCEPT !.value = 3]},
          paths_computed : {<<>>, <<<<[account |-> Gateway, type |-> 1]>>>>}] :
     ~(isDrops(a.source_amount) /\ isDrops(request.destination_amount))}

(* The answer repeats the account, and may repeat the amount.              *)
AnswersPaths ==
  /\ call # None
  /\ \E alternatives \in {{}} \cup {{a} : a \in Alternatives(call.request)},
        currencies \in {{"USD"}, {"XRP", "USD"}},
        amount \in {undefined, call.request.destination_amount} :
       PathsArrived([alternatives |-> alternatives, destination_currencies |-> currencies,
                     destination_account |-> call.request.destination_account,
                     destination_amount |-> amount])

(* Partial payments deliver any part.  The metadata says so from a certain *)
(* ledger on, when it is not the whole; some servers add delivered_amount. *)
Validated ==
  /\ tx # None /\ tx # ValidationError /\ ledger = None
  /\ \E version \in 1 .. MaxVersion, part \in {0, 1}, adds \in BOOLEAN,
        result \in {"tesSUCCESS", "tecPATH_DRY"} :
       LET partial == isPartialPayment(tx)
           delivered == IF part = 0 \/ ~partial THEN tx.Amount
                        ELSE IF isDrops(tx.Amount) THEN Drops(1) ELSE [tx.Amount EXCEPT !.value = 1]
           told == partial => version > LastUnrecorded
       IN ledger' =
            [version |-> version, delivered |-> delivered,
             meta |-> [TransactionResult |-> result,
                       delivered_amount |->
                         IF ~adds \/ result # "tesSUCCESS" THEN undefined
                         ELSE IF told THEN delivered ELSE unavailable,
                       DeliveredAmount |->
                         IF partial /\ told /\ delivered # tx.Amount THEN delivered
                         ELSE undefined]]
  /\ UNCHANGED <<balance, call, found, tx>>

-----------------------------------------------------------------------------
(* The application                                                         *)

XrpAmounts == {Amount("XRP", v, undefined) : v \in XrpValues}
IssuedAmounts(address) ==
  {Amount("USD", v, c) : v \in IssuedValues, c \in {undefined, address, Gateway}}

Senders ==
  LET Given(a) == [address |-> Payer, tag |-> undefined, amount |-> a, maxAmount |-> undefined]
      Most(a) == [address |-> Payer, tag |-> undefined, amount |-> undefined, maxAmount |-> a]
  IN UNION {{Given(a), Most(a)} : a \in XrpAmounts \cup IssuedAmounts(Payer)}

Receivers ==
  LET Given(a, tag) == [address |-> Payee, tag |-> tag, amount |-> a, minAmount |-> undefined]
      Least(a, tag) == [address |-> Payee, tag |-> tag, amount |-> undefined, minAmount |-> a]
  IN UNION {{Given(a, tag), Least(a, tag)} :
              a \in XrpAmounts \cup IssuedAmounts(Payee), tag \in {undefined, 0}}

Payments ==
  [source : Senders, destination : Receivers,
   paths : {undefined, JSONtext(<<<<[account |-> Gateway]>>>>)},
   invoiceID : {undefined},
   options : SUBSET {"allowPartialPayment", "noDirectRipple", "limitQuality"}]

(* A value may be omitted if a source amount is specified (docs 1665).     *)
Pathfinds ==
  LET From == [address : {Payer}, amount : {undefined} \cup XrpAmounts \cup IssuedAmounts(Payer),
               currencies : {{}, {"USD"}}]
      To == [address : {Payee},
             amount : UNION {{a, [a EXCEPT !.value = undefined]} :
                               a \in XrpAmounts \cup IssuedAmounts(Payee)}]
  IN {p \in [source : From, destination : To] :
        IF p.source.amount = undefined THEN p.destination.amount.value # undefined
        ELSE p.source.currencies = {}}

FoundPaths == IF found # None /\ "paths" \in DOMAIN found THEN found.paths ELSE {}

PreparePayment(address, payment) ==
  /\ tx = None
  /\ LET t == createPaymentTransaction(address, payment)
     IN tx' = IF t = ValidationError THEN t ELSE setCanonicalFlag(t)
  /\ UNCHANGED <<balance, call, found, ledger>>

(* The application pays along a path that was found, or as it likes.       *)
Pays ==
  \E address \in {Payer, Payee},
     payment \in IF call = None THEN Payments ELSE FoundPaths :
    PreparePayment(address, payment)

Init ==
  /\ balance \in Balances
  /\ call = None /\ found = None /\ tx = None /\ ledger = None

Next ==
  \/ (\E pathfind \in Pathfinds : GetPaths(pathfind))
  \/ AnswersPaths \/ BalanceArrived \/ BalanceChanges
  \/ Pays \/ Validated

Spec == Init /\ [][Next]_vars

-----------------------------------------------------------------------------
(* Properties                                                              *)

(* The result of getPaths can be passed directly to preparePayment         *)
(* (parse/pathfind.js 28), and pays what was asked for: the amount of the  *)
(* destination, or at least what the path promises for all of the source's *)
(* amount; along the path that the server told, or in XRP that the payer   *)
(* had when the server told its balance.                                   *)
PathsCanBePaid ==
  \A path \in FoundPaths :
    LET t == createPaymentTransaction(Payer, path)
        all == call.request.send_max # undefined
        Along(a) == /\ t.SendMax = a.source_amount
                    /\ t.DeliverMin = a.destination_amount
                    /\ t.Paths = parsePaths(a.paths_computed)
        alternatives == call.paths.alternatives
    IN /\ t # ValidationError
       /\ isPartialPayment(t) <=> all
       /\ IF all THEN t.SendMax = call.request.send_max
          ELSE t.Amount = call.request.destination_amount
       /\ \/ \E a \in alternatives : Along(a)
          \/ /\ t.SendMax = undefined /\ isDrops(t.Amount)
             /\ call.drops # undefined /\ call.drops >= t.Amount.drops

(* A payment in XRP that the payer has enough of is among the paths to a   *)
(* destination that accepts XRP (pathfind.js 60).                          *)
DirectPathOffered ==
  call # None /\ call.drops # undefined /\ call.request.send_max = undefined
    /\ call.drops >= call.request.destination_amount.drops
    => \E path \in FoundPaths :
         createPaymentTransaction(Payer, path).SendMax = undefined

(* The delivered amount of an outcome is what was delivered, or is absent; *)
(* it is absent only when the payment failed, or when neither the metadata *)
(* nor the server can tell, of partial payments of old ledgers             *)
(* (docs/index.md 894, utils.js 85-89).                                    *)
DeliveredIsTold ==
  ledger # None =>
    LET told == parseDeliveredAmount(tx, ledger.meta, ledger.version)
    IN /\ told # undefined =>
            /\ ledger.meta.TransactionResult = "tesSUCCESS"
            /\ told = parseAmount(ledger.delivered)
       /\ told = undefined =>
            \/ ledger.meta.TransactionResult # "tesSUCCESS"
            \/ isPartialPayment(tx) /\ ledger.version <= LastUnrecorded

=============================================================================
