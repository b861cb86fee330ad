-------------------------------- MODULE Orders --------------------------------
(***************************************************************************)
(* Orders from prepareOrder to getOrders, getOrderbook and getTransaction: *)
(* the specification an application gives, the transaction it becomes, the *)
(* offer rippled keeps of it, and the specification each of the three      *)
(* reads makes of that again (src/src/transaction/order.js,                *)
(* ordercancellation.js, src/src/ledger/orderbook.js, orders.js and parse/ *)
(* below it).                                                              *)
(*                                                                         *)
(* getOrderbook is one call here with its two requests; ledgers go on      *)
(* being validated between them.  Amounts are of issued currencies;        *)
(* memos and expiration times, which no order depends on, are left out.    *)
(***************************************************************************)
EXTENDS Amounts, SequencesExt, Sorting

CONSTANTS
  Makers,     \* accounts with orders
  Issuers,    \* who issue the one currency that is traded
  Rates,      \* takerPays.value / takerGets.value of the orders, below 100
  Lots,       \* bound: values of takerGets
  MaxVersion  \* bound: ledger versions

VARIABLES
  ledgers,  \* the offers in each validated ledger
  tx,       \* the transaction of the last one, or None
  call,     \* the arguments of getOrderbook, or None; since: when it was made
  answers,  \* what the server answered to its two requests, or None
  book      \* what it has resolved with, or None

vars == <<ledgers, tx, call, answers, book>>

None == [none |-> TRUE]
Issues == [currency : {"USD"}, counterparty : Issuers]
Sides == {"asks", "bids"}   \* getOffers() and getReverseOffers()
Options == {"passive", "immediateOrCancel", "fillOrKill"}
Versions == 1 .. MaxVersion
validated == Len(ledgers)

-----------------------------------------------------------------------------
(* Flags                                                                   *)

OfferCreate == [passive |-> 16, immediateOrCancel |-> 17, fillOrKill |-> 18,
                Sell |-> 19]
orderFlags == [Passive |-> 16, Sell |-> 17]

-----------------------------------------------------------------------------
(* From a specification to a transaction.  The optional ones of an order   *)
(* are the set of those that are true; orderToReplace is 0 for undefined.  *)

createOrderTransaction(account, order) ==
  LET buy == order.direction = "buy" IN
  [TransactionType |-> "OfferCreate", Account |-> account,
   TakerGets |-> toRippledAmount(IF buy THEN order.totalPrice ELSE order.quantity),
   TakerPays |-> toRippledAmount(IF buy THEN order.quantity ELSE order.totalPrice),
   Flags |-> (IF buy THEN {} ELSE {OfferCreate.Sell})
               \cup {OfferCreate[o] : o \in order.options},
   OfferSequence |-> order.orderToReplace]

createOrderCancellationTransaction(account, orderSequence) ==
  [TransactionType |-> "OfferCancel", Account |-> account, Flags |-> {},
   OfferSequence |-> orderSequence]

-----------------------------------------------------------------------------
(* From a transaction or an offer to a specification                       *)

(* What the three parsers share: which of the amounts is the quantity.     *)
Specification(sell, takerGets, takerPays, options) ==
  LET gets == parseAmount(takerGets)
      pays == parseAmount(takerPays)
  IN [direction |-> IF sell THEN "sell" ELSE "buy",
      quantity |-> IF sell THEN gets ELSE pays,
      totalPrice |-> IF sell THEN pays ELSE gets,
      options |-> options, orderToReplace |-> 0]

(* Mutant of parseOrder: with the flags of ledger entries.                 *)
parseTxAsOffer(t) ==
  Specification(orderFlags.Sell \in t.Flags, t.TakerGets, t.TakerPays,
                {o \in Options : OfferCreate[o] \in t.Flags})
(* Of a transaction: the flags of transactions.  orderToReplace and memos  *)
(* are not read.                                                           *)
parseOrder(t) ==
  Specification(OfferCreate.Sell \in t.Flags, t.TakerGets, t.TakerPays,
                {o \in Options : OfferCreate[o] \in t.Flags})

(* Of an offer, in account_offers and in book_offers: the flags of ledger  *)
(* entries.                                                                *)
parseOffer(offer) ==
  Specification(orderFlags.Sell \in offer.Flags, offer.TakerGets, offer.TakerPays,
                IF orderFlags.Passive \in offer.Flags THEN {"passive"} ELSE {})

parseAccountOrder(offer) ==
  [specification |-> parseOffer(offer), maker |-> offer.Account,
   sequence |-> offer.Sequence]

parseOrderbookOrder(offer) ==
  [specification |-> parseOffer(offer), maker |-> offer.Account,
   sequence |-> offer.Sequence,
   makerExchangeRate |-> offer.TakerPays.value \div offer.TakerGets.value]

-----------------------------------------------------------------------------
(* The ledger                                                              *)

(* rippled has flags of its own for the offers it keeps.                   *)
OfferOf(t, sequence) ==
  [Account |-> t.Account, Sequence |-> sequence,
   TakerGets |-> t.TakerGets, TakerPays |-> t.TakerPays,
   Flags |-> (IF 19 \in t.Flags THEN {17} ELSE {}) \cup (t.Flags \cap {16})]

(* The offers after a transaction that meets no other order.               *)
Apply(offers, t, sequence) ==
  {o \in offers : ~(o.Account = t.Account /\ o.Sequence = t.OfferSequence)}
    \cup IF t.TransactionType = "OfferCreate" /\ t.Flags \cap {17, 18} = {}
         THEN {OfferOf(t, sequence)} ELSE {}

(* The sequence number of a transaction is here that of its ledger.        *)
Include(t) ==
  /\ tx' = t
  /\ ledgers' = Append(ledgers, Apply(Last(ledgers), t, validated + 1))

PlaceOrder(maker) ==
  /\ validated < MaxVersion
  /\ \E direction \in {"buy", "sell"}, gets \in Issues, pays \in Issues,
        rate \in Rates, lots \in Lots,
        options \in {{}} \cup {{o} : o \in Options},
        replaced \in {0} \cup {o.Sequence : o \in Last(ledgers)} :
       LET Of(issue, n) == [currency |-> issue.currency, value |-> n,
                            counterparty |-> issue.counterparty]
           order == [direction |-> direction,
                     quantity |-> IF direction = "buy" THEN Of(pays, rate * lots)
                                  ELSE Of(gets, lots),
                     totalPrice |-> IF direction = "buy" THEN Of(gets, lots)
                                    ELSE Of(pays, rate * lots),
                     options |-> options, orderToReplace |-> replaced]
       IN /\ gets # pays
          /\ Include(setCanonicalFlag(createOrderTransaction(maker, order)))
  /\ UNCHANGED <<call, answers, book>>

CancelOrder ==
  /\ validated < MaxVersion
  /\ \E o \in Last(ledgers) :
       Include(setCanonicalFlag(
         createOrderCancellationTransaction(o.Account, o.Sequence)))
  /\ UNCHANGED <<call, answers, book>>

(* An offer is taken, by a payment or by another order.                    *)
Trade ==
  /\ validated < MaxVersion
  /\ \E o \in Last(ledgers) : ledgers' = Append(ledgers, Last(ledgers) \ {o})
  /\ tx' = None
  /\ UNCHANGED <<call, answers, book>>

-----------------------------------------------------------------------------
(* getOrders: one ledger, sorted by sequence                               *)

getOrders(maker, v) ==
  LET offers == {parseAccountOrder(o) : o \in {p \in ledgers[v] : p.Account = maker}}
  IN InOrder(offers, {p \in offers \X offers : p[1].sequence < p[2].sequence})

-----------------------------------------------------------------------------
(* getOrderbook                                                            *)

renameCounterpartyToIssuer(issue) ==
  [currency |-> issue.currency, issuer |-> issue.counterparty]

(* The request of a side: for asks, the taker gets the base.               *)
RequestOf(side, base, counter) ==
  LET asks == side = "asks"
  IN [taker_gets |-> renameCounterpartyToIssuer(IF asks THEN base ELSE counter),
      taker_pays |-> renameCounterpartyToIssuer(IF asks THEN counter ELSE base)]

InBook(offer, request) ==
  /\ <<offer.TakerGets.currency, offer.TakerGets.issuer>>
       = <<request.taker_gets.currency, request.taker_gets.issuer>>
  /\ <<offer.TakerPays.currency, offer.TakerPays.issuer>>
       = <<request.taker_pays.currency, request.taker_pays.issuer>>

Quality(offer) == offer.TakerPays.value \div offer.TakerGets.value

(* book_offers: the offers of a book in a ledger, best first.              *)
BookOffers(request, v) ==
  LET offers == {o \in ledgers[v] : InBook(o, request)}
      Better(a, b) == \/ Quality(a) < Quality(b)
                      \/ Quality(a) = Quality(b) /\ a.Sequence < b.Sequence
  IN InOrder(offers, {p \in offers \X offers : Better(p[1], p[2])})

(* The order of strings, which is what the qualities are.                  *)
FirstDigit(n) == IF n < 10 THEN n ELSE n \div 10
StringBefore(m, n) ==
  \/ FirstDigit(m) < FirstDigit(n)
  \/ FirstDigit(m) = FirstDigit(n) /\ m < n

(* _.sortBy, which is stable, of the offers at some places.               *)
sortByQuality(offers, places) ==
  LET Before(i, j) ==
        \/ StringBefore(Quality(offers[i]), Quality(offers[j]))
        \/ Quality(offers[i]) = Quality(offers[j]) /\ i < j
  IN InOrder(places, {p \in places \X places : Before(p[1], p[2])})

(* Mutant of isSameIssue: the counterparty is not compared.                *)
isSameCurrency(a, b) == a.currency = b.currency
isSameIssue(a, b) == a.currency = b.currency /\ a.counterparty = b.counterparty

flipOrder(order) ==
  [order EXCEPT
     !.specification.quantity = order.specification.totalPrice,
     !.specification.totalPrice = order.specification.quantity,
     !.specification.direction = IF @ = "buy" THEN "sell" ELSE "buy"]

alignOrder(base, order) ==
  IF isSameIssue(order.specification.quantity, base) THEN order ELSE flipOrder(order)

(* Sorted and then filtered by their direction, or the other way round.    *)
formatBidsAndAsks(base, offers) ==
  LET Aligned(i) == alignOrder(base, parseOrderbookOrder(offers[i]))
      Facing(direction) ==
        LET places == {i \in DOMAIN offers : Aligned(i).specification.direction = direction}
            sorted == sortByQuality(offers, places)
        IN [k \in DOMAIN sorted |-> Aligned(sorted[k])]
  IN [bids |-> Facing("buy"), asks |-> Facing("sell")]

(* ledgerVersion is 0 for undefined: the request says 'validated'.         *)
GetOrderbook ==
  /\ call = None
  /\ \E base \in Issues, counter \in Issues, ledgerVersion \in 0 .. validated :
       /\ base # counter
       /\ call' = [base |-> base, counter |-> counter,
                   ledgerVersion |-> ledgerVersion, since |-> validated]
  /\ UNCHANGED <<ledgers, tx, answers, book>>

(* The answer to one of the requests; Promise.all waits for both.          *)
AnswersBook(side) ==
  /\ call # None /\ answers[side] = None
  /\ LET v == IF call.ledgerVersion = 0 THEN validated ELSE call.ledgerVersion
         request == RequestOf(side, call.base, call.counter)
         now == [answers EXCEPT ![side] = [offers |-> BookOffers(request, v)]]
     IN /\ answers' = now
        /\ book' = IF None \in {now[s] : s \in Sides} THEN None
                   ELSE formatBidsAndAsks(call.base, now["asks"].offers
                                                       \o now["bids"].offers)
  /\ UNCHANGED <<ledgers, tx, call>>

-----------------------------------------------------------------------------

Init ==
  /\ ledgers = <<{}>>
  /\ tx = None
  /\ call = None
  /\ answers = [side \in Sides |-> None]
  /\ book = None

Next ==
  \/ (\E maker \in Makers : PlaceOrder(maker)) \/ CancelOrder \/ Trade
  \/ GetOrderbook \/ (\E side \in Sides : AnswersBook(side))

Spec == Init /\ [][Next]_vars

-----------------------------------------------------------------------------
(* Properties                                                              *)

(* A specification that a read gives would create an order equivalent to   *)
(* the current state of the order (docs/index.md 1788, 2173): getOrders    *)
(* gives the same offer, and getOrderbook, which turns an order to the     *)
(* base, one with the same amounts that is passive if it was.              *)
ReadsRecreate ==
  \A v \in DOMAIN ledgers : \A o \in ledgers[v] :
    LET Again(spec) ==
          OfferOf(setCanonicalFlag(createOrderTransaction(o.Account, spec)), o.Sequence)
    IN /\ Again(parseAccountOrder(o).specification) = o
       /\ \A base \in Issues :
            LET turned == Again(alignOrder(base, parseOrderbookOrder(o)).specification)
            IN [turned EXCEPT !.Flags = @ \ {17}] = [o EXCEPT !.Flags = @ \ {17}]

(* The bids of an order book buy the base and the asks sell it, each for   *)
(* the counter (orderbook.js 77-79), and each side is complete: that of    *)
(* the ledger asked for, or of a ledger validated during the call.         *)
BookOfALedger ==
  book # None =>
    \A side \in Sides :
      \E v \in IF call.ledgerVersion = 0 THEN call.since .. validated
               ELSE {call.ledgerVersion} :
        /\ {<<o.maker, o.sequence>> : o \in ToSet(book[side])}
             = {<<o.Account, o.Sequence>> : o \in
                  {p \in ledgers[v] :
                     InBook(p, RequestOf(side, call.base, call.counter))}}
        /\ \A o \in ToSet(book[side]) :
             /\ o.specification.quantity.counterparty = call.base.counterparty
             /\ o.specification.totalPrice.counterparty = call.counter.counterparty

(* The best deals come first (src/test/api-test.js 1075).                  *)
BestFirst ==
  book # None =>
    \A side \in Sides : \A i, j \in DOMAIN book[side] :
      i < j => book[side][i].makerExchangeRate <= book[side][j].makerExchangeRate

=============================================================================
