# A verification of ripple-lib

ripple-lib is a JavaScript client of a rippled server.  An application holds a
`RippleAPI`, which holds one `Connection`: a WebSocket that the library keeps
alive.  Every method of the API is one or several requests over that
connection, matched to their answers by an id, and a computation on the
answers.  This directory models the parts of it in which state, order and
failure matter, checks them with TLC, and proves what matters most with TLAPS.

Paths are those of the repository with a leading `src/`, so the library itself
is `src/src/`.  `PROJECT.json` is the index: it lists components, runs, the
lines each definition stands for, hazards, findings and theorems.

## 1. The system

JavaScript runs one callback to its end before the next one begins.  The
interleavings are those of callbacks: calls of the application, events of the
socket, timers, and promise reactions.  Nothing is persisted; a restart of the
process starts from nothing.

| component | state | operations | hard about it |
|---|---|---|---|
| connection lifecycle, `common/connection.js` | `_ws`, `_isReady`, `_retry`, `_retryTimer`, two bound listeners, the listeners of every socket, pending promises | `connect`, `disconnect`, `_onOpen` (subscribe), `_onUnexpectedClose`, `_retryConnect` | listeners of an old socket act on the current one; a close at any point; two ways to wait for one event; the retry loop against calls of the application |
| requests, `common/connection.js` 340-446 | `_nextRequestID`, listeners by id, listeners of close, timeouts | `request`, `_send`, `_whenReady`, the answer, the timeout, the close | a late answer, timeout and close race to settle one promise; cleanup among other requests |
| ledger view, `common/connection.js`, `common/rangeset.js`, `api.js` | `_ledgerVersion`, `_availableLedgerVersions` | messages `ledgerClosed`, the answer to subscribe, `getLedgerVersion`, the guard of `RestrictedConnection` | what is kept is of an earlier moment than the server's; values survive an outage; values are read before the wait |
| transaction lookup, `ledger/transaction.js` | one call: options, answers | `getTransaction`: request `tx`, request `ledger`, the verdict | the verdict reads the ranges after the answer; failures turn into verdicts |
| transaction history, `ledger/transactions.js`, `ledger/utils.js` | one call: options, marker, rest, results | `getTransactions`: pages, filters, limit, gap check | pages and gap check are of different moments; limits and filters |
| submission, `transaction/utils.js`, `submit.js`, `sign.js`, `combine.js` | one call: three fetches | `prepare*`, `sign`, `submit` | what a prepared transaction says of the ledger is old when it is used; a failure that is not final |
| orders, `transaction/order.js`, `ordercancellation.js`, `ledger/orders.js`, `orderbook.js`, `parse/` | one call | `prepareOrder`, `getOrders`, `getOrderbook` | two requests, two ledgers; two tables of flags; direction and base |
| settings and trust lines, `transaction/settings.js`, `trustline.js`, `ledger/settings.js`, `trustlines.js`, `parse/` | none | `prepareSettings`, `prepareTrustline`, `getSettings`, `getTrustlines` | flags by index, by bit, by difference; fields whose defaults remove them |
| payments and paths, `transaction/payment.js`, `ledger/pathfind.js`, `parse/` | one call | `preparePayment`, `getPaths` | one or two requests while the balance changes; amounts in XRP and in drops; what is found must be payable |
| escrows, `transaction/escrow-*.js` | none | `prepareEscrow*` | times are rounded before they are compared; the error path of one of them |
| payment channels, `transaction/payment-channel-*.js`, `offline/`, `ledger/payment-channel.js` | none | `preparePaymentChannel*`, `signPaymentChannelClaim`, `verifyPaymentChannelClaim`, `getPaymentChannel` | what is signed off the ledger must be what the ledger accepts later |
| other account reads, `ledger/balances.js`, `trustlines.js`, `balance-sheet.js`, `accountinfo.js` | one call | one or two requests, pages | several requests while ledgers are validated: one ledger or two |
| broadcast, `broadcast.js` | several APIs, the last ledger | race of calls, `ledger` events once each | the first answer wins, a failure too; servers behind one another |
| http proxy, `http.js` | one API, one server | `start`, `stop` | overlapping calls, failed connects |
| other parsing, validation, offline functions, browser support | none | conversions | data, not order |

Interaction: `Connection` gives the others `this._ws`, `_isReady` and the
events `connected` and `disconnected`; requests listen to the socket's close
and to the event `connected`; the ledger view is fed by messages and by the
reaction to the answer of subscribe; lookups, histories and submissions send
requests and read the ledger view.  A broadcast has one API, so one connection,
for each of its servers.

What makes each of them correct is stated by the properties below; what could
go wrong, with its line, is the list of hazards in `PROJECT.json`.

## 2. The modules

```
Link                 the life of this._ws as its users see it
 |-- Connection      implements it: sockets, listeners, promises, timers
 |-- Requests        every request over the sockets of Link
 |-- LedgerView      versions and ranges over the sockets of Link, with RangeSet
 `-- Submission      a payment: prepare, submit, verify, over the sockets of Link
TransactionLookup    getTransaction on a ready connection
TransactionHistory   getTransactions on a ready connection
Broadcast            several APIs: their ledgers as one stream, calls that race
Specifications       what a ledger is asked for, and what is read of it
 |-- Payments        payments, paths and delivered amounts
 |-- Orders          orders to the ledger and back, getOrderbook's two requests
 |-- Settings        settings and trust lines to the ledger and back
 |-- Escrows         an escrow and its times
 |-- Channels        a payment channel and the claims off the ledger
 `-- Amounts         amounts, times and flags (used by four of them)
Sorting, Objects     sorting, selecting and objects with optional fields
```

Eight modules hold the theorems: `ConnectionProofs`, `RequestsProofs`,
`LedgerViewProofs`, `TransactionLookupProofs`, `TransactionHistoryProofs`,
`SubmissionProofs`, `BroadcastProofs` and `SpecificationsProofs`.

**Link** is the abstract specification.  Its two variables are what `_state`
and `_isReady` show; its seven actions are the only ways they change.
`Connection` refines it (`LinkImplemented`, with `phaseOf` as the refinement
mapping), `Requests`, `LedgerView` and `Submission` are composed with it: each of
their actions that concerns the socket is an action of Link with its effect on them.
So a property of requests is one of any behaviour of the connection that Link
admits.

**Connection** has a variable for every field that steers the control, and one
per kind of listener on a socket.  A listener's identity is kept
(`closeBound`), since `removeListener` acts on whatever `this._ws` is at that
moment.  An action is one callback, with all the listeners it fires.  Decisions
taken:

* the socket is that of the node package `ws` 1.1.1: an error is followed by
  the close event in the same callback; a socket is CLOSING from the server's
  close frame to its close event; `close()` while CONNECTING is the state
  ABORTING, which shows as CLOSING.  A close with no error before the open event
  happens in browsers (`wswrapper.js`);
* the url is given, and an application's listeners do nothing but call;
* the answer to a subscribe request is an event, and the reaction to it an
  action of its own (`Subscribed`, `NotInitialized`): another frame may be
  received between the two when one network read delivers both (`Quiet`);
* an error event without a listener, or an exception thrown in one, ends the
  process (`crashed`).  Error events may come at any time; `HandshakeFaults` says
  whether the server may also close, or refuse, between the open event and the
  answer to subscribe.

**Requests** numbers requests in the order they are made and keeps for each
what `request()` keeps in its closure: id, chain (`_whenReady`, send, timeout),
listeners.  A message that reaches the server is answered, late, or never.

**LedgerView** has the server's ledgers next to what the connection believes of
them; `told` is the plain set of what the messages said, the reference for the
ranges of `RangeSet`.  The socket delivers all frames of a read before any
promise reaction runs, so a `ledgerClosed` message may be used ahead of the
reaction to the answer to subscribe, which then sets an older version; the
history variable `overtaken` remembers the ledger for which that happened.
`RestrictedConnection.request` compares a `ledger_index` only when it is a
number: a request that names none reads the server's open ledger
(`LedgerRead`).

**TransactionLookup** and **TransactionHistory** model one call against a
server that goes on validating, acquiring and deleting ledgers between its
answers.  A promise chain that needs no answer is one action; messages of the
read that brought the answer come before it, and the history variable `late`
has the ledgers that the connection first heard of in between.  `account_tx` is
modelled by what the comments in `transactions.js` 107-110 say of it: all
transactions in the ledgers the server has, a default of -1 being the earliest
or latest of them.  `transactionFilter` is a set `matching`.  An
UnexpectedError (a ledger without close_time) and the errors of the requests
themselves (which `convertError` passes on) are left out.

**Submission** is one payment of an application that follows
`docs/index.md`, "Transaction Flow": it prepares, submits, asks until the
answer is final, and after a final failure prepares the payment again.  The
connection is Link; the fetches of a prepare are answered in any order, wait
for readiness or are rejected with their socket (`need`, `sent`, `read`).  The
network may hold a transaction that it answered with an error, and a submit
that timed out may still arrive.  A lookup is `Lookup`, the answer to `tx`, the
answer to the request of the ledger that dates it, or a failure of either, and
`Concludes`, against a server that has all of its ledgers; a `ledgerClosed`
message may come between an answer and its reactions (`Hears`).  The history
variable `misled` has the attempts that were given up upon a NotFoundError after
a failure or such a message.  The instructions `sequence`, `fee` and `maxLedgerVersion`
are given or not; the application does not connect twice and does not prepare
without a socket.

**Broadcast** has an API for each of several servers, one of which may be ahead
of another.  The part of each connection that it needs is the state of its
socket as requests see it (`link`), what it heard and the messages on its wire:
Connection, Requests and LedgerView have the rest.  A request with no socket is
rejected at once; one that is made before the socket is open cannot be sent and
is rejected when it closes or, at the latest, at the event `connected`; only
`getLedgerVersion` waits for that event, and the request that needs its version
with it.  A timer runs once the connection is ready.  A ledger that an API hears is emitted, or not, in the same callback
(`Hears`).  A call goes to all APIs in one turn and is settled by the first;
what the others still do changes nothing afterwards.  `getBalances` is two
requests, the second of them in pages, and each of the two may wait for a
version, be refused by the guard, be rejected, time out or be lost with its
socket.  A balance is the
version of the ledger it was read in, which is what tells one ledger from two.

**Amounts** has the conversions as what they do: a value of XRP is an integer of
tenths of a drop, so that some values lose a part in drops; a time is an
integer of quarter seconds, so that some are rounded up; absent fields have the
value `undefined`.

**Sorting** and **Objects** define again what the library modules have as
`SetToSortSeq`, `SelectSeq`, `:>` and `@@`, which TLC evaluates by a choice of
its own or by recursion: `InOrder` puts an element where as many come before it
as should, `Kept` is a recursive function.  So the models that TLC runs are
those that the proofs are about.

**Specifications** puts the five kinds of things a ledger is asked for side by
side: a behaviour is of one `topic`, and its state is that kind's.  It adds
`parseTransaction`, which finds the parser for any transaction, and states
`SameOutcome` for all kinds.  In each of the five, `prepare*` is translated as
it makes a transaction of a specification; rippled, which is external, accepts
or refuses it; and the reads make specifications of it again.

* **Payments**: the options of a payment and their exclusions; `getPaths` is a
  request for paths and, for a destination that accepts XRP, another for the
  balance, between which the balance changes; then the payment that is prepared
  of a path; `parseDeliveredAmount` on the metadata that old and new servers
  give.  The alternatives of an answer and the paths that are found are sets:
  their order decides only that of the result.
* **Orders** follows an order through four shapes: the specification, the
  transaction, the offer in the ledger, the specification that a read gives.
  A value of flags is the set of its bits, so that the two tables
  (`OfferCreate` for transactions, `orderFlags` for ledger entries) overlap as
  they do in the code.  Amounts are of issued currencies, and no two orders
  cross: an offer disappears when it is taken (`Trade`) or cancelled.
  `getOrderbook` is two requests, each answered from the ledger that is
  validated at that moment.  The qualities of the model are integers below 100,
  of which `StringBefore` is the order as strings.
* **Settings** follows settings, one per transaction as the schema demands, and
  the sides of a trust line in the same way: flags go out by index
  (`AccountFlagIndices`), come back by bit (`AccountFlags`), and are read off a
  transaction as the difference it made.  rippled drops the fields that are at
  their default.  What rippled refuses (a master key disabled without another
  key) is left out.
* **Escrows**: an escrow is created, then executed or cancelled when the
  ledger's close time allows it, by specifications that are right or wrong.
* **Channels**: a channel is created, funded, claimed from by either party and
  closed at once or after its delay.  A signature is the record of what is
  signed and with which key, so that a claim made for another amount does not
  verify.

Memos are left out of all of them, and tags of escrows and channels, which are
copied.

Operators marked "Mutant of X" are not part of a model: they are wrong on
purpose, and show with `PROJECT.json` "mutants" that the property named there
would notice that mistake in the code.

## 3. The runs

| run | shows | bounds |
|---|---|---|
| connection_careful | for an application that awaits its calls, with error events at any time, on handshakes that the server neither closes nor refuses: `OneCloseReaction`, `NoOrphanSocket`, `NoLostCall`, `OneReconnectLoop`, `LossIsNoticed`, `OnlyHandshakeThrows`, `ConnectMeansReady`, `EventsAlternate`, liveness `CallsSettle` and `OutageEnds`, and the refinement `LinkImplemented` | 3 sockets and 3 promises alive at once, numbers are used again, so behaviours are of any length |
| connection_any | for every application and every fault: `DisconnectNotLost`, `RequestsHaveSocket`, `ReadyWasAnnounced`, and the types, `TypeOK` | 2 sockets, 2 promises at once |
| requests | `TypeOK`, `OwnAnswer`, `PendingIsHeard`, `SettledIsSilent`, `NoneOutlives`, liveness `ReadyRequestsSettle` | 4 requests |
| ledger_view | `BehindByOneReadOnly`, `RangesMatch`, `ReturnedIsUsable` | 3 ledgers, 2 messages under way: ranges with a gap, all ways to close it, and an answer with a later message in one read |
| transaction_lookup | `NotFoundIsFinal`, `FoundIsValidated` | 3 ledgers, 2 messages |
| transaction_history | `NoSilentGap`, `WithinLimit`, liveness `PagingEnds` | 3 ledgers with one transaction each, pages of 1 or 2, limits 1 and 2 and none: a call needs two pages, a page can be filtered empty |
| submission | `PaidOnce` | 4 ledgers, 2 attempts, 3 sequence numbers: an attempt can expire while its copy is under way, another client can take its sequence, and a lookup can fail or be overtaken by a ledger |
| specifications | `PathsCanBePaid`, `DeliveredIsTold`, `BookOfALedger`, `ReadsBack`, `EscrowAsAsked`, `ClaimsHonoured`, and `SameOutcome` for every kind of transaction | payments: amounts of XRP and issued, each way to give them, every set of options, balances below and above what is sent, one alternative in an answer, a ledger before metadata had delivered amounts and two after. Orders: 2 makers, 2 issuers, 2 rates, 3 ledgers, so two orders on either side and a ledger between the two requests. Settings: a flag that can be set and cleared, one that is for good and one that is a field in the ledger, every field, a list of signers; all options of a trust line. Escrows and channels: one, with times on both sides of a rounding, before and after each close |
| broadcast | `EmittedOnce`, `AnswerIsOfOneLedger`, liveness `RaceSettles` | 2 servers, one of them ahead or not, 3 ledgers, 3 trust lines in pages of one, 1 lost connection: ledgers between all the requests of a call, and a server that is lost in the middle of one, or before a request could be sent |
| connection_refused | violated: `OutageEnds` with handshakes that may fail | as connection_careful |
| history_gap | violated: `NoGapInSpan` | as transaction_history |
| submission_twice | violated: `PaidOnceOnly` | as submission |

Deadlock is not checked where the system may stop: the bounds on ledgers and
requests end behaviours, a crash ends the process, and a connection at rest
needs nothing.

**Fairness.**  Callbacks that the event loop has queued run: timers, promise
reactions (weak fairness).  The operating system ends what it began: a socket
that was told to close closes, one that connects opens or fails.  `OutageEnds`
also needs a server that comes back: strong fairness of a successful handshake
(`ServerRecovers`), without which no retry loop could end an outage.
`ReadyRequestsSettle` asks nothing of the server; `PagingEnds` asks that it
answers.  `RaceSettles` asks only that timers end, nothing of the servers or of
the network: it is about a call that is made when one of the APIs is ready, whose
requests then have timers, or has no socket, where they fail at once.  A call
whose APIs are all connecting to servers that say nothing stays pending, as
`AllRequestsSettle` shows of one of them.  `CallsSettle` and `OutageEnds` end with
the process when an error of a handshake ends it.

**What the violations say.**

* A retry whose subscribe request is refused leaves an open socket; the next
  `connect()` of the loop finds it OPEN and resolves (276): no more retries,
  never ready.
* Without `maxLedgerVersion` the gap check asks for a range that ends at -1,
  which every range reaches (`transactions.js` 163, `rangeset.js` 53).
* `getTransaction` may answer NotFoundError, with a `maxLedgerVersion` whose ledgers
  are all there, for a transaction that is validated in one of them (see
  `NotFoundIsTrue` and `NotFoundIsTimely` below).  `docs/index.md` 306 tells
  applications to take that for final, and one that prepares the payment again
  pays twice.  `NotFoundIsFinal` and `PaidOnce`, which hold, say that nothing else
  leads there.

**Further divergences.**  These are properties of the modules that do not hold;
each has a configuration that shows it but is not among the runs above.

* `DisconnectEnds` (`Connection_disconnect.cfg`): `disconnect()` on a socket
  that is already CLOSING leaves the listener of unexpected closes on it; after
  the promise has resolved, the timer connects again (`connection.js` 317,
  against `docs/index.md` 698).
* `NoUncaughtException` (`Connection_throws.cfg`): `_onOpen` takes the error
  listener of the handshake off (`connection.js` 167) before it sends subscribe and
  adds the next one when the answer has come (188).  An error event in between
  has no listener and is thrown in the event loop; the comment at 285-287 has it
  returned to the caller of `connect()` or forwarded to the API.  It is the only
  way to throw, as `OnlyHandshakeThrows` of the runs has it.
* `AllRequestsSettle` (`Requests_timeout.cfg`): a request's timeout begins only
  when the connection is ready (441 with 340); on one that never becomes so,
  the promise stays pending (`docs/index.md` 149).
* `VersionIsCurrent` (`LedgerView_behind.cfg`): the reaction to the answer to
  subscribe (`connection.js` 183) sets the version and the ranges of that answer
  over those of a `ledgerClosed` message that came in the same read, so
  `getLedgerVersion()` is not the most recent version (`docs/index.md` 830, 838)
  until the next ledger closes.  `BehindByOneReadOnly` of the runs says that it is
  never worse.
* `OnlyValidated` (`LedgerView_open.cfg`): "prevent access to non-validated ledger
  versions" (`api.js` 74) is not what the guard does for a request that names no
  ledger: `account_info` of `transaction/utils.js` 90-94 reads the open one.  A
  prepare wants just that, but `docs/index.md` 89 makes no exception.
* `NotFoundIsTimely` (`TransactionLookup_late.cfg`): when the transaction's ledger is
  told in the same read as `txnNotFound`, the check of the ranges sees it
  (`transaction.js` 56) and takes the error for final (`docs/index.md` 306).
* `NotFoundIsTrue` (`TransactionLookup_fails.cfg`): a transaction that was found,
  validated and in range becomes NotFoundError when the request for its ledger's
  time fails for any reason (`transaction.js` 39).
* `StartIsFirst` (`TransactionHistory_start.cfg`): the transaction given as
  `start` is left out of the result (`transactions.js` 84, against
  `docs/index.md` 1023).
* `DefaultIsCurrent` (`Submission_stale.cfg`): a prepare on a connection that is
  not ready yet computes its default last ledger from the version it read
  before, which may be null or of an earlier connection (`transaction/utils.js`
  51, `connection.js` 353, against `docs/index.md` 301).
* `BestFirst` (`Orders_sorted.cfg`): the offers of an order book are sorted by
  qualities that are strings (`orderbook.js` 87): at rates 2 and 10 the worse deal
  comes first, against the comment at 83-86 and `src/test/api-test.js` 1075.
* `DirectPathOffered` (`Payments_direct.cfg`): the direct payment in XRP is to be
  added when the sender has enough XRP (the comment at `pathfind.js` 60), but
  the balance, in XRP, is compared with an amount in drops (62): at a million
  drops to the XRP it is added only to those who have a million times as much.
* `ClaimAsDocumented` (`Channels_documented.cfg`): `docs/index.md` 649-650 and
  the schema of the claim say that `amount` is the channel's balance after the
  claim and `balance` what the signature authorizes; the code gives them to
  rippled under their own names, where they mean the opposite
  (`payment-channel-claim.js`).

Read while modelling, and left out of the properties (each property says so
where it makes the exception):

* Against `docs/index.md` 878, a specification that produces the same outcome:
  `parsePayment` does not read `DeliverMin`, `parseOrder` not `orderToReplace`;
  the removal of a regular key, of a transfer rate or of the signers is read
  back as an empty specification, a rate of 0 or an empty list of weights, which
  the schemas refuse.  These are the five exceptions of `SameOutcome`.
* `getSettings` never returns `enableTransactionIDTracking` and `signers`,
  although `docs/index.md` 2725 and 2734 list them.
* `getPaths` with `source.amount` compares `source_amount.value` of each
  alternative (`pathfind.js` 96), which one in XRP has not: depending on
  bignumber.js the comparison throws and the whole call fails, or the alternative
  is dropped (`throws` in Payments).  The direct path in XRP is added although
  `source.currencies` may not list XRP; and when the destination's value is
  omitted its default of -1 is below every balance.
* `escrow-execution.js` 28 throws a `ValidationError` that the file does not
  import: the promise is rejected with a ReferenceError.  Its siblings import it.
* A time of 0 that rippled gives is read as an absent one
  (`parseTimestamp`): only the first second of 2000 is meant.
* `getLedgerVersion` may answer null before the first ledger was heard
  (`connection.js` 353, against `docs/index.md` 838).
* A broadcast call is rejected when the first server to settle fails although
  another would answer, and may be answered from an older ledger than the last
  one emitted, by the server that is behind.
* `http.js`: a second `start()` during the first passes its guard (55) and makes a
  second server; a `connect()` that fails leaves the promise of `start()` unsettled
  (59); `stop()` does not wait for `disconnect()`.

## 4. The proofs

Every safety invariant and every action property that a passing run checks is
also a theorem: what TLC finds on the bounds of section 3 holds for all
values of the constants, under the assumptions that the modules name.  An
assumption about a bound says that it is a natural number; those of
Specifications say what its values are:

* `AbsentAssumption`, `NumbersAssumption`, `KeysAssumption`: `undefined`, the
  value of an absent field, is no amount, time, account, key or entry.
  Channel times are not in the first half second of 2000, which becomes the
  ledger's 0 and is read as no time (`parseTimestamp`, see section 3): that is the
  one value the theorems about times exclude, and the code does mistake it.
* `PaymentsAssumption`, `RatesAssumption`, `SettingsAssumption`: values are
  numbers of the schemas' ranges, and qualities are below 100, where
  `StringBefore` is defined; flags have an index; a key is not the empty text.

By module:

* **ConnectionProofs.**  For every application and fault: `TypeCorrect`;
  `ReadyIsAnnounced`, which is inductive as it stands with the types;
  `RequestsKeepSocket`, where the strengthening adds where requests in other
  states live; `DisconnectSettles`, on the invariant that a pending disconnect
  has a living socket with its listener, through `CloseEventKeepsSettlers` for
  the handler that fires all of them.

  The second part is about `CarefulSpec`, an application that awaits its calls
  and handshakes that the server neither closes nor refuses; error events come at
  any time, and after one that throws nothing moves.  `CarefulInv` says that the object is in one of
  five situations (no socket lives, connecting, in the handshake, serving
  requests, closing), and for each of them which listeners the socket has, which
  promises are pending and what waits for them; all other sockets are gone.
  Without the situations no single invariant is inductive: that no promise is lost
  needs to know where its listener is, and that needs to know which socket
  `closeBound` was made on.  Each action leads from one situation to another, or
  stays.  From it follow `OneReaction`, `ThrowsInHandshakeOnly`, `NoneOrphaned`,
  `LossesNoticed`, `NoneLost`, `OneLoop`, `ResolvesWhenReady`, `AnnouncedInTurn`
  and the refinement `ImplementsLink`: each step of Connection is one of Link, or
  leaves what Link shows as it is.
* **RequestsProofs.**  One invariant `RInv` gives all five theorems: ids are
  distinct and below the counter, each listener of an event belongs to the
  request with that id, and who is pending and sent is heard and still at the
  server.
* **LedgerViewProofs.**  `SafeInv`: nothing kept, waiting or under way is above
  what is validated.  `VersionIsKept` from `ViewInv`: the answer to subscribe is
  the first message of its socket, and the server's latest version is in the last
  message under way, in the answer whose reaction is to run, in use, or
  `overtaken` (`Latest`).  `ReturnedStaysUsable` from `OrderInv`: messages
  come in order of their versions, none is older than what the connection knows or
  has told a caller, and nothing known is newer than what is in use but for
  what was used ahead of a reaction.  `RangesAreTheVersionsTold` from `RangesInv`: the ranges of
  `RangeSet` are disjoint, in order and not adjacent (`Apart`), and denote the
  set `told`.  Its lemmas are the contract of `RangeSet`: what `InOrder` and the
  fold of the community modules return, what a step of merging keeps
  (`PushFacts`), that adding ranges adds what they denote (`AddFacts`,
  `ParseFacts`), and that `containsRange` then asks for every version of a range
  (`ContainsFacts`).
* **TransactionLookupProofs.**  `ResolvedIsValidated` from `FoundInv`: what an
  answer says stays true.  `NotFoundIsDefinite` from `FinalInv`, with no
  assumption on reads or failures: when a lookup concludes, the ranges it reads are
  of ledgers that the server had validated (`Behind`), and the transaction is in
  none of those that the connection knew when the answer came (`Unseen`); so it is in
  one that came later (`late`), or a request failed.
* **TransactionHistoryProofs.**  `ReturnsWithinLimit` and `ReturnsAll` from
  `HistoryInv`.  A call is described by the place its marker has reached: of the
  ledgers that the server has had all along, the results have all that pass the
  filters up to it (`Complete`), a page has all that follow it up to its own last
  (`Good`), and the limit is what is left plus what is kept.  What the gap check
  reads is of ledgers that the server had at some time (`Behind`), so a range that
  passes it was there for every page.
* **SubmissionProofs.**  `PaysOnce`: an attempt that was given up is dead,
  either unknown to the network for good or past its last ledger and in none, or
  the application was misled about it (`PastDead`); the attempts to come are unknown to it (`Unsent`).  That an
  answer of class `tem` is a reason to give up needs that the server which
  answered had the transaction from nowhere else (`RejectedOut`); that
  txnNotFound is one, that no ledger came since (`Seen`).  So, misleading lookups
  apart, there is at most one attempt at a time that can be applied, for any number of attempts,
  ledgers and sequences.
* **BroadcastProofs.**  `EmitsOnce` from `StreamInv`: what was last emitted is not
  below any version that an API emitted, so comparing with it is enough, for any
  number of servers however far they are behind one another.
  `AnswersAreOfOneLedger` from `RaceInv`: during a race each part of an API's job
  asks for one ledger, the caller's or the one the API had heard of when it was
  called (`AskedFor`), and the pages received so far are a beginning of the lines
  of that ledger (`JobOk`); so both requests of a call are of the same one, even
  when it waits through a reconnection.
* **SpecificationsProofs.**  The modules of each kind are instances there, and no
  step of another topic changes their state, so each invariant is of one kind.
  * `PathsArePayable` and `OutcomesTellDelivered` from `PaymentInv`: a path found
    is an alternative of the answer, or the direct one when the balance that was
    read covers it; metadata say what was delivered, or it is the amount.
  * `BooksAreOfALedger` from `OrderInv`: each of the two answers has all offers of
    its side in a ledger validated since the call began, and sorting and
    formatting them loses none.
  * `ReadsGiveWhatWasAsked` from `OrderInv`, `RootInv`, `LineInv` and
    `ChannelInv`: what the account root, a line and a channel keep of what was
    asked for, field by field.  A quality of 1 is kept as none; a channel's amount
    lacks less than a drop for each funding; a time is rounded up.
  * `SpecificationsRecreate` from `SentInv`: what was sent to a ledger is what
    `prepare*` made of some specification, and for each kind, parsing and
    preparing it again gives back every field.  Settings and trust lines are
    compared by what they do to the account they are applied to.
  * `EscrowsAsAsked` (an escrow ends only as and when it was asked to; that it can be
    ended then is not stated) from `EscrowInv`: what is in the ledger says of an escrow what
    its specification said, rounded, and `RoundedBefore` that what comes after a
    rounded time in whole seconds comes after the time itself.
    `ClaimsAreHonoured` from `ClaimInv`: a signature is for the drops of the amount
    that was asked for.

What a recursive function computes is proved where it is needed (`Kept`, the
fold in `RangeSet`) by a least counterexample, since the induction theorems of
the library cannot be applied.

Three things in the models were wrong or said too little, and attempts at proofs
found them: the type of the history's `left` did not admit a limit above the
number of transactions; the initial states of Broadcast have servers with one
or two ledgers, which needs two versions (`BroadcastAssumption`); and a channel
that may be cancelled in the first half second of 2000 reads as one that may
not.

Only model-checked: the liveness properties `CallsSettle`, `OutageEnds`,
`ReadyRequestsSettle`, `PagingEnds` and `RaceSettles`, since fairness needs
ENABLED, which the provers do not have; and the properties that are violated.

## 5. Plan

1. *(done)* Link, Connection, Requests, RangeSet, LedgerView, lookup, history.
2. *(done)* Submission: what a prepared transaction's last ledger and sequence
   are worth, and when a failed one may be prepared again.
3. *(done)* All kinds of transactions to the ledger and back, with paths, escrows,
   payment channels and their claims, under one `parseTransaction`.
4. *(done)* Broadcast, with the calls of several requests that race over it.
5. *(done)* Proofs: the refinement of Link, the invariants of a careful
   application, and every safety property of the runs.
6. Left: further properties of the proved invariants that are stronger than what
   the runs state (that a history whose gap check passes has each transaction
   once and in order; that the types of Broadcast and LedgerView hold);
   an abstract specification of a call that is answered from one ledger,
   which history, lookup and races could be shown to implement; the changes of
   balances and order books in outcomes, should their parser be part of the
   repository.

## 6. Not modelled

* The http proxy: `start` and `stop` of one API between two HTTP libraries, used by
  a script and by tests; its one variable is `httpServer`, and what goes wrong
  with it is said above.
* `getLedger` and the parsing of ledgers: one request and a translation.  The
  changes of balances and order books in outcomes come from an external
  package.  Two pseudo-transactions (`EnableAmendment`, `SetFee`) are no
  application's, and memos are copied.
* Keys, signatures, addresses and ledger hashes are cryptography of external
  packages; of `sign` and the claims the models have what is signed, by whom.
  `combine` joins the signatures of several accounts by external functions.
* JSON schemas are given to a library; they bound the inputs of the models.
* Fees are numbers that no control depends on.
* Messages that are malformed, and the events `error` of the API: the server is
  taken to speak its protocol.
* The WebSocket wrapper of browsers: the socket modelled is that of node.
* Build files and scripts for browsers and documentation are not part of the
  library.
