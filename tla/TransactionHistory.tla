------------------------- MODULE TransactionHistory -------------------------
(***************************************************************************)
(* getTransactions (src/src/ledger/transactions.js) on a ready connection: *)
(* it asks for the transactions of an account page by page, and then       *)
(* checks that the server has all the ledgers of the range.                *)
(*                                                                         *)
(* Between two pages, and between the last one and the check, the server   *)
(* goes on: it validates ledgers, acquires old ones, and deletes the       *)
(* oldest.  Its messages arrive in the order it sends them.                *)
(***************************************************************************)
EXTENDS Integers, Sequences, FiniteSets

CONSTANTS
  MaxVersion,   \* bound: ledger versions of the server
  MaxIndex,     \* bound: transactions of the account in a ledger
  MaxWire,      \* bound: messages under way
  MaxLimit,     \* bound: options.limit
  PageMin,      \* 10, the least limit a page is asked with
  PageMax       \* 400, the greatest one

ASSUME HistoryAssumption ==
  /\ MaxVersion \in Nat \ {0} /\ MaxIndex \in Nat \ {0}
  /\ MaxWire \in Nat \ {0} /\ MaxLimit \in Nat \ {0}
  /\ PageMin \in Nat \ {0} /\ PageMax \in Nat /\ PageMin <= PageMax

Versions == 1 .. MaxVersion
(* A transaction of the account is its place: its ledger, its index there. *)
Places == Versions \X (1 .. MaxIndex)
NoTx == <<0, 0>>
Infinity == Cardinality(Places) + 1   \* no limit: more than there is

VARIABLES
  matching,   \* the transactions that transactionFilter keeps
  validated,  \* the latest validated ledger of the server
  history,    \* the validated ledgers it has
  late,       \* those it has validated or acquired since the call
  lost,       \* those it has deleted
  wire,       \* its messages under way
  available,  \* the ledgers of _availableLedgerVersions
  options,    \* of the call
  stage,      \* idle, asked (a page), got (its answer), or settled
  marker,     \* the last transaction of the page before, or NoTx
  left,       \* how many transactions are still wanted
  page,       \* the page that has arrived
  results,    \* the transactions so far, which the result has in order
  outcome     \* how the promise has settled

serverVars == <<matching, validated, history, late, lost>>
callVars == <<options, stage, marker, left, page, results, outcome>>
vars == <<serverVars, wire, available, callVars>>

Page == [type : {"page"}, txs : SUBSET Places, more : BOOLEAN]
Message == [type : {"ledgerClosed"}, ledgers : SUBSET Versions] \cup Page
NoPage == [type |-> "page", txs |-> {}, more |-> FALSE]

(* minLedgerVersion: 0 for undefined; maxLedgerVersion: -1 by default.     *)
Options ==
  [min : 0 .. MaxVersion, max : {-1} \cup (1 .. MaxVersion + 1),
   limit : (1 .. MaxLimit) \cup {Infinity}, earliestFirst : BOOLEAN,
   start : Places \cup {NoTx}]
NoOptions == [min |-> 0, max |-> -1, limit |-> Infinity,
              earliestFirst |-> FALSE, start |-> NoTx]

TypeOK ==
  /\ matching \in SUBSET Places
  /\ validated \in Versions
  /\ history \in SUBSET Versions
  /\ late \in SUBSET Versions
  /\ lost \in SUBSET Versions
  /\ wire \in Seq(Message)
  /\ available \in SUBSET Versions
  /\ options \in Options
  /\ stage \in {"idle", "asked", "got", "settled"}
  /\ marker \in Places \cup {NoTx}
  /\ left \in Nat \ {0}
  /\ page \in Page
  /\ results \in SUBSET matching
  /\ outcome \in {"none", "resolved", "MissingLedgerHistory"}

Init ==
  /\ matching \in SUBSET Places
  /\ validated \in Versions
  /\ history \in {H \in SUBSET (1 .. validated) : validated \in H}
  /\ late = {}
  /\ lost = {}
  /\ wire = <<>>
  /\ available = history
  /\ options = NoOptions
  /\ stage = "idle"
  /\ marker = NoTx
  /\ left = Infinity
  /\ page = NoPage
  /\ results = {}
  /\ outcome = "none"

-----------------------------------------------------------------------------
(* Order                                                                   *)

(* compareTransactions(s, t) < 0                                           *)
Before(s, t) == s[1] < t[1] \/ (s[1] = t[1] /\ s[2] < t[2])

(* s comes before t in the pages, and in the result.                       *)
Precedes(s, t) == IF options.earliestFirst THEN Before(s, t) ELSE Before(t, s)

(* The first n transactions of S in that order.                            *)
Slice(S, n) == {t \in S : Cardinality({s \in S : Precedes(s, t)}) < n}

-----------------------------------------------------------------------------
(* The server                                                              *)

Send(m) == Len(wire) < MaxWire /\ wire' = Append(wire, m)

LedgerCloses ==
  /\ validated < MaxVersion
  /\ validated' = validated + 1
  /\ history' = history \cup {validated'}
  /\ late' = late \cup {validated'}
  /\ Send([type |-> "ledgerClosed", ledgers |-> history'])
  /\ UNCHANGED <<matching, lost, available, callVars>>

DeletesOldest ==
  \E v \in history :
    /\ v < validated /\ \A u \in history : v <= u
    /\ history' = history \ {v}
    /\ lost' = lost \cup {v}
    /\ UNCHANGED <<matching, validated, late, wire, available, callVars>>

Acquires(v) ==
  /\ v < validated /\ v \notin history \cup lost
  /\ history' = history \cup {v}
  /\ late' = late \cup {v}
  /\ UNCHANGED <<matching, validated, lost, wire, available, callVars>>

(* The transactions of account_tx, after the marker, in the ledgers that   *)
(* the server has.  -1 is the latest validated ledger.                     *)
Listed ==
  {t \in Places :
     /\ t[1] \in history /\ t[1] >= options.min
     /\ options.max # -1 => t[1] <= options.max
     /\ marker # NoTx => Precedes(marker, t)}

(* Math.min(Math.max(value, min), max)                                     *)
clamp(value, low, high) ==
  LET atLeast == IF value < low THEN low ELSE value
  IN IF atLeast > high THEN high ELSE atLeast

(* A page has at most as many as asked for.  A marker says there are more. *)
AnswersPage ==
  /\ stage = "asked"
  /\ \A i \in 1 .. Len(wire) : wire[i].type # "page"
  /\ \E n \in 1 .. clamp(left, PageMin, PageMax) :
       Send([type |-> "page", txs |-> Slice(Listed, n),
             more |-> Slice(Listed, n) # Listed])
  /\ UNCHANGED <<serverVars, available, callVars>>

-----------------------------------------------------------------------------
(* getTransactions                                                         *)

(* The transaction to start with, once found, gives a bound of the range.  *)
startBound(o) ==
  IF o.start = NoTx THEN o
  ELSE IF o.earliestFirst THEN [o EXCEPT !.min = o.start[1]]
  ELSE [o EXCEPT !.max = o.start[1]]

(* The schema admits start without the versions only.                      *)
GetTransactions ==
  /\ stage = "idle"
  /\ \E o \in Options :
       /\ o.start # NoTx => /\ o.min = 0 /\ o.max = -1
                            /\ o.start[1] \in history
       /\ options' = startBound(o)
       /\ left' = o.limit
  /\ stage' = "asked"
  /\ late' = {}
  /\ UNCHANGED <<matching, validated, history, lost, wire, available, marker,
                 page, results, outcome>>

(* _onMessage                                                              *)
Receive ==
  LET m == Head(wire) IN
  /\ wire # <<>>
  /\ stage # "got"
  /\ wire' = Tail(wire)
  /\ IF m.type = "ledgerClosed"
     THEN available' = m.ledgers /\ UNCHANGED <<stage, page>>
     ELSE page' = m /\ stage' = "got" /\ UNCHANGED available
  /\ UNCHANGED <<serverVars, options, marker, left, results, outcome>>

(* The first transaction is not in the result: the order is strict.        *)
orderFilter(t) == options.start # NoTx => Precedes(options.start, t)

(* formatPartialResponse                                                   *)
Kept == {t \in page.txs : t \in matching /\ orderFilter(t)}

containsRange(first, last) ==
  \E a, b \in available : a .. b \subseteq available /\ a <= first /\ last <= b

(* The first ledger is 32570, the first that there is: 1 in this model.    *)
hasCompleteLedgerRange(min, max) ==
  containsRange(IF min = 0 THEN 1 ELSE min, max)

LimitReached(all) == options.limit # Infinity /\ Cardinality(all) = options.limit

(* The last of the result.                                                 *)
LastOf(all) == CHOOSE t \in all : \A s \in all : s = t \/ Precedes(s, t)

(* Mutant of CheckedRange: the range is shrunk at its other end.           *)
OtherCheckedRange(all) ==
  IF ~LimitReached(all) THEN [min |-> options.min, max |-> options.max]
  ELSE IF options.earliestFirst
  THEN [min |-> LastOf(all)[1], max |-> options.max]
  ELSE [min |-> options.min, max |-> LastOf(all)[1]]
(* The range that checkForLedgerGaps asks for.                             *)
CheckedRange(all) ==
  IF ~LimitReached(all) THEN [min |-> options.min, max |-> options.max]
  ELSE IF options.earliestFirst
  THEN [min |-> options.min, max |-> LastOf(all)[1]]
  ELSE [min |-> LastOf(all)[1], max |-> options.max]

checkForLedgerGaps(all) ==
  outcome' = IF hasCompleteLedgerRange(CheckedRange(all).min, CheckedRange(all).max)
             THEN "resolved" ELSE "MissingLedgerHistory"

(* Mutant of NextMarker: every page is asked for without a marker.         *)
SameMarker == marker
NextMarker == LastOf(page.txs)

(* Mutant of Remaining: a page does not count.                             *)
Undiminished == left
Remaining == left - Cardinality(Kept)

(* getRecursiveRecur: the next page, or the end and formatResponse.        *)
NextPage ==
  /\ stage = "got"
  /\ Remaining > 0 /\ page.more
  /\ stage' = "asked"
  /\ marker' = NextMarker
  /\ left' = Remaining
  /\ results' = results \cup Kept
  /\ UNCHANGED <<serverVars, wire, available, options, page, outcome>>

LastPage ==
  /\ stage = "got"
  /\ ~(Remaining > 0 /\ page.more)
  /\ results' = results \cup Slice(Kept, left)
  /\ checkForLedgerGaps(results')
  /\ stage' = "settled"
  /\ UNCHANGED <<serverVars, wire, available, options, marker, left, page>>

Next ==
  \/ LedgerCloses \/ DeletesOldest \/ (\E v \in Versions : Acquires(v))
  \/ AnswersPage
  \/ GetTransactions \/ Receive \/ NextPage \/ LastPage

Spec == Init /\ [][Next]_vars

(* The server answers, its messages arrive and the reactions run.          *)
FairSpec ==
  Spec /\ WF_vars(AnswersPage) /\ WF_vars(Receive) /\ WF_vars(NextPage \/ LastPage)

-----------------------------------------------------------------------------
(* Properties                                                              *)

(* What the result should have, of the ledgers the server had all along.   *)
Wanted ==
  {t \in matching : orderFilter(t) /\ t[1] \in 1 .. validated
                    /\ t[1] \notin late \cup lost}

(* A call that resolves has left out no transaction of its range: when the *)
(* limit was reached, none before the last of the result.  A default       *)
(* maxLedgerVersion counts only when the limit replaces it.  Ledgers that  *)
(* came or went while the call ran are left out (transactions.js 121-143). *)
NoSilentGap ==
  outcome = "resolved" /\ CheckedRange(results).max # -1 =>
    \A t \in Wanted :
      /\ t[1] >= options.min /\ t[1] <= CheckedRange(results).max
      /\ LimitReached(results) => Precedes(t, LastOf(results))
      => t \in results

(* However the pages fall, no more transactions than the limit, all in the *)
(* range and of ledgers that are validated.                                *)
WithinLimit ==
  /\ Cardinality(results) <= options.limit
  /\ \A t \in results :
       /\ t[1] <= validated /\ t[1] >= options.min
       /\ options.max # -1 => t[1] <= options.max

(* Paging comes to its end.                                                *)
PagingEnds == stage = "asked" ~> stage = "settled"

(* "no gaps in the range of ledgers spanned by those transactions" (126).  *)
NoGapInSpan ==
  outcome = "resolved" =>
    \A t \in Wanted \ results :
      ~\E a, b \in results : Precedes(a, t) /\ Precedes(t, b)

(* "this transaction will be the first transaction in the result": of a    *)
(* matching one, when nothing else leaves it out (docs/index.md).          *)
StartIsFirst ==
  outcome = "resolved" /\ options.start \in matching => options.start \in results

=============================================================================
