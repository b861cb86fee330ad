----------------------- MODULE TransactionHistoryProofs -----------------------
(***************************************************************************)
(* What getTransactions returns, for every number of ledgers and           *)
(* transactions, every size of pages and all options: no more than the     *)
(* limit (ReturnsWithinLimit), and, when the gap check passes, all that    *)
(* there is up to the last of the result (ReturnsAll).                     *)
(*                                                                         *)
(* Pages follow the order of the transactions, so a call is described by   *)
(* the place that it has reached, the marker: of the ledgers that the      *)
(* server has had all along, the results have everything before it         *)
(* (Complete), and a page has everything after it, up to its own last      *)
(* transaction (Good).  The gap check then speaks of ledgers that the      *)
(* server has had at some time (Behind).                                   *)
(***************************************************************************)
EXTENDS TransactionHistory, SequenceTheorems, FiniteSetTheorems, TLAPS

(* --------------------------- Orders of places -------------------------- *)

(* The operators of the module for given options o.                        *)
PrecedesBy(o, s, t) == IF o.earliestFirst THEN Before(s, t) ELSE Before(t, s)
SliceBy(o, S, n) == {t \in S : Cardinality({s \in S : PrecedesBy(o, s, t)}) < n}
LastBy(o, S) == CHOOSE t \in S : \A s \in S : s = t \/ PrecedesBy(o, s, t)

LEMMA Renamed ==
  /\ \A s, t : Precedes(s, t) = PrecedesBy(options, s, t)
  /\ \A S : LastOf(S) = LastBy(options, S)
  /\ \A S, n : Slice(S, n) = SliceBy(options, S, n)
BY DEF Precedes, PrecedesBy, LastOf, LastBy, Slice, SliceBy

LEMMA PlaceFacts ==
  ASSUME NEW t \in Places
  PROVE  /\ t[1] \in Versions /\ t[1] \in 1 .. MaxVersion /\ t[2] \in 1 .. MaxIndex
         /\ t = <<t[1], t[2]>>
BY DEF Places, Versions

LEMMA PlacesFinite == IsFiniteSet(Places) /\ Infinity \in Nat \ {0}
<1>1. IsFiniteSet(1 .. MaxVersion) /\ IsFiniteSet(1 .. MaxIndex)
  BY FS_Interval, HistoryAssumption
<1>2. IsFiniteSet(Places)
  BY <1>1, FS_Product DEF Places, Versions
<1>3. Cardinality(Places) \in Nat
  BY <1>2, FS_CardinalityType
<1>4. QED
  BY <1>2, <1>3 DEF Infinity

LEMMA OrderFacts ==
  ASSUME NEW o, NEW s \in Places, NEW t \in Places
  PROVE  /\ ~PrecedesBy(o, s, s)
         /\ s = t \/ PrecedesBy(o, s, t) \/ PrecedesBy(o, t, s)
         /\ ~(PrecedesBy(o, s, t) /\ PrecedesBy(o, t, s))
         /\ \A u \in Places : PrecedesBy(o, s, t) /\ PrecedesBy(o, t, u) => PrecedesBy(o, s, u)
<1>1. /\ s = <<s[1], s[2]>> /\ t = <<t[1], t[2]>>
      /\ s[1] \in Int /\ s[2] \in Int /\ t[1] \in Int /\ t[2] \in Int
      /\ \A u \in Places : u[1] \in Int /\ u[2] \in Int
  BY PlaceFacts, HistoryAssumption
<1>2. s[1] = t[1] /\ s[2] = t[2] => s = t
  BY <1>1
<1>3. /\ ~Before(s, s)
      /\ s = t \/ Before(s, t) \/ Before(t, s)
      /\ ~(Before(s, t) /\ Before(t, s))
      /\ \A u \in Places : Before(s, t) /\ Before(t, u) => Before(s, u)
      /\ \A u \in Places : Before(t, s) /\ Before(u, t) => Before(u, s)
  BY <1>1, <1>2 DEF Before
<1>4. QED
  BY <1>3, Zenon DEF PrecedesBy

LEMMA LeastNat ==
  ASSUME NEW S \in SUBSET Nat, S # {}
  PROVE  \E n \in S : \A m \in S : n <= m
<1>1. IsWellFoundedOn(OpToRel(<, Nat), Nat)
  BY NatLessThanWellFounded
<1>2. PICK n \in S : \A m \in S : ~(<<m, n>> \in OpToRel(<, Nat))
  BY <1>1, WFMin
<1>3. \A m \in S : ~(m < n)
  BY <1>2 DEF OpToRel
<1>4. QED
  BY <1>3

LEMMA GreatestNat ==
  ASSUME NEW k \in Nat, NEW S \in SUBSET (0 .. k), S # {}
  PROVE  \E n \in S : \A m \in S : m <= n
<1> DEFINE T == {k - n : n \in S}
<1>0. \A n \in S : k - n \in Nat
  OBVIOUS
<1>1. T \in SUBSET Nat /\ T # {}
  BY <1>0
<1>2. PICK x \in T : \A y \in T : x <= y
  BY <1>1, LeastNat
<1>3. PICK n \in S : x = k - n
  BY <1>2
<1>4. \A m \in S : k - n <= k - m
  BY <1>2, <1>3
<1>5. \A m \in S : m <= n
  BY <1>4
<1>6. QED
  BY <1>5

(* A set of transactions has a first one and a last one.                   *)
LEMMA EndsOf ==
  ASSUME NEW S \in SUBSET Places, S # {}
  PROVE  /\ \E t \in S : \A s \in S : s = t \/ Before(t, s)
         /\ \E t \in S : \A s \in S : s = t \/ Before(s, t)
<1> DEFINE V == {s[1] : s \in S}
           I(v) == {s[2] : s \in {u \in S : u[1] = v}}
<1>0. \A s \in S : /\ s[1] \in 1 .. MaxVersion /\ s[2] \in 1 .. MaxIndex
                   /\ \A t \in S : s[1] = t[1] /\ s[2] = t[2] => s = t
  BY PlaceFacts
<1>1. V \in SUBSET (0 .. MaxVersion) /\ V # {} /\ V \in SUBSET Nat
  BY <1>0
<1>2. \A v \in V : I(v) \in SUBSET (0 .. MaxIndex) /\ I(v) # {} /\ I(v) \in SUBSET Nat
  BY <1>0
<1>3. \E t \in S : \A s \in S : s = t \/ Before(t, s)
  <2>1. PICK v \in V : \A w \in V : v <= w
    BY <1>1, LeastNat
  <2> HIDE DEF I
  <2>2. PICK i \in I(v) : \A j \in I(v) : i <= j
    BY <1>2, LeastNat
  <2> USE DEF I
  <2>3. PICK t \in S : t[1] = v /\ t[2] = i
    BY <2>2
  <2>4. \A s \in S : t[1] <= s[1] /\ (s[1] = t[1] => t[2] <= s[2])
    BY <2>1, <2>2, <2>3
  <2>5. \A s \in S : s = t \/ Before(t, s)
    BY <1>0, <2>4 DEF Before
  <2>6. QED
    BY <2>5
<1>4. \E t \in S : \A s \in S : s = t \/ Before(s, t)
  <2>1. PICK v \in V : \A w \in V : w <= v
    BY <1>1, GreatestNat, HistoryAssumption
  <2> HIDE DEF I
  <2>2. PICK i \in I(v) : \A j \in I(v) : j <= i
    BY <1>2, GreatestNat, HistoryAssumption
  <2> USE DEF I
  <2>3. PICK t \in S : t[1] = v /\ t[2] = i
    BY <2>2
  <2>4. \A s \in S : s[1] <= t[1] /\ (s[1] = t[1] => s[2] <= t[2])
    BY <2>1, <2>2, <2>3
  <2>5. \A s \in S : s = t \/ Before(s, t)
    BY <1>0, <2>4 DEF Before
  <2>6. QED
    BY <2>5
<1>5. QED
  BY <1>3, <1>4

LEMMA FirstAndLast ==
  ASSUME NEW o, NEW S \in SUBSET Places, S # {}
  PROVE  /\ \E t \in S : \A s \in S : s = t \/ PrecedesBy(o, t, s)
         /\ LastBy(o, S) \in S
         /\ \A s \in S : s = LastBy(o, S) \/ PrecedesBy(o, s, LastBy(o, S))
<1>1. /\ \E t \in S : \A s \in S : s = t \/ PrecedesBy(o, t, s)
      /\ \E t \in S : \A s \in S : s = t \/ PrecedesBy(o, s, t)
  BY EndsOf, Zenon DEF PrecedesBy
<1>2. QED
  BY <1>1, Zenon DEF LastBy

(* A slice of a set of transactions is its first ones: with each it has    *)
(* those before it, it has no more than asked for, and fewer than the set  *)
(* only when it has as many as asked for.                                  *)
LEMMA SliceFacts ==
  ASSUME NEW o, NEW S \in SUBSET Places, NEW n \in Nat
  PROVE  /\ SliceBy(o, S, n) \subseteq S
         /\ IsFiniteSet(SliceBy(o, S, n))
         /\ Cardinality(SliceBy(o, S, n)) <= n
         /\ \A s, t \in S :
              t \in SliceBy(o, S, n) /\ PrecedesBy(o, s, t) => s \in SliceBy(o, S, n)
         /\ SliceBy(o, S, n) # S => Cardinality(SliceBy(o, S, n)) = n
         /\ n # 0 /\ S # {} => SliceBy(o, S, n) # {}
<1> DEFINE Lower(t) == {s \in S : PrecedesBy(o, s, t)}
           L == SliceBy(o, S, n)
           rank == [t \in L |-> Cardinality(Lower(t))]
<1>1. IsFiniteSet(S) /\ \A t : IsFiniteSet(Lower(t)) /\ Cardinality(Lower(t)) \in Nat
  <2>1. IsFiniteSet(S)
    BY PlacesFinite, FS_Subset
  <2>2. \A t : Lower(t) \subseteq S
    OBVIOUS
  <2> HIDE DEF Lower
  <2>3. \A t : IsFiniteSet(Lower(t))
    BY <2>1, <2>2, FS_Subset
  <2> QED
    BY <2>1, <2>3, FS_CardinalityType
<1>2. L = {t \in S : Cardinality(Lower(t)) < n}
  BY DEF SliceBy
<1>3. L \subseteq S /\ IsFiniteSet(L)
  BY <1>1, <1>2, FS_Subset
<1>4. \A s, t \in S : PrecedesBy(o, s, t) => Cardinality(Lower(s)) < Cardinality(Lower(t))
  <2> SUFFICES ASSUME NEW s \in S, NEW t \in S, PrecedesBy(o, s, t)
               PROVE  Cardinality(Lower(s)) < Cardinality(Lower(t))
    OBVIOUS
  <2>1. Lower(s) \subseteq Lower(t)
    BY OrderFacts
  <2>2. s \in Lower(t) /\ s \notin Lower(s)
    BY OrderFacts
  <2> HIDE DEF Lower
  <2> QED
    BY <1>1, <2>1, <2>2, FS_Subset
<1>5. \A s, t \in S : t \in L /\ PrecedesBy(o, s, t) => s \in L
  <2> HIDE DEF Lower, L
  <2> QED
    BY <1>1, <1>2, <1>4
<1>6. Cardinality(L) <= n
  <2>1. rank \in [L -> 0 .. n - 1]
    <3> HIDE DEF Lower
    <3> QED
      BY <1>1, <1>2
  <2>2. rank \in Injection(L, 0 .. n - 1)
    <3> SUFFICES ASSUME NEW s \in L, NEW t \in L, s # t
                 PROVE  rank[s] # rank[t]
      BY <2>1, Zenon DEF Injection, IsInjective
    <3>1. s \in S /\ t \in S
      BY <1>3
    <3>2. PrecedesBy(o, s, t) \/ PrecedesBy(o, t, s)
      BY <3>1, OrderFacts
    <3> HIDE DEF Lower
    <3> QED
      BY <1>1, <1>4, <3>1, <3>2
  <2>3. IsFiniteSet(0 .. n - 1) /\ Cardinality(0 .. n - 1) = n
    BY FS_Interval
  <2> HIDE DEF rank, L
  <2> QED
    BY <2>2, <2>3, FS_Injection
<1>7. \A R \in SUBSET S : R # {} => \E t \in R : \A s \in R : s = t \/ PrecedesBy(o, t, s)
  BY FirstAndLast
<1>8. ASSUME L # S PROVE Cardinality(L) = n
  <2>1. S \ L \in SUBSET S /\ S \ L # {}
    BY <1>3, <1>8
  <2> HIDE DEF L
  <2>2. PICK t \in S \ L : \A s \in S \ L : s = t \/ PrecedesBy(o, t, s)
    BY <1>7, <2>1
  <2>3. Lower(t) \subseteq L
    BY <2>2, OrderFacts
  <2> HIDE DEF Lower
  <2>4. Cardinality(Lower(t)) >= n
    BY <1>1, <1>2, <2>2
  <2>5. Cardinality(Lower(t)) <= Cardinality(L) /\ Cardinality(L) \in Nat
    BY <1>3, <2>3, FS_Subset, FS_CardinalityType
  <2> QED
    BY <1>1, <1>6, <2>4, <2>5
<1>9. ASSUME n # 0, S # {} PROVE L # {}
  <2>1. L = {} => Cardinality(L) = n
    BY <1>8, <1>9
  <2>2. Cardinality({}) = 0
    BY FS_EmptySet
  <2> HIDE DEF L
  <2> QED
    BY <1>9, <2>1, <2>2
<1> QED
  BY <1>3, <1>5, <1>6, <1>8, <1>9

(* ---------------------------- The invariant ---------------------------- *)

InRange(o, t) == t[1] >= o.min /\ (o.max # -1 => t[1] <= o.max)

(* t is in a page up to the one whose last transaction is m.               *)
Passed(o, m, t) == m # NoTx /\ ~PrecedesBy(o, m, t)

(* A page p after m: only what was asked for, and of the ledgers in had    *)
(* all of it, up to the last of the page when there are more.              *)
GoodBy(o, m, last, had, p) ==
  /\ \A t \in p.txs : InRange(o, t) /\ t[1] <= last /\ ~Passed(o, m, t)
  /\ p.more => p.txs # {}
  /\ \A t \in Places :
       t[1] \in had /\ InRange(o, t) /\ ~Passed(o, m, t)
       => t \in p.txs \/ (p.more /\ PrecedesBy(o, LastBy(o, p.txs), t))
Good(p) == GoodBy(options, marker, validated, history \ late, p)

(* What the results have, and that they have all of it, up to the marker.  *)
CompleteBy(o, m, last, had, M, R) ==
  /\ \A t \in R : InRange(o, t) /\ t[1] <= last /\ Passed(o, m, t)
  /\ \A t \in M :
       /\ t[1] \in had /\ InRange(o, t) /\ Passed(o, m, t)
       /\ o.start # NoTx => PrecedesBy(o, o.start, t)
       => t \in R
Complete ==
  /\ Cardinality(results) + left = options.limit
  /\ CompleteBy(options, marker, validated, history \ late, matching, results)

(* The client's view is of ledgers that the server has had.                *)
Behind ==
  /\ history \subseteq 1 .. validated
  /\ available \subseteq history \cup lost
  /\ \A i \in 1 .. Len(wire) :
       wire[i].type = "ledgerClosed" => wire[i].ledgers \subseteq history \cup lost

(* A page is under way only while it is waited for.                        *)
OnePage ==
  \A i \in 1 .. Len(wire) :
    wire[i].type = "page" =>
      /\ stage = "asked" /\ Good(wire[i])
      /\ \A j \in 1 .. Len(wire) : wire[j].type = "page" => i = j

HistoryInv ==
  /\ TypeOK /\ Behind /\ OnePage
  /\ stage = "idle" => results = {} /\ marker = NoTx
  /\ stage # "settled" => outcome = "none"
  /\ stage \in {"asked", "got"} => Complete
  /\ stage = "got" => Good(page)
  /\ stage = "settled" => WithinLimit /\ NoSilentGap

(* ------------------------------- Types --------------------------------- *)

LEMMA PageType ==
  ASSUME TypeOK, NEW n
  PROVE  [type |-> "page", txs |-> Slice(Listed, n), more |-> Slice(Listed, n) # Listed] \in Page
<1>1. Slice(Listed, n) \in SUBSET Places
  BY DEF Slice, Listed
<1> QED
  BY <1>1 DEF Page

LEMMA BoundType ==
  ASSUME NEW o \in Options
  PROVE  startBound(o) \in Options /\ startBound(o).limit = o.limit
<1>1. CASE o.start = NoTx
  BY <1>1 DEF startBound
<1>2. CASE o.start # NoTx
  <2>1. o.start \in Places
    BY <1>2 DEF Options
  <2>2. o.start[1] \in 0 .. MaxVersion /\ o.start[1] \in 1 .. MaxVersion + 1
    BY <2>1, PlaceFacts, HistoryAssumption
  <2> QED
    BY <1>2, <2>2 DEF startBound, Options
<1> QED
  BY <1>1, <1>2

LEMMA ClampInt ==
  ASSUME NEW v \in Int, NEW a \in Int, NEW b \in Int
  PROVE  clamp(v, a, b) \in Int
BY DEF clamp

(* What is left after a page.                                              *)
LEMMA KeptFacts ==
  ASSUME TypeOK
  PROVE  /\ Kept \in SUBSET Places /\ Kept \subseteq matching /\ Kept \subseteq page.txs
         /\ IsFiniteSet(Kept) /\ Cardinality(Kept) \in Nat
         /\ left \in Nat \ {0} /\ Remaining \in Int /\ Remaining <= left
<1>1. Kept \in SUBSET Places /\ Kept \subseteq matching /\ Kept \subseteq page.txs
  BY DEF TypeOK, Page, Kept
<1>2. IsFiniteSet(Kept) /\ Cardinality(Kept) \in Nat
  BY <1>1, PlacesFinite, FS_Subset, FS_CardinalityType
<1>3. left \in Nat \ {0}
  BY DEF TypeOK
<1> QED
  BY <1>1, <1>2, <1>3 DEF Remaining

LEMMA TypedStep == ASSUME TypeOK, stage = "got" => Good(page), Next PROVE TypeOK'
<1>1. CASE LedgerCloses
  <2>1. validated' \in Versions
    BY <1>1, HistoryAssumption DEF LedgerCloses, TypeOK, Versions
  <2>2. history' \in SUBSET Versions /\ late' \in SUBSET Versions
    BY <1>1, <2>1 DEF LedgerCloses, TypeOK
  <2>3. [type |-> "ledgerClosed", ledgers |-> history'] \in Message
    BY <2>2 DEF Message
  <2>4. wire' \in Seq(Message)
    BY <1>1, <2>3 DEF LedgerCloses, Send, TypeOK
  <2> QED
    BY <1>1, <2>1, <2>2, <2>4 DEF LedgerCloses, TypeOK, callVars
<1>2. CASE DeletesOldest
  BY <1>2 DEF DeletesOldest, TypeOK, callVars
<1>3. ASSUME NEW v \in Versions, Acquires(v) PROVE TypeOK'
  BY <1>3 DEF Acquires, TypeOK, callVars
<1>4. CASE AnswersPage
  <2>1. PICK n : Send([type |-> "page", txs |-> Slice(Listed, n),
                       more |-> Slice(Listed, n) # Listed])
    BY <1>4 DEF AnswersPage
  <2>2. wire' \in Seq(Message)
    BY <2>1, PageType DEF Send, TypeOK, Message
  <2> QED
    BY <1>4, <2>2 DEF AnswersPage, TypeOK, serverVars, callVars
<1>5. CASE GetTransactions
  <2>1. PICK o \in Options : options' = startBound(o) /\ left' = o.limit
    BY <1>5 DEF GetTransactions
  <2>2. options' \in Options
    BY <2>1, BoundType
  <2>4. left' \in Nat \ {0}
    BY <2>1, PlacesFinite, HistoryAssumption DEF Options
  <2> QED
    BY <1>5, <2>2, <2>4 DEF GetTransactions, TypeOK
<1>6. CASE Receive
  <2>1. Head(wire) \in Message /\ Tail(wire) \in Seq(Message)
    BY <1>6 DEF Receive, TypeOK
  <2>2. CASE Head(wire).type = "ledgerClosed"
    <3>1. available' \in SUBSET Versions
      BY <1>6, <2>1, <2>2 DEF Receive, Message, Page
    <3> QED
      BY <1>6, <2>1, <2>2, <3>1 DEF Receive, TypeOK, serverVars
  <2>3. CASE Head(wire).type # "ledgerClosed"
    <3>1. page' \in Page
      BY <1>6, <2>1, <2>3 DEF Receive, Message
    <3> QED
      BY <1>6, <2>1, <2>3, <3>1 DEF Receive, TypeOK, serverVars
  <2> QED
    BY <2>2, <2>3
<1>7. CASE NextPage
  <2>1. page.txs \in SUBSET Places
    BY DEF TypeOK, Page
  <2>2. ASSUME page.txs # {} PROVE NextMarker \in Places
    BY <2>1, <2>2, Renamed, FirstAndLast DEF NextMarker
  <2>3. NextMarker \in Places
    BY <1>7, <2>2 DEF NextPage, Good, GoodBy
  <2>4. Remaining \in Nat \ {0}
    BY <1>7, KeptFacts DEF NextPage
  <2>5. results \cup Kept \subseteq matching
    BY KeptFacts DEF TypeOK
  <2> QED
    BY <1>7, <2>3, <2>4, <2>5 DEF NextPage, TypeOK, serverVars
<1>8. CASE LastPage
  <2>1. Slice(Kept, left) \subseteq matching
    BY KeptFacts DEF Slice
  <2>2. outcome' \in {"resolved", "MissingLedgerHistory"}
    BY <1>8 DEF LastPage, checkForLedgerGaps
  <2> QED
    BY <1>8, <2>1, <2>2 DEF LastPage, TypeOK, serverVars
<1> QED
  BY <1>1, <1>2, <1>3, <1>4, <1>5, <1>6, <1>7, <1>8 DEF Next

(* --------------------------- The server goes on ------------------------ *)

LEMMA GoodLater ==
  ASSUME NEW o, NEW m, NEW last \in Int, NEW had, NEW p \in Page, GoodBy(o, m, last, had, p),
         NEW last2 \in Int, last <= last2, NEW had2, had2 \subseteq had
  PROVE  GoodBy(o, m, last2, had2, p)
<1>1. \A t \in p.txs : t[1] \in Int
  BY PlaceFacts, HistoryAssumption DEF Page
<1> QED
  BY <1>1 DEF GoodBy

LEMMA CompleteLater ==
  ASSUME NEW o, NEW m, NEW last \in Int, NEW had, NEW M, NEW R \in SUBSET Places,
         CompleteBy(o, m, last, had, M, R),
         NEW last2 \in Int, last <= last2, NEW had2, had2 \subseteq had
  PROVE  CompleteBy(o, m, last2, had2, M, R)
<1>1. \A t \in R : t[1] \in Int
  BY PlaceFacts, HistoryAssumption
<1> QED
  BY <1>1 DEF CompleteBy

(* Whatever the server does with its ledgers, what the call has got of it  *)
(* stays good.                                                             *)
LEMMA ServerGoesOn ==
  ASSUME HistoryInv, TypeOK', validated <= validated',
         history' \ late' \subseteq history \ late,
         Wanted' \subseteq Wanted,
         UNCHANGED <<matching, callVars>>
  PROVE  /\ \A p \in Page : Good(p) => Good(p)'
         /\ stage = "idle" => results' = {} /\ marker' = NoTx
         /\ stage' # "settled" => outcome' = "none"
         /\ stage' \in {"asked", "got"} => Complete'
         /\ stage' = "got" => Good(page)'
         /\ stage' = "settled" => WithinLimit' /\ NoSilentGap'
<1> USE DEF callVars
<1>1. validated \in Int /\ validated' \in Int /\ results \in SUBSET Places
  BY HistoryAssumption DEF HistoryInv, TypeOK, Versions
<1>2. \A p \in Page : Good(p) => Good(p)'
  BY <1>1, GoodLater DEF Good
<1>3. page \in Page
  BY DEF HistoryInv, TypeOK
<1>4. stage = "got" => Good(page)'
  BY <1>2, <1>3 DEF HistoryInv
<1>5. stage \in {"asked", "got"} => Complete'
  BY <1>1, CompleteLater DEF HistoryInv, Complete
<1>6. stage = "settled" => WithinLimit'
  <2>1. \A t \in results : t[1] \in Int
    BY <1>1, PlaceFacts, HistoryAssumption
  <2> QED
    BY <1>1, <2>1 DEF HistoryInv, WithinLimit
<1>7. stage = "settled" => NoSilentGap'
  <2>1. \A R : CheckedRange(R)' = CheckedRange(R) /\ LimitReached(R)' = LimitReached(R) /\ LastOf(R)' = LastOf(R)
    BY DEF CheckedRange, LimitReached, LastOf, Precedes
  <2> QED
    BY <2>1 DEF HistoryInv, NoSilentGap, Precedes
<1> QED
  BY <1>2, <1>4, <1>5, <1>6, <1>7 DEF HistoryInv

(* What is on the wire when a message is added to it, or taken from it.    *)
LEMMA Wires ==
  ASSUME TypeOK
  PROVE  /\ \A m \in Message : wire' = Append(wire, m) =>
              /\ Len(wire') = Len(wire) + 1 /\ wire'[Len(wire) + 1] = m
              /\ \A i \in 1 .. Len(wire) : wire'[i] = wire[i]
         /\ wire # <<>> /\ wire' = Tail(wire) =>
              /\ Len(wire) \in Nat \ {0} /\ Len(wire') = Len(wire) - 1
              /\ Head(wire) = wire[1]
              /\ \A i \in 1 .. Len(wire') : wire'[i] = wire[i + 1]
         /\ Len(wire) \in Nat
         /\ \A i \in 1 .. Len(wire) :
              /\ wire[i] \in Message
              /\ wire[i].type = "page" => wire[i] \in Page
              /\ wire[i].type \in {"page", "ledgerClosed"}
<1>1. wire \in Seq(Message)
  BY DEF TypeOK
<1>2. \A m \in Message : m.type = "page" => m \in Page
  BY DEF Message, Page
<1>3. \A m \in Message : m.type \in {"page", "ledgerClosed"}
  BY DEF Message, Page
<1>4. \A i \in 1 .. Len(wire) : wire[i] \in Message
  BY <1>1
<1>5. ASSUME NEW m \in Message, wire' = Append(wire, m)
      PROVE  /\ Len(wire') = Len(wire) + 1 /\ wire'[Len(wire) + 1] = m
             /\ \A i \in 1 .. Len(wire) : wire'[i] = wire[i]
  BY <1>1, <1>5
<1>6. ASSUME wire # <<>>, wire' = Tail(wire)
      PROVE  /\ Len(wire) \in Nat \ {0} /\ Len(wire') = Len(wire) - 1
             /\ Head(wire) = wire[1]
             /\ \A i \in 1 .. Len(wire') : wire'[i] = wire[i + 1]
  BY <1>1, <1>6
<1> QED
  BY <1>1, <1>2, <1>3, <1>4, <1>5, <1>6

LEMMA LedgerClosesKeeps == ASSUME HistoryInv, TypeOK', LedgerCloses PROVE HistoryInv'
<1>1. validated \in Nat /\ validated' = validated + 1 /\ validated' \in Int
  BY HistoryAssumption DEF LedgerCloses, HistoryInv, TypeOK, Versions
<1>2. /\ history' \ late' \subseteq history \ late
      /\ history' \subseteq 1 .. validated' /\ history \subseteq history' /\ lost' = lost
      /\ available' = available
  BY <1>1 DEF LedgerCloses, HistoryInv, Behind
<1>3. Wanted' \subseteq Wanted
  <2>1. \A t : orderFilter(t)' = orderFilter(t)
    BY DEF LedgerCloses, callVars, orderFilter, Precedes
  <2>2. matching' = matching /\ late' = late \cup {validated'} /\ matching \subseteq Places
    BY DEF LedgerCloses, HistoryInv, TypeOK
  <2>3. \A t \in Places : t[1] \in Int
    BY PlaceFacts, HistoryAssumption
  <2> QED
    BY <1>1, <1>2, <2>1, <2>2, <2>3 DEF Wanted
<1>4. UNCHANGED <<matching, callVars>> /\ validated <= validated'
  BY <1>1 DEF LedgerCloses
<1>5. DEFINE m == [type |-> "ledgerClosed", ledgers |-> history']
<1>6. m \in Message /\ wire' = Append(wire, m) /\ m.type # "page" /\ m.ledgers = history'
  BY DEF LedgerCloses, Send, Message, TypeOK
<1> HIDE DEF m
<1>7. /\ \A p \in Page : Good(p) => Good(p)'
      /\ stage = "idle" => results' = {} /\ marker' = NoTx
      /\ stage' # "settled" => outcome' = "none"
      /\ stage' \in {"asked", "got"} => Complete'
      /\ stage' = "got" => Good(page)'
      /\ stage' = "settled" => WithinLimit' /\ NoSilentGap'
  BY <1>2, <1>3, <1>4, ServerGoesOn
<1>8. /\ Len(wire') = Len(wire) + 1 /\ wire'[Len(wire) + 1] = m
      /\ \A i \in 1 .. Len(wire) : wire'[i] = wire[i]
      /\ Len(wire) \in Nat
      /\ \A i \in 1 .. Len(wire) : wire[i].type = "page" => wire[i] \in Page
  BY <1>6, Wires DEF HistoryInv
<1>9. Behind'
  <2>1. \A i \in 1 .. Len(wire') : wire'[i].type = "ledgerClosed"
          => wire'[i].ledgers = history' \/ (i \in 1 .. Len(wire) /\ wire'[i] = wire[i])
    BY <1>6, <1>8
  <2>2. \A i \in 1 .. Len(wire) :
          wire[i].type = "ledgerClosed" => wire[i].ledgers \subseteq history \cup lost
    BY DEF Behind, HistoryInv
  <2>3. \A i \in 1 .. Len(wire') :
          wire'[i].type = "ledgerClosed" => wire'[i].ledgers \subseteq history' \cup lost'
    BY <1>2, <2>1, <2>2
  <2> QED
    BY <1>2, <2>3 DEF Behind, HistoryInv
<1>10. OnePage'
  <2>1. \A i \in 1 .. Len(wire') : wire'[i].type = "page" =>
          i \in 1 .. Len(wire) /\ wire'[i] = wire[i] /\ wire[i] \in Page
    BY <1>6, <1>8
  <2>2. stage' = stage
    BY <1>4 DEF callVars
  <2> SUFFICES ASSUME NEW i \in 1 .. Len(wire'), wire'[i].type = "page"
               PROVE  /\ stage' = "asked" /\ Good(wire[i])'
                      /\ \A j \in 1 .. Len(wire') : wire'[j].type = "page" => i = j
    BY DEF OnePage
  <2> QED
    BY <1>7, <2>1, <2>2 DEF OnePage, HistoryInv
<1> QED
  BY <1>4, <1>7, <1>9, <1>10 DEF HistoryInv, callVars

(* Ledgers that the server loses, or acquires, change no message.          *)
LEMMA ServerKeeps ==
  ASSUME HistoryInv, TypeOK', \/ DeletesOldest
                              \/ \E v \in Versions : Acquires(v)
  PROVE  HistoryInv'
<1>1. /\ history' \ late' \subseteq history \ late
      /\ validated' = validated /\ available' = available /\ wire' = wire
      /\ UNCHANGED <<matching, callVars>>
      /\ history' \subseteq 1 .. validated' /\ history \cup lost \subseteq history' \cup lost'
  <2>1. CASE DeletesOldest
    BY <2>1 DEF DeletesOldest, HistoryInv, Behind
  <2>2. ASSUME NEW v \in Versions, Acquires(v)
        PROVE  /\ history' \ late' \subseteq history \ late
               /\ validated' = validated /\ available' = available /\ wire' = wire
               /\ UNCHANGED <<matching, callVars>>
               /\ history' \subseteq 1 .. validated'
               /\ history \cup lost \subseteq history' \cup lost'
    BY <2>2, HistoryAssumption DEF Acquires, HistoryInv, Behind, TypeOK, Versions
  <2> QED
    BY <2>1, <2>2
<1>2. Wanted' \subseteq Wanted
  <2>1. \A t : orderFilter(t)' = orderFilter(t)
    BY <1>1 DEF callVars, orderFilter, Precedes
  <2>2. late \cup lost \subseteq late' \cup lost'
    BY DEF DeletesOldest, Acquires
  <2> QED
    BY <1>1, <2>1, <2>2 DEF Wanted
<1>3. validated <= validated'
  BY <1>1, HistoryAssumption DEF HistoryInv, TypeOK, Versions
<1>4. /\ \A p \in Page : Good(p) => Good(p)'
      /\ stage = "idle" => results' = {} /\ marker' = NoTx
      /\ stage' # "settled" => outcome' = "none"
      /\ stage' \in {"asked", "got"} => Complete'
      /\ stage' = "got" => Good(page)'
      /\ stage' = "settled" => WithinLimit' /\ NoSilentGap'
  BY <1>1, <1>2, <1>3, ServerGoesOn
<1>5. Behind'
  BY <1>1 DEF HistoryInv, Behind
<1>6. OnePage'
  BY <1>1, <1>4, Wires DEF HistoryInv, OnePage, callVars
<1> QED
  BY <1>1, <1>4, <1>5, <1>6 DEF HistoryInv, callVars

(* --------------------------- Pages and answers ------------------------- *)

(* A page that the server answers is good for the call.                    *)
LEMMA AnswerIsGood ==
  ASSUME TypeOK, Behind, NEW n \in Nat \ {0}
  PROVE  Good([type |-> "page", txs |-> Slice(Listed, n), more |-> Slice(Listed, n) # Listed])
<1> DEFINE S == Slice(Listed, n)
           p == [type |-> "page", txs |-> S, more |-> S # Listed]
<1>1. Listed \in SUBSET Places
  BY DEF Listed
<1>2. S = SliceBy(options, Listed, n)
  BY Renamed
<1>3. /\ S \subseteq Listed
      /\ \A s, t \in Listed : t \in S /\ PrecedesBy(options, s, t) => s \in S
      /\ Listed # {} => S # {}
  BY <1>1, <1>2, SliceFacts
<1>4. \A t \in Places : t \in Listed <=> /\ t[1] \in history /\ InRange(options, t)
                                        /\ ~Passed(options, marker, t)
  BY Renamed DEF Listed, InRange, Passed
<1>5. \A v \in history : v <= validated
  BY HistoryAssumption DEF Behind, TypeOK, Versions
<1>6. ASSUME NEW t \in Listed, t \notin S
      PROVE  PrecedesBy(options, LastBy(options, S), t)
  <2>1. S # {} /\ S \in SUBSET Places
    BY <1>1, <1>3, <1>6
  <2> HIDE DEF S
  <2>2. LastBy(options, S) \in S
    BY <2>1, FirstAndLast
  <2> DEFINE l == LastBy(options, S)
  <2> HIDE DEF l
  <2>3. l \in S
    BY <2>2 DEF l
  <2>4. l = t \/ PrecedesBy(options, l, t) \/ PrecedesBy(options, t, l)
    BY <1>1, <1>6, <2>1, <2>3, OrderFacts
  <2>5. PrecedesBy(options, l, t)
    BY <1>3, <1>6, <2>3, <2>4
  <2> QED
    BY <2>5 DEF l
<1> HIDE DEF S
<1>7. /\ \A t \in p.txs : /\ InRange(options, t) /\ t[1] <= validated
                          /\ ~Passed(options, marker, t)
      /\ p.more => p.txs # {}
  BY <1>1, <1>3, <1>4, <1>5
<1>8. \A t \in Places :
         t[1] \in history \ late /\ InRange(options, t) /\ ~Passed(options, marker, t)
         => t \in p.txs \/ (p.more /\ PrecedesBy(options, LastBy(options, p.txs), t))
  BY <1>4, <1>6
<1>9. Good(p)
  BY <1>7, <1>8 DEF Good, GoodBy
<1> QED
  BY <1>9 DEF S

LEMMA AnswersPageKeeps == ASSUME HistoryInv, TypeOK', AnswersPage PROVE HistoryInv'
<1>1. PICK n \in 1 .. clamp(left, PageMin, PageMax) :
        Send([type |-> "page", txs |-> Slice(Listed, n), more |-> Slice(Listed, n) # Listed])
  BY DEF AnswersPage
<1> DEFINE p == [type |-> "page", txs |-> Slice(Listed, n), more |-> Slice(Listed, n) # Listed]
<1>2. n \in Nat \ {0}
  <2>1. clamp(left, PageMin, PageMax) \in Int
    BY ClampInt, HistoryAssumption DEF HistoryInv, TypeOK
  <2> QED
    BY <2>1
<1>3. p \in Page /\ Good(p) /\ p.type = "page"
  BY <1>2, AnswerIsGood, PageType DEF HistoryInv
<1>4. wire' = Append(wire, p) /\ p \in Message
  BY <1>1, <1>3 DEF Send, Message
<1> HIDE DEF p
<1>5. /\ UNCHANGED <<serverVars, available, callVars>> /\ stage = "asked"
      /\ \A i \in 1 .. Len(wire) : wire[i].type # "page"
  BY DEF AnswersPage
<1>6. /\ Len(wire') = Len(wire) + 1 /\ wire'[Len(wire) + 1] = p
      /\ \A i \in 1 .. Len(wire) : wire'[i] = wire[i]
      /\ Len(wire) \in Nat
  BY <1>4, Wires DEF HistoryInv
<1>7. \A i \in 1 .. Len(wire') :
        \/ i = Len(wire) + 1 /\ wire'[i] = p
        \/ i \in 1 .. Len(wire) /\ wire'[i] = wire[i]
  BY <1>6
<1>8. \A q : Good(q)' = Good(q)
  BY <1>5 DEF Good, serverVars, callVars
<1>9. OnePage'
  BY <1>3, <1>5, <1>7, <1>8 DEF OnePage, callVars
<1>10. Behind'
  <2>1. \A i \in 1 .. Len(wire') : wire'[i].type = "ledgerClosed"
          => i \in 1 .. Len(wire) /\ wire'[i] = wire[i]
    BY <1>3, <1>7
  <2> QED
    BY <1>5, <2>1 DEF Behind, HistoryInv, serverVars
<1>11. Complete' = Complete
  BY <1>5 DEF Complete, serverVars, callVars
<1> QED
  BY <1>5, <1>8, <1>9, <1>10, <1>11 DEF HistoryInv, callVars

LEMMA GetTransactionsKeeps == ASSUME HistoryInv, TypeOK', GetTransactions PROVE HistoryInv'
<1>1. PICK o \in Options : options' = startBound(o) /\ left' = o.limit
  BY DEF GetTransactions
<1>2. left' = options'.limit
  BY <1>1, BoundType
<1>3. /\ results' = {} /\ marker' = NoTx /\ outcome' = "none" /\ stage' = "asked"
      /\ stage = "idle" /\ wire' = wire /\ history' = history /\ available' = available
      /\ lost' = lost /\ validated' = validated
  BY DEF GetTransactions, HistoryInv
<1>4. Complete'
  <2>1. Cardinality(results') + left' = options'.limit
    BY <1>2, <1>3, FS_EmptySet DEF TypeOK
  <2> QED
    BY <1>3, <2>1 DEF Complete, CompleteBy, Passed
<1>5. Behind'
  BY <1>3 DEF HistoryInv, Behind
<1>6. OnePage'
  BY <1>3 DEF HistoryInv, OnePage
<1> QED
  BY <1>3, <1>4, <1>5, <1>6 DEF HistoryInv

LEMMA ReceiveKeeps == ASSUME HistoryInv, TypeOK', Receive PROVE HistoryInv'
<1>1. /\ UNCHANGED <<serverVars, options, marker, left, results, outcome>>
      /\ stage # "got" /\ wire # <<>> /\ wire' = Tail(wire)
  BY DEF Receive
<1>2. /\ Len(wire) \in Nat \ {0} /\ Len(wire') = Len(wire) - 1
      /\ Head(wire) = wire[1]
      /\ \A i \in 1 .. Len(wire') : i + 1 \in 1 .. Len(wire) /\ wire'[i] = wire[i + 1]
      /\ wire[1].type \in {"page", "ledgerClosed"}
  <2>1. /\ Len(wire) \in Nat \ {0} /\ Len(wire') = Len(wire) - 1
        /\ Head(wire) = wire[1]
        /\ \A i \in 1 .. Len(wire') : wire'[i] = wire[i + 1]
        /\ \A i \in 1 .. Len(wire) : wire[i].type \in {"page", "ledgerClosed"}
    BY <1>1, Wires, Zenon DEF HistoryInv
  <2> QED
    BY <2>1
<1>3. \A q : Good(q)' = Good(q)
  BY <1>1 DEF Good, serverVars
<1>4. Complete' = Complete
  BY <1>1 DEF Complete, serverVars
<1>5. CASE wire[1].type = "ledgerClosed"
  <2>1. available' = wire[1].ledgers /\ stage' = stage /\ page' = page
    BY <1>2, <1>5 DEF Receive
  <2>2. Behind'
    <3>1. available' \subseteq history \cup lost
      BY <1>2, <1>5, <2>1 DEF HistoryInv, Behind
    <3> QED
      BY <1>1, <1>2, <3>1 DEF HistoryInv, Behind, serverVars
  <2>3. OnePage'
    <3> SUFFICES ASSUME NEW i \in 1 .. Len(wire'), wire'[i].type = "page"
                 PROVE  /\ stage' = "asked" /\ Good(wire[i])'
                        /\ \A j \in 1 .. Len(wire') : wire'[j].type = "page" => i = j
      BY DEF OnePage
    <3>1. i + 1 \in 1 .. Len(wire) /\ wire[i + 1].type = "page" /\ wire'[i] = wire[i + 1]
      BY <1>2
    <3>2. stage = "asked" /\ Good(wire[i + 1])
      BY <3>1 DEF HistoryInv, OnePage
    <3>3. Good(wire[i])'
      BY <1>1, <3>1, <3>2 DEF Good, serverVars
    <3>4. ASSUME NEW j \in 1 .. Len(wire'), wire'[j].type = "page" PROVE i = j
      <4>1. j + 1 \in 1 .. Len(wire) /\ wire[j + 1].type = "page"
        BY <1>2, <3>4
      <4>2. i + 1 = j + 1
        BY <3>1, <4>1 DEF HistoryInv, OnePage
      <4> QED
        BY <4>2
    <3> QED
      BY <2>1, <3>2, <3>3, <3>4
  <2>4. stage = "settled" => WithinLimit' /\ NoSilentGap'
    BY <1>1 DEF HistoryInv, WithinLimit, NoSilentGap, Wanted, CheckedRange, LimitReached,
                LastOf, Precedes, orderFilter, serverVars
  <2> QED
    BY <1>1, <1>3, <1>4, <2>1, <2>2, <2>3, <2>4 DEF HistoryInv
<1>6. CASE wire[1].type = "page"
  <2>1. available' = available /\ stage' = "got" /\ page' = wire[1]
    BY <1>2, <1>6 DEF Receive
  <2>2. stage = "asked" /\ Good(wire[1])
    BY <1>2, <1>6 DEF HistoryInv, OnePage
  <2>3. Good(page)'
    BY <1>1, <2>1, <2>2 DEF Good, serverVars
  <2>4. \A i \in 1 .. Len(wire') : wire'[i].type # "page"
    <3> SUFFICES ASSUME NEW i \in 1 .. Len(wire'), wire[i + 1].type = "page" PROVE FALSE
      BY <1>2
    <3>1. 1 = i + 1
      BY <1>2, <1>6 DEF HistoryInv, OnePage
    <3> QED
      BY <1>2, <3>1
  <2>5. Behind'
    BY <1>1, <1>2, <2>1 DEF HistoryInv, Behind, serverVars
  <2>6. OnePage'
    BY <2>4 DEF OnePage
  <2> QED
    BY <1>1, <1>4, <2>1, <2>2, <2>3, <2>5, <2>6 DEF HistoryInv
<1> QED
  BY <1>2, <1>5, <1>6

(* What a page brings is new, and counts as such.                          *)
LEMMA KeptIsNew ==
  ASSUME HistoryInv, stage = "got", NEW K \in SUBSET Kept
  PROVE  /\ results \in SUBSET Places /\ IsFiniteSet(results \cup K)
         /\ Cardinality(results \cup K) = Cardinality(results) + Cardinality(K)
         /\ Cardinality(results) \in Nat /\ Cardinality(K) \in Nat
         /\ \A t \in K : /\ InRange(options, t) /\ t[1] <= validated
                         /\ ~Passed(options, marker, t)
<1>1. /\ results \in SUBSET Places /\ K \in SUBSET Places
      /\ IsFiniteSet(results) /\ IsFiniteSet(K)
  BY PlacesFinite, KeptFacts, FS_Subset DEF HistoryInv, TypeOK
<1>2. \A t \in K : /\ InRange(options, t) /\ t[1] <= validated /\ ~Passed(options, marker, t)
  BY KeptFacts DEF HistoryInv, Good, GoodBy
<1>3. results \cap K = {}
  BY <1>2 DEF HistoryInv, Complete, CompleteBy
<1>4. /\ Cardinality(results) \in Nat /\ Cardinality(K) \in Nat
      /\ IsFiniteSet(results \cup K)
      /\ Cardinality(results \cup K) = Cardinality(results) + Cardinality(K)
  <2>1. /\ Cardinality(results) \in Nat /\ Cardinality(K) \in Nat
        /\ Cardinality(results \cap K) = 0
    BY <1>1, <1>3, FS_EmptySet, FS_CardinalityType
  <2>2. /\ IsFiniteSet(results \cup K)
        /\ Cardinality(results \cup K)
             = Cardinality(results) + Cardinality(K) - Cardinality(results \cap K)
    BY <1>1, FS_Union
  <2> QED
    BY <2>1, <2>2
<1> QED
  BY <1>1, <1>2, <1>4

LEMMA NextPageKeeps == ASSUME HistoryInv, TypeOK', NextPage PROVE HistoryInv'
<1>1. /\ stage = "got" /\ page.more /\ stage' = "asked"
      /\ marker' = NextMarker /\ left' = Remaining /\ results' = results \cup Kept
      /\ UNCHANGED <<serverVars, wire, available, options, page, outcome>>
  BY DEF NextPage
<1>2. Good(page) /\ Complete /\ page.txs \in SUBSET Places
  BY <1>1 DEF HistoryInv, TypeOK, Page
<1>3. page.txs # {}
  BY <1>1, <1>2 DEF Good, GoodBy
<1>4. /\ marker' \in page.txs /\ marker' \in Places
      /\ \A t \in page.txs : t = marker' \/ PrecedesBy(options, t, marker')
      /\ marker' = LastBy(options, page.txs)
  BY <1>1, <1>2, <1>3, FirstAndLast, Renamed DEF NextMarker
<1>5. \A t \in page.txs : Passed(options, marker', t)
  <2>1. NoTx \notin Places
    BY PlaceFacts, HistoryAssumption DEF NoTx
  <2>2. ASSUME NEW t \in page.txs PROVE ~PrecedesBy(options, marker', t)
    <3>1. t \in Places /\ (t = marker' \/ PrecedesBy(options, t, marker'))
      BY <1>2, <1>4
    <3>2. ~PrecedesBy(options, t, t)
      BY <3>1, OrderFacts
    <3>3. ~(PrecedesBy(options, t, marker') /\ PrecedesBy(options, marker', t))
      BY <1>4, <3>1, OrderFacts
    <3> QED
      BY <3>1, <3>2, <3>3
  <2> QED
    BY <1>4, <2>1, <2>2 DEF Passed
<1>6. \A t \in Places : Passed(options, marker, t) => Passed(options, marker', t)
  <2> SUFFICES ASSUME NEW t \in Places, Passed(options, marker, t)
               PROVE  Passed(options, marker', t)
    OBVIOUS
  <2>1. marker \in Places /\ PrecedesBy(options, marker, marker')
    BY <1>2, <1>4 DEF Passed, Good, GoodBy, HistoryInv, TypeOK
  <2>2. ~PrecedesBy(options, marker', t)
    BY <1>4, <2>1, OrderFacts DEF Passed
  <2>3. marker' # NoTx
    BY <1>4, <1>5 DEF Passed
  <2> QED
    BY <2>2, <2>3 DEF Passed
<1>7. Complete'
  <2>1. Cardinality(results') + left' = options'.limit
    <3>1. Cardinality(results') = Cardinality(results) + Cardinality(Kept)
      BY <1>1, KeptIsNew
    <3>2. left \in Nat /\ Cardinality(Kept) \in Nat
      BY KeptFacts DEF HistoryInv
    <3>3. Cardinality(results) \in Nat
      BY <1>1, KeptIsNew
    <3> QED
      BY <1>1, <1>2, <3>1, <3>2, <3>3 DEF Complete, Remaining
  <2>2. \A t \in results' : /\ InRange(options, t) /\ t[1] <= validated
                            /\ Passed(options, marker', t)
    <3>1. \A t \in results : /\ InRange(options, t) /\ t[1] <= validated
                            /\ Passed(options, marker', t)
      BY <1>1, <1>2, <1>6, KeptIsNew DEF Complete, CompleteBy
    <3>2. \A t \in Kept : /\ InRange(options, t) /\ t[1] <= validated
                          /\ Passed(options, marker', t)
      BY <1>1, <1>5, KeptIsNew, KeptFacts DEF HistoryInv
    <3> QED
      BY <1>1, <3>1, <3>2
  <2>3. ASSUME NEW t \in matching, t[1] \in history \ late, InRange(options, t),
               Passed(options, marker', t), orderFilter(t)
        PROVE  t \in results'
    <3>1. t \in Places
      BY DEF HistoryInv, TypeOK
    <3>2. CASE Passed(options, marker, t)
      BY <1>1, <1>2, <2>3, <3>2, Renamed DEF Complete, CompleteBy, orderFilter
    <3>3. CASE ~Passed(options, marker, t)
      <4>1. t \in page.txs
        BY <1>2, <1>4, <2>3, <3>1, <3>3 DEF Good, GoodBy, Passed
      <4> QED
        BY <1>1, <2>3, <4>1 DEF Kept
    <3> QED
      BY <3>2, <3>3
  <2>4. CompleteBy(options, marker', validated, history \ late, matching, results')
    BY <2>2, <2>3, Renamed DEF CompleteBy, orderFilter
  <2> QED
    BY <1>1, <2>1, <2>4 DEF Complete, serverVars
<1>8. Behind'
  BY <1>1 DEF HistoryInv, Behind, serverVars
<1>9. OnePage'
  BY <1>1 DEF HistoryInv, OnePage
<1> QED
  BY <1>1, <1>7, <1>8, <1>9 DEF HistoryInv

(* When the last page is more than is wanted, the limit has been reached,  *)
(* and what is left out comes after all of the result.                     *)
LEMMA LimitCuts ==
  ASSUME HistoryInv, stage = "got", NEW R, R = results \cup Slice(Kept, left),
         NEW t \in Places, ~Passed(options, marker, t),
         \/ t \in Kept \ Slice(Kept, left)
         \/ ~(Remaining > 0) /\ \A s \in page.txs : PrecedesBy(options, s, t)
  PROVE  LimitReached(R) /\ ~Precedes(t, LastOf(R))
<1> DEFINE C == Slice(Kept, left)
<1>1. C = SliceBy(options, Kept, left)
  BY Renamed
<1>2. /\ Kept \in SUBSET Places /\ Kept \subseteq page.txs /\ IsFiniteSet(Kept)
      /\ Cardinality(Kept) \in Nat /\ left \in Nat \ {0}
  BY KeptFacts DEF HistoryInv
<1>3. /\ C \subseteq Kept
      /\ \A s, u \in Kept : u \in C /\ PrecedesBy(options, s, u) => s \in C
      /\ Cardinality(C) <= left
      /\ C # Kept => Cardinality(C) = left
  BY <1>1, <1>2, SliceFacts
<1> HIDE DEF C
<1>4. Cardinality(C) = left
  <2>1. CASE t \in Kept \ C
    BY <1>3, <2>1
  <2>2. CASE ~(Remaining > 0)
    BY <1>2, <1>3, <2>2 DEF Remaining
  <2> QED
    BY <2>1, <2>2 DEF C
<1>5. /\ Cardinality(R) = options.limit /\ R \in SUBSET Places /\ results \in SUBSET Places
      /\ Cardinality(R) \in Nat
  <2>1. /\ Cardinality(R) = Cardinality(results) + left
        /\ results \in SUBSET Places /\ Cardinality(results) \in Nat
    BY <1>3, <1>4, KeptIsNew DEF C
  <2>2. R \in SUBSET Places
    BY <1>2, <1>3, <2>1 DEF C
  <2>3. Cardinality(R) = options.limit
    BY <2>1 DEF HistoryInv, Complete
  <2> QED
    BY <1>2, <2>1, <2>2, <2>3
<1>6. LimitReached(R)
  <2>1. Cardinality(R) <= Cardinality(Places) /\ Cardinality(Places) \in Nat
    BY <1>5, PlacesFinite, FS_Subset, FS_CardinalityType
  <2>2. options.limit # Infinity
    BY <1>5, <2>1 DEF Infinity
  <2> QED
    BY <1>5, <2>2 DEF LimitReached
<1>7. ASSUME NEW s \in R PROVE ~PrecedesBy(options, t, s)
  <2>1. CASE s \in results
    <3>1. Passed(options, marker, s)
      BY <2>1 DEF HistoryInv, Complete, CompleteBy
    <3>2. marker \in Places /\ PrecedesBy(options, marker, t)
      BY <3>1 DEF Passed, HistoryInv, TypeOK
    <3>3. ~PrecedesBy(options, marker, s)
      BY <3>1 DEF Passed
    <3> QED
      BY <1>5, <2>1, <3>2, <3>3, OrderFacts
  <2>2. CASE s \in C
    <3>1. s \in Places /\ s \in Kept
      BY <1>2, <1>3, <2>2
    <3>2. CASE t \in Kept \ C
      BY <1>3, <2>2, <3>1, <3>2
    <3>3. CASE \A u \in page.txs : PrecedesBy(options, u, t)
      BY <1>2, <3>1, <3>3, OrderFacts
    <3> QED
      BY <3>2, <3>3 DEF C
  <2> QED
    BY <2>1, <2>2 DEF C
<1>8. R # {}
  <2>1. Cardinality(C) # 0
    BY <1>2, <1>4
  <2> QED
    BY <2>1, FS_EmptySet DEF C
<1>9. LastBy(options, R) \in R
  BY <1>5, <1>8, FirstAndLast
<1> QED
  BY <1>6, <1>7, <1>9, Renamed

LEMMA LastPageKeeps == ASSUME HistoryInv, TypeOK', LastPage PROVE HistoryInv'
<1> DEFINE R == results \cup Slice(Kept, left)
<1>1. /\ stage = "got" /\ stage' = "settled" /\ results' = R
      /\ ~(Remaining > 0 /\ page.more)
      /\ UNCHANGED <<serverVars, wire, available, options, marker, left, page>>
  BY DEF LastPage
<1>2. Good(page) /\ Complete /\ page.txs \in SUBSET Places
  BY <1>1 DEF HistoryInv, TypeOK, Page
<1>3. /\ Slice(Kept, left) \in SUBSET Kept /\ Cardinality(Slice(Kept, left)) <= left
      /\ Kept \subseteq page.txs /\ left \in Nat
  <2>1. Kept \in SUBSET Places /\ Kept \subseteq page.txs /\ left \in Nat
    BY KeptFacts DEF HistoryInv
  <2> QED
    BY <2>1, SliceFacts, Renamed
<1>4. /\ results \in SUBSET Places
      /\ Cardinality(R) = Cardinality(results) + Cardinality(Slice(Kept, left))
      /\ Cardinality(results) \in Nat /\ Cardinality(Slice(Kept, left)) \in Nat
      /\ \A t \in Slice(Kept, left) : InRange(options, t) /\ t[1] <= validated
  BY <1>1, <1>3, KeptIsNew
<1>5. \A t \in R : InRange(options, t) /\ t[1] <= validated
  BY <1>2, <1>4 DEF Complete, CompleteBy
<1>6. WithinLimit'
  <2>1. Cardinality(R) <= options.limit
    BY <1>2, <1>3, <1>4 DEF Complete
  <2> QED
    BY <1>1, <1>5, <2>1 DEF WithinLimit, InRange, serverVars
<1>7. R \in SUBSET Places
  BY <1>2, <1>3, <1>4
<1> HIDE DEF R
<1>8. ASSUME outcome' = "resolved", CheckedRange(R).max # -1,
             NEW t \in matching, orderFilter(t), t[1] \in 1 .. validated,
             t[1] \notin late \cup lost, t[1] >= options.min, t[1] <= CheckedRange(R).max,
             LimitReached(R) => Precedes(t, LastOf(R))
      PROVE  t \in R
  <2>1. t \in Places /\ t[1] \in Int /\ t[1] >= 1
    <3>1. t \in Places
      BY DEF HistoryInv, TypeOK
    <3> QED
      BY <3>1, PlaceFacts, HistoryAssumption
  <2> DEFINE l == LastOf(R)
  <2>2. ASSUME LimitReached(R) PROVE l \in R /\ l[1] \in Int
    <3>1. Cardinality(R) # 0
      BY <2>2, HistoryAssumption, PlacesFinite DEF LimitReached, HistoryInv, TypeOK, Options
    <3>2. R # {}
      BY <3>1, FS_EmptySet
    <3>3. l \in R /\ l \in Places
      BY <1>7, <3>2, FirstAndLast, Renamed
    <3> QED
      BY <3>3, PlaceFacts, HistoryAssumption
  <2> HIDE DEF l
  <2>3. CheckedRange(R) =
          IF ~LimitReached(R) THEN [min |-> options.min, max |-> options.max]
          ELSE IF options.earliestFirst THEN [min |-> options.min, max |-> l[1]]
          ELSE [min |-> l[1], max |-> options.max]
    BY DEF CheckedRange, l
  <2>4. options.min \in Int /\ options.max \in Int
    BY HistoryAssumption DEF HistoryInv, TypeOK, Options
  <2>5. InRange(options, t)
    <3>1. CASE LimitReached(R) /\ options.earliestFirst
      <4>1. CheckedRange(R).max = l[1]
        BY <2>3, <3>1
      <4>2. InRange(options, l) /\ l[1] \in Int
        BY <1>5, <2>2, <3>1
      <4> QED
        BY <1>8, <2>1, <2>4, <4>1, <4>2 DEF InRange
    <3>2. CASE ~(LimitReached(R) /\ options.earliestFirst)
      <4>1. CheckedRange(R).max = options.max
        BY <2>3, <3>2
      <4> QED
        BY <1>8, <4>1 DEF InRange
    <3> QED
      BY <3>1, <3>2
  <2>6. t[1] \in available
    <3> DEFINE lo == CheckedRange(R).min
    <3>1. lo \in Int /\ lo <= t[1]
      <4>1. CASE LimitReached(R) /\ ~options.earliestFirst
        <5>1. lo = l[1] /\ Before(l, t) /\ l[1] \in Int
          BY <1>8, <2>2, <2>3, <4>1 DEF Precedes, l
        <5> QED
          BY <2>1, <5>1 DEF Before
      <4>2. CASE ~(LimitReached(R) /\ ~options.earliestFirst)
        <5>1. lo = options.min
          BY <2>3, <4>2
        <5> QED
          BY <1>8, <2>4, <5>1
      <4> QED
        BY <4>1, <4>2
    <3>3. \E a, b \in available : /\ a .. b \subseteq available
                                  /\ a <= (IF lo = 0 THEN 1 ELSE lo) /\ CheckedRange(R).max <= b
      BY <1>1, <1>8 DEF LastPage, checkForLedgerGaps, hasCompleteLedgerRange, containsRange
    <3>4. PICK a, b \in available : /\ a .. b \subseteq available
                                   /\ a <= (IF lo = 0 THEN 1 ELSE lo) /\ CheckedRange(R).max <= b
      BY <3>3
    <3>5. CheckedRange(R).max \in Int /\ a \in Int /\ b \in Int
      <4>1. CheckedRange(R).max \in Int
        BY <2>2, <2>3, <2>4
      <4>2. available \subseteq Int
        BY HistoryAssumption DEF HistoryInv, TypeOK, Versions
      <4> QED
        BY <3>4, <4>1, <4>2
    <3>6. t[1] \in a .. b
      BY <1>8, <2>1, <3>1, <3>4, <3>5
    <3> QED
      BY <3>4, <3>6
  <2>7. t[1] \in history \ late
    BY <1>8, <2>6 DEF HistoryInv, Behind
  <2>8. CASE Passed(options, marker, t)
    BY <1>2, <1>8, <2>5, <2>7, <2>8, Renamed DEF Complete, CompleteBy, orderFilter, R
  <2>9. CASE ~Passed(options, marker, t)
    <3>1. t \in page.txs \/ (page.more /\ PrecedesBy(options, LastBy(options, page.txs), t))
      BY <1>2, <2>1, <2>5, <2>7, <2>9 DEF Good, GoodBy
    <3>2. CASE t \in page.txs
      <4>1. t \in Kept
        BY <1>8, <3>2 DEF Kept
      <4>2. t \notin Kept \ Slice(Kept, left)
        BY <1>1, <1>8, <2>1, <2>9, LimitCuts DEF R
      <4> QED
        BY <4>1, <4>2 DEF R
    <3>3. CASE page.more /\ PrecedesBy(options, LastBy(options, page.txs), t)
      <4>1. ~(Remaining > 0)
        BY <1>1, <3>3
      <4>2. page.txs # {}
        BY <1>2, <3>3 DEF Good, GoodBy
      <4>3. \A s \in page.txs : PrecedesBy(options, s, t)
        <5> DEFINE q == LastBy(options, page.txs)
        <5>1. q \in page.txs /\ \A s \in page.txs : s = q \/ PrecedesBy(options, s, q)
          BY <1>2, <4>2, FirstAndLast
        <5>2. PrecedesBy(options, q, t)
          BY <3>3
        <5> HIDE DEF q
        <5> QED
          BY <1>2, <2>1, <5>1, <5>2, OrderFacts
      <4> QED
        BY <1>1, <1>8, <2>1, <2>9, <4>1, <4>3, LimitCuts DEF R
    <3> QED
      BY <3>1, <3>2, <3>3
  <2> QED
    BY <2>8, <2>9
<1>9. NoSilentGap'
  <2>1. /\ \A Q : /\ CheckedRange(Q)' = CheckedRange(Q) /\ LimitReached(Q)' = LimitReached(Q)
                  /\ LastOf(Q)' = LastOf(Q)
        /\ \A s, t : Precedes(s, t)' = Precedes(s, t)
        /\ options' = options /\ Wanted' = Wanted
    BY <1>1 DEF CheckedRange, LimitReached, LastOf, Precedes, Wanted, orderFilter, serverVars
  <2> SUFFICES ASSUME outcome' = "resolved", CheckedRange(R).max # -1,
                      NEW t \in Wanted, t[1] >= options.min, t[1] <= CheckedRange(R).max,
                      LimitReached(R) => Precedes(t, LastOf(R))
               PROVE  t \in R
    BY <1>1, <2>1 DEF NoSilentGap
  <2> QED
    BY <1>8 DEF Wanted
<1>10. Behind' /\ OnePage'
  BY <1>1 DEF HistoryInv, Behind, OnePage, serverVars
<1> QED
  BY <1>1, <1>6, <1>9, <1>10 DEF HistoryInv

(* ------------------------------ Theorems ------------------------------- *)

LEMMA InvariantStarts == ASSUME Init PROVE HistoryInv
<1>1. validated \in Versions /\ history \subseteq 1 .. validated /\ 1 .. validated \subseteq Versions
  BY HistoryAssumption DEF Init, Versions
<1>2. wire = <<>> /\ Len(wire) = 0 /\ wire \in Seq(Message)
  BY DEF Init
<1>3. NoOptions \in Options /\ left \in Nat \ {0}
  BY HistoryAssumption, PlacesFinite DEF Init, NoOptions, Options
<1>4. NoPage \in Page
  BY DEF NoPage, Page
<1>5. TypeOK
  BY <1>1, <1>2, <1>3, <1>4 DEF Init, TypeOK
<1>6. Behind /\ OnePage
  BY <1>1, <1>2 DEF Behind, OnePage, Init
<1> QED
  BY <1>5, <1>6 DEF Init, HistoryInv

LEMMA InvariantStep == ASSUME HistoryInv, [Next]_vars PROVE HistoryInv'
<1>1. CASE Next
  <2>1. TypeOK'
    BY <1>1, TypedStep DEF HistoryInv
  <2> QED
    BY <1>1, <2>1, LedgerClosesKeeps, ServerKeeps, AnswersPageKeeps, GetTransactionsKeeps,
       ReceiveKeeps, NextPageKeeps, LastPageKeeps DEF Next
<1>2. CASE UNCHANGED vars
  <2>1. /\ TypeOK' /\ Behind'
        /\ Complete' = Complete /\ \A q : Good(q)' = Good(q)
    BY <1>2 DEF HistoryInv, TypeOK, Behind, Complete, Good, vars, serverVars, callVars
  <2>2. (WithinLimit /\ NoSilentGap)' = (WithinLimit /\ NoSilentGap)
    BY <1>2 DEF WithinLimit, NoSilentGap, Wanted, CheckedRange, LimitReached, LastOf, Precedes,
                orderFilter, vars, serverVars, callVars
  <2>3. OnePage'
    BY <1>2 DEF HistoryInv, OnePage, Good, vars, serverVars, callVars
  <2> QED
    BY <1>2, <2>1, <2>2, <2>3 DEF HistoryInv, Good, vars, serverVars, callVars
<1> QED
  BY <1>1, <1>2

(* Every reachable state of a call satisfies the invariant.                *)
THEOREM HistoryInvariant == Spec => []HistoryInv
<1>1. Init => HistoryInv
  BY InvariantStarts
<1>2. HistoryInv /\ [Next]_vars => HistoryInv'
  BY InvariantStep
<1> QED
  BY <1>1, <1>2, PTL DEF Spec

(* Every reachable state of a call is well typed.                          *)
THEOREM HistoryTyped == Spec => []TypeOK
<1>1. HistoryInv => TypeOK
  BY DEF HistoryInv
<1> QED
  BY <1>1, HistoryInvariant, PTL

(* A call never collects more transactions than its limit, and only those  *)
(* of validated ledgers in its range, however the server pages them.       *)
THEOREM ReturnsWithinLimit == Spec => []WithinLimit
<1>1. HistoryInv => WithinLimit
  <2> SUFFICES ASSUME HistoryInv PROVE WithinLimit
    OBVIOUS
  <2>1. CASE stage = "idle"
    <3>1. results = {} /\ options.limit \in Nat
      BY <2>1, HistoryAssumption, PlacesFinite DEF HistoryInv, TypeOK, Options
    <3>2. Cardinality(results) = 0
      BY <3>1, FS_EmptySet
    <3> QED
      BY <3>1, <3>2 DEF WithinLimit
  <2>2. CASE stage \in {"asked", "got"}
    <3>1. left \in Nat /\ results \in SUBSET Places
      BY DEF HistoryInv, TypeOK
    <3>2. Cardinality(results) \in Nat
      BY <3>1, PlacesFinite, FS_Subset, FS_CardinalityType
    <3> QED
      BY <2>2, <3>1, <3>2 DEF HistoryInv, Complete, CompleteBy, InRange, WithinLimit
  <2>3. CASE stage = "settled"
    BY <2>3 DEF HistoryInv
  <2>4. stage \in {"idle", "asked", "got", "settled"}
    BY DEF HistoryInv, TypeOK
  <2> QED
    BY <2>1, <2>2, <2>3, <2>4
<1> QED
  BY <1>1, HistoryInvariant, PTL

(* A call that resolves has left out no transaction of its range, of the   *)
(* ledgers the server had all along: none at all, or none before the last  *)
(* of the result when the limit was reached.                               *)
THEOREM ReturnsAll == Spec => []NoSilentGap
<1>1. HistoryInv => NoSilentGap
  BY DEF HistoryInv, TypeOK, NoSilentGap
<1> QED
  BY <1>1, HistoryInvariant, PTL

=============================================================================
