-------------------------- MODULE LedgerViewProofs --------------------------
(***************************************************************************)
(* Theorems about LedgerView for every number of ledgers and messages, and *)
(* what the operators of RangeSet compute for every sequence of ranges.    *)
(***************************************************************************)
EXTENDS LedgerView, SequenceTheorems, FiniteSetTheorems, TLAPS

(* ------------------------------- Sorting ------------------------------- *)

(* before is a strict total order of S.                                    *)
Ordered(S, before) ==
  /\ \A x \in S : <<x, x>> \notin before
  /\ \A x, y \in S : x # y => <<x, y>> \in before \/ <<y, x>> \in before
  /\ \A x, y, z \in S : <<x, y>> \in before /\ <<y, z>> \in before => <<x, z>> \in before

(* InOrder has every element once, and in order.                           *)
LEMMA InOrderFacts ==
  ASSUME NEW S, IsFiniteSet(S), NEW before, Ordered(S, before)
  PROVE  LET n == Cardinality(S)
             f == InOrder(S, before)
         IN /\ n \in Nat /\ f \in [1 .. n -> S]
            /\ \A x \in S : \E k \in 1 .. n : f[k] = x
            /\ \A j, k \in 1 .. n : j < k => <<f[j], f[k]>> \in before
<1> DEFINE n == Cardinality(S)
           Lower(x) == {y \in S : <<y, x>> \in before}
           f == InOrder(S, before)
           rank == [x \in S |-> Cardinality(Lower(x)) + 1]
<1>1. n \in Nat
  BY FS_CardinalityType
<1>2. \A x \in S : IsFiniteSet(Lower(x)) /\ Cardinality(Lower(x)) \in Nat
  <2>1. \A x \in S : Lower(x) \in SUBSET S
    OBVIOUS
  <2> HIDE DEF Lower
  <2> QED
    BY <2>1, FS_Subset, FS_CardinalityType
<1>3. \A x, y \in S : <<x, y>> \in before => Cardinality(Lower(x)) < Cardinality(Lower(y))
  <2> SUFFICES ASSUME NEW x \in S, NEW y \in S, <<x, y>> \in before
               PROVE  Cardinality(Lower(x)) < Cardinality(Lower(y))
    OBVIOUS
  <2>1. Lower(x) \in SUBSET Lower(y) /\ x \in Lower(y) /\ x \notin Lower(x)
    BY DEF Ordered
  <2> HIDE DEF Lower
  <2> QED
    BY <1>2, <2>1, FS_Subset
<1>4. \A x \in S : Cardinality(Lower(x)) < n
  <2> SUFFICES ASSUME NEW x \in S PROVE Cardinality(Lower(x)) < n
    OBVIOUS
  <2>1. Lower(x) \in SUBSET S /\ x \notin Lower(x)
    BY DEF Ordered
  <2> HIDE DEF Lower
  <2> QED
    BY <1>1, <1>2, <2>1, FS_Subset
<1>5. rank \in [S -> 1 .. n]
  <2> HIDE DEF Lower
  <2> QED
    BY <1>1, <1>2, <1>4
<1>6. \A x, y \in S : <<x, y>> \in before => rank[x] < rank[y]
  <2> HIDE DEF Lower
  <2> QED
    BY <1>2, <1>3
<1>7. rank \in Injection(S, 1 .. n)
  <2> HIDE DEF rank
  <2>1. ASSUME NEW x \in S, NEW y \in S, rank[x] = rank[y] PROVE x = y
    <3>1. rank[x] \in Int /\ rank[y] \in Int
      BY <1>1, <1>5
    <3>2. ~(rank[x] < rank[y]) /\ ~(rank[y] < rank[x])
      BY <2>1, <3>1
    <3>3. <<x, y>> \notin before /\ <<y, x>> \notin before
      BY <1>6, <3>2, Zenon
    <3> QED
      BY <3>3, Zenon DEF Ordered
  <2> QED
    BY <1>5, <2>1, Zenon DEF Injection, IsInjective
<1>8. rank \in Surjection(S, 1 .. n)
  <2> HIDE DEF rank
  <2>1. IsFiniteSet(1 .. n) /\ Cardinality(1 .. n) = n
    BY <1>1, FS_Interval
  <2> QED
    BY <1>7, <2>1, FS_Injection
<1> DEFINE at(k) == CHOOSE y \in S : Cardinality(Lower(y)) = k - 1
<1>13. f = [k \in 1 .. n |-> at(k)]
  BY DEF InOrder
<1>9. \A k \in 1 .. n : at(k) \in S /\ rank[at(k)] = k
  <2> SUFFICES ASSUME NEW k \in 1 .. n PROVE at(k) \in S /\ rank[at(k)] = k
    OBVIOUS
  <2> HIDE DEF Lower
  <2>1. PICK x \in S : rank[x] = k
    BY <1>8 DEF Surjection
  <2>2. Cardinality(Lower(x)) = k - 1
    BY <1>1, <1>2, <2>1
  <2>4. at(k) \in S /\ Cardinality(Lower(at(k))) = k - 1
    BY <2>2
  <2> HIDE DEF at
  <2> QED
    BY <1>1, <2>4
<1> HIDE DEF f, rank, at
<1>10. f \in [1 .. n -> S] /\ \A k \in 1 .. n : f[k] \in S /\ rank[f[k]] = k
  BY <1>9, <1>13
<1>11. ASSUME NEW x \in S PROVE \E k \in 1 .. n : f[k] = x
  <2>1. rank[x] \in 1 .. n
    BY <1>5
  <2>2. f[rank[x]] \in S /\ rank[f[rank[x]]] = rank[x]
    BY <1>10, <2>1
  <2>3. f[rank[x]] = x
    BY <1>7, <2>2 DEF Injection, IsInjective
  <2> QED
    BY <2>1, <2>3
<1>12. ASSUME NEW j \in 1 .. n, NEW k \in 1 .. n, j < k
       PROVE  <<f[j], f[k]>> \in before
  <2>1. /\ f[j] \in S /\ f[k] \in S /\ rank[f[j]] = j /\ rank[f[k]] = k
    BY <1>10
  <2>2. f[j] # f[k]
    BY <1>1, <1>12, <2>1
  <2>3. ~(<<f[k], f[j]>> \in before)
    BY <1>1, <1>6, <1>12, <2>1
  <2> QED
    BY <2>1, <2>2, <2>3 DEF Ordered
<1> QED
  BY <1>1, <1>10, <1>11, <1>12 DEF f

(* ------------------------------- Ranges -------------------------------- *)

Ranges == {r \in Int \X Int : r[1] <= r[2]}

(* sortByFirst has the same ranges, by their first.                        *)
LEMMA SortFacts ==
  ASSUME NEW ranges \in Seq(Ranges)
  PROVE  LET sorted == sortByFirst(ranges)
         IN /\ sorted \in Seq(Ranges) /\ Len(sorted) = Len(ranges)
            /\ Denotes(sorted) = Denotes(ranges)
            /\ \A i, j \in 1 .. Len(ranges) : i < j => sorted[i][1] <= sorted[j][1]
<1> DEFINE all == 1 .. Len(ranges)
           before == {p \in all \X all :
                        \/ ranges[p[1]][1] < ranges[p[2]][1]
                        \/ ranges[p[1]][1] = ranges[p[2]][1] /\ p[1] < p[2]}
           places == InOrder(all, before)
           sorted == sortByFirst(ranges)
<1>1. Len(ranges) \in Nat /\ \A i \in all : ranges[i] \in Ranges /\ ranges[i][1] \in Int
  BY DEF Ranges
<1>2. \A i, j \in all : <<i, j>> \in before
                          <=> \/ ranges[i][1] < ranges[j][1]
                              \/ ranges[i][1] = ranges[j][1] /\ i < j
  OBVIOUS
<1>3. Ordered(all, before)
  <2> HIDE DEF before
  <2>1. \A i \in all : ranges[i][1] \in Int /\ i \in Int
    BY <1>1
  <2> HIDE DEF all
  <2>2. \A x \in all : <<x, x>> \notin before
    BY <1>2, <2>1
  <2>3. \A x, y \in all : x # y => <<x, y>> \in before \/ <<y, x>> \in before
    BY <1>2, <2>1
  <2>4. \A x, y, z \in all : <<x, y>> \in before /\ <<y, z>> \in before => <<x, z>> \in before
    BY <1>2, <2>1
  <2> QED
    BY <2>2, <2>3, <2>4, Zenon DEF Ordered
<1>4. IsFiniteSet(all) /\ Cardinality(all) = Len(ranges)
  <2>1. 1 \in Int /\ Len(ranges) \in Int
    BY <1>1
  <2>2. /\ IsFiniteSet(all)
        /\ Cardinality(all) = IF 1 > Len(ranges) THEN 0 ELSE Len(ranges) - 1 + 1
    BY <2>1, FS_Interval, Zenon
  <2> HIDE DEF all
  <2> QED
    BY <1>1, <2>2
<1>5. sorted = [i \in all |-> ranges[places[i]]]
  BY DEF sortByFirst
<1> HIDE DEF before
<1>6. /\ places \in [all -> all]
      /\ \A i \in all : \E k \in all : places[k] = i
      /\ \A j, k \in all : j < k => <<places[j], places[k]>> \in before
  BY <1>3, <1>4, InOrderFacts
<1> HIDE DEF places
<1>7. sorted \in Seq(Ranges) /\ Len(sorted) = Len(ranges)
  <2>1. sorted \in [1 .. Len(ranges) -> Ranges]
    BY <1>1, <1>5, <1>6
  <2> QED
    BY <1>1, <2>1
<1>8. \A i, j \in all : i < j => sorted[i][1] <= sorted[j][1]
  <2> SUFFICES ASSUME NEW i \in all, NEW j \in all, i < j PROVE sorted[i][1] <= sorted[j][1]
    OBVIOUS
  <2>1. places[i] \in all /\ places[j] \in all /\ <<places[i], places[j]>> \in before
    BY <1>6
  <2>2. ranges[places[i]][1] \in Int /\ ranges[places[j]][1] \in Int
    BY <1>1, <2>1
  <2> HIDE DEF all
  <2>3. \/ ranges[places[i]][1] < ranges[places[j]][1]
        \/ ranges[places[i]][1] = ranges[places[j]][1] /\ places[i] < places[j]
    BY <1>2, <2>1, Zenon
  <2>4. ranges[places[i]][1] <= ranges[places[j]][1]
    BY <2>2, <2>3
  <2> QED
    BY <1>5, <2>4
<1>9. Denotes(sorted) = Denotes(ranges)
  <2>1. DOMAIN sorted = all /\ DOMAIN ranges = all
    BY <1>1, <1>7
  <2>2. \A v : v \in Denotes(sorted) <=> \E i \in all : v \in sorted[i][1] .. sorted[i][2]
    BY <2>1 DEF Denotes
  <2>3. \A v : v \in Denotes(ranges) <=> \E i \in all : v \in ranges[i][1] .. ranges[i][2]
    BY <2>1 DEF Denotes
  <2> HIDE DEF sorted
  <2>4. \A v : v \in Denotes(sorted) => v \in Denotes(ranges)
    BY <1>5, <1>6, <2>2, <2>3
  <2>5. \A v : v \in Denotes(ranges) => v \in Denotes(sorted)
    BY <1>5, <1>6, <2>2, <2>3
  <2> QED
    BY <2>4, <2>5
<1> QED
  BY <1>7, <1>8, <1>9

(* The ranges are in order and no two touch.                               *)
Apart(ranges) ==
  \A i, j \in 1 .. Len(ranges) : i < j => ranges[i][2] + 1 < ranges[j][1]

LEMMA MaxOfTwo ==
  ASSUME NEW a \in Int, NEW b \in Int
  PROVE  Max({a, b}) = IF a >= b THEN a ELSE b
<1> DEFINE m == IF a >= b THEN a ELSE b
<1>1. m \in {a, b} /\ \A y \in {a, b} : m >= y
  OBVIOUS
<1>2. \A x \in {a, b} : (\A y \in {a, b} : x >= y) => x = m
  OBVIOUS
<1> HIDE DEF m
<1>3. Max({a, b}) \in {a, b} /\ \A y \in {a, b} : Max({a, b}) >= y
  BY <1>1 DEF Max
<1>4. Max({a, b}) = m
  BY <1>2, <1>3
<1> QED
  BY <1>4 DEF m

(* Pushing the next range keeps a stack apart, and adds it.                *)
LEMMA PushFacts ==
  ASSUME NEW stack \in Seq(Ranges), Apart(stack), NEW r \in Ranges,
         stack # <<>> => stack[Len(stack)][1] <= r[1]
  PROVE  LET pushed == Push(stack, r)
         IN /\ pushed \in Seq(Ranges) /\ Apart(pushed) /\ pushed # <<>>
            /\ pushed[Len(pushed)][1] <= r[1]
            /\ Denotes(pushed) = Denotes(stack) \cup (r[1] .. r[2])
<1> DEFINE n == Len(stack)
           top == stack[n]
           pushed == Push(stack, r)
<1>1. /\ n \in Nat /\ \A i \in 1 .. n : /\ stack[i] \in Ranges /\ stack[i][1] \in Int
                                        /\ stack[i][2] \in Int /\ stack[i][1] <= stack[i][2]
      /\ r[1] \in Int /\ r[2] \in Int /\ r[1] <= r[2] /\ r = <<r[1], r[2]>>
  BY DEF Ranges
<1>2. CASE stack # <<>> /\ Touches(r, top)
  <2>1. n >= 1 /\ n \in 1 .. n
    BY <1>1, <1>2
  <2>2. /\ top[1] \in Int /\ top[2] \in Int /\ top[1] <= top[2] /\ top[1] <= r[1]
        /\ r[1] <= top[2] + 1
    BY <1>1, <1>2, <2>1 DEF Touches
  <2> DEFINE high == Max({r[2], top[2]})
             merged == <<top[1], high>>
  <2>3. /\ high \in Int /\ high >= r[2] /\ high >= top[2] /\ high \in {r[2], top[2]}
    <3> HIDE DEF top
    <3>1. high = IF r[2] >= top[2] THEN r[2] ELSE top[2]
      BY <1>1, <2>2, MaxOfTwo, Zenon
    <3> HIDE DEF high
    <3> QED
      BY <1>1, <2>2, <3>1
  <2> HIDE DEF high
  <2>4. merged \in Ranges /\ merged[1] = top[1] /\ merged[2] = high
    BY <2>2, <2>3 DEF Ranges
  <2> HIDE DEF merged
  <2>5. pushed = Append(SubSeq(stack, 1, n - 1), merged)
    BY <1>2 DEF Push, Last, Front, high, merged
  <2>6. /\ SubSeq(stack, 1, n - 1) \in Seq(Ranges)
        /\ Len(SubSeq(stack, 1, n - 1)) = n - 1
        /\ \A i \in 1 .. n - 1 : SubSeq(stack, 1, n - 1)[i] = stack[i]
    <3> DEFINE m == n - 1
    <3>1. m \in Int /\ 1 \in Int /\ (IF 1 <= m THEN m - 1 + 1 ELSE 0) = m
          /\ \A i \in 1 .. m : stack[i] \in Ranges
      <4> HIDE DEF n
      <4>1. m \in Int /\ 1 \in Int /\ (IF 1 <= m THEN m - 1 + 1 ELSE 0) = m
        BY <1>1, <2>1
      <4>2. \A i \in 1 .. m : i \in 1 .. n
        BY <1>1
      <4> QED
        BY <1>1, <4>1, <4>2
    <3> HIDE DEF n, m
    <3>2. /\ SubSeq(stack, 1, m) \in Seq(Ranges)
          /\ Len(SubSeq(stack, 1, m)) = m
          /\ \A i \in 1 .. m - 1 + 1 : SubSeq(stack, 1, m)[i] = stack[1 + i - 1]
      BY <3>1, SubSeqProperties
    <3>3. m - 1 + 1 = m /\ \A i \in 1 .. m : 1 + i - 1 = i
      BY <3>1
    <3>4. \A i \in 1 .. m : SubSeq(stack, 1, m)[i] = stack[i]
      BY <3>2, <3>3
    <3> QED
      BY <3>2, <3>4 DEF m
  <2>7. /\ pushed \in Seq(Ranges) /\ Len(pushed) = n /\ pushed[n] = merged
        /\ \A i \in 1 .. n - 1 : pushed[i] = stack[i]
    BY <1>1, <2>1, <2>4, <2>5, <2>6, AppendProperties
  <2> HIDE DEF pushed
  <2>8. ASSUME NEW i \in 1 .. n, NEW j \in 1 .. n, i < j
        PROVE  pushed[i][2] + 1 < pushed[j][1]
    <3>1. i \in 1 .. n - 1 /\ pushed[i] = stack[i] /\ stack[i][2] + 1 < stack[j][1]
      BY <1>1, <2>7, <2>8 DEF Apart
    <3>2. pushed[j][1] = stack[j][1]
      BY <1>1, <2>4, <2>7
    <3> QED
      BY <3>1, <3>2
  <2>9. Apart(pushed)
    BY <2>7, <2>8 DEF Apart
  <2>10. \A v : v \in Denotes(pushed) <=> \E i \in 1 .. n : v \in pushed[i][1] .. pushed[i][2]
    BY <2>7 DEF Denotes
  <2>11. \A v : v \in Denotes(stack) <=> \E i \in 1 .. n : v \in stack[i][1] .. stack[i][2]
    BY <1>1 DEF Denotes
  <2>12. merged[1] .. merged[2] = (top[1] .. top[2]) \cup (r[1] .. r[2])
    BY <1>1, <2>2, <2>3, <2>4
  <2>13. Denotes(pushed) = Denotes(stack) \cup (r[1] .. r[2])
    <3>1. ASSUME NEW v \in Denotes(pushed) PROVE v \in Denotes(stack) \cup (r[1] .. r[2])
      <4>1. PICK i \in 1 .. n : v \in pushed[i][1] .. pushed[i][2]
        BY <2>10
      <4>2. CASE i = n
        BY <2>1, <2>7, <2>11, <2>12, <4>1, <4>2
      <4>3. CASE i # n
        <5>1. i \in 1 .. n - 1 /\ pushed[i] = stack[i]
          BY <1>1, <2>7, <4>3
        <5> QED
          BY <2>11, <4>1, <5>1
      <4> QED
        BY <4>2, <4>3
    <3>2. ASSUME NEW v \in Denotes(stack) PROVE v \in Denotes(pushed)
      <4>1. PICK i \in 1 .. n : v \in stack[i][1] .. stack[i][2]
        BY <2>11
      <4>2. CASE i = n
        BY <2>1, <2>7, <2>10, <2>12, <4>1, <4>2
      <4>3. CASE i # n
        <5>1. i \in 1 .. n - 1 /\ pushed[i] = stack[i]
          BY <1>1, <2>7, <4>3
        <5> QED
          BY <2>10, <4>1, <5>1
      <4> QED
        BY <4>2, <4>3
    <3>3. ASSUME NEW v \in r[1] .. r[2] PROVE v \in Denotes(pushed)
      BY <2>1, <2>7, <2>10, <2>12
    <3> QED
      BY <3>1, <3>2, <3>3
  <2>14. pushed # <<>> /\ pushed[Len(pushed)][1] <= r[1]
    BY <2>1, <2>2, <2>4, <2>7
  <2> QED
    BY <2>7, <2>9, <2>13, <2>14 DEF pushed
<1>3. CASE ~(stack # <<>> /\ Touches(r, top))
  <2>1. pushed = Append(stack, r)
    BY <1>3 DEF Push, Last
  <2>2. /\ pushed \in Seq(Ranges) /\ Len(pushed) = n + 1 /\ pushed[n + 1] = r
        /\ \A i \in 1 .. n : pushed[i] = stack[i]
    BY <1>1, <2>1, AppendProperties
  <2> HIDE DEF pushed
  <2>3. ASSUME NEW i \in 1 .. n PROVE stack[i][2] + 1 < r[1]
    <3>1. top[2] + 1 < r[1] /\ n \in 1 .. n
      BY <1>1, <1>3 DEF Touches
    <3>2. i < n => stack[i][2] + 1 < top[1]
      BY <3>1 DEF Apart
    <3>3. stack[i][2] \in Int /\ top[1] \in Int /\ top[2] \in Int /\ top[1] <= top[2]
      BY <1>1, <3>1
    <3> QED
      BY <1>1, <3>1, <3>2, <3>3
  <2>4. ASSUME NEW i \in 1 .. n + 1, NEW j \in 1 .. n + 1, i < j
        PROVE  pushed[i][2] + 1 < pushed[j][1]
    <3>1. i \in 1 .. n /\ pushed[i] = stack[i]
      BY <1>1, <2>2, <2>4
    <3>2. CASE j = n + 1
      BY <2>2, <2>3, <3>1, <3>2
    <3>3. CASE j # n + 1
      <4>1. j \in 1 .. n /\ pushed[j] = stack[j]
        BY <1>1, <2>2, <3>3
      <4> QED
        BY <2>4, <3>1, <4>1 DEF Apart
    <3> QED
      BY <3>2, <3>3
  <2>5. Apart(pushed)
    BY <2>2, <2>4 DEF Apart
  <2>6. \A v : v \in Denotes(pushed) <=> \E i \in 1 .. n + 1 : v \in pushed[i][1] .. pushed[i][2]
    BY <2>2 DEF Denotes
  <2>7. \A v : v \in Denotes(stack) <=> \E i \in 1 .. n : v \in stack[i][1] .. stack[i][2]
    BY <1>1 DEF Denotes
  <2>8. \A i \in 1 .. n + 1 : i = n + 1 \/ i \in 1 .. n
    BY <1>1
  <2>9. n + 1 \in 1 .. n + 1 /\ \A i \in 1 .. n : i \in 1 .. n + 1
    BY <1>1
  <2>10. Denotes(pushed) = Denotes(stack) \cup (r[1] .. r[2])
    <3> HIDE DEF n
    <3>1. \A v : v \in Denotes(pushed) => v \in Denotes(stack) \/ v \in r[1] .. r[2]
      BY <2>2, <2>6, <2>7, <2>8, Zenon
    <3>2. \A v : v \in Denotes(stack) \/ v \in r[1] .. r[2] => v \in Denotes(pushed)
      BY <2>2, <2>6, <2>7, <2>9, Zenon
    <3> QED
      BY <3>1, <3>2
  <2>11. pushed # <<>> /\ pushed[Len(pushed)][1] <= r[1]
    BY <1>1, <2>2
  <2> QED
    BY <2>2, <2>5, <2>10, <2>11 DEF pushed
<1> QED
  BY <1>2, <1>3

(* A nonempty set of numbers has a least one.                              *)
LEMMA LeastNumber ==
  ASSUME NEW S \in SUBSET Nat, S # {}
  PROVE  \E n \in S : \A m \in S : n <= m
<1>1. IsWellFoundedOn(OpToRel(<, Nat), Nat)
  BY NatLessThanWellFounded
<1>2. PICK n \in S : \A m \in S : ~(<<m, n>> \in OpToRel(<, Nat))
  BY <1>1, WFMin
<1>3. \A m \in S : ~(m < n)
  BY <1>2 DEF OpToRel
<1> QED
  BY <1>3

(* What holds at 0 and is handed on holds everywhere.                      *)
LEMMA HandedOn ==
  ASSUME NEW S, 0 \in S, \A n \in Nat : n \in S => n + 1 \in S
  PROVE  Nat \subseteq S
<1> SUFFICES ASSUME Nat \ S # {} PROVE FALSE
  OBVIOUS
<1>1. PICK n \in Nat \ S : \A m \in Nat \ S : n <= m
  BY LeastNumber
<1>2. n - 1 \in Nat /\ n - 1 \notin Nat \ S /\ n - 1 + 1 = n
  BY <1>1
<1> QED
  BY <1>1, <1>2

LEMMA MinFacts ==
  ASSUME NEW S \in SUBSET Nat, S # {}
  PROVE  Min(S) \in S /\ \A y \in S : Min(S) <= y
BY LeastNumber DEF Min

LEMMA MaxFacts ==
  ASSUME NEW k \in Nat, NEW S \in SUBSET (1 .. k), S # {}
  PROVE  Max(S) \in S /\ \A y \in S : y <= Max(S)
<1> DEFINE T == {k - n : n \in S}
<1>0. \A n \in S : k - n \in Nat
  OBVIOUS
<1>1. T \in SUBSET Nat /\ T # {}
  BY <1>0
<1>2. PICK x \in T : \A y \in T : x <= y
  BY <1>1, LeastNumber
<1>3. PICK n \in S : x = k - n
  OBVIOUS
<1>4. \A m \in S : k - n <= k - m
  BY <1>2, <1>3
<1>5. \A m \in S : n >= m
  BY <1>4
<1>6. \E m \in S : \A y \in S : m >= y
  BY <1>5
<1>7. Max(S) \in S /\ \A y \in S : Max(S) >= y
  BY <1>6 DEF Max
<1> QED
  BY <1>7

(* f folds every part of the numbers up to n with F, into A.               *)
Folding(f, A, base, n, F) ==
  /\ f \in [SUBSET (1 .. n) -> A]
  /\ \A s \in SUBSET (1 .. n) :
       f[s] = IF s = {} THEN base ELSE F[<<f[s \ {Max(s)}], Max(s)>>]

(* What FoldLeft folds exists: the fold over every part of a sequence.     *)
LEMMA FoldExists ==
  ASSUME NEW A, NEW base \in A, NEW n \in Nat, NEW F \in [A \X (1 .. n) -> A]
  PROVE  \E f : Folding(f, A, base, n, F)
<1> DEFINE Folds(f, k) ==
             \A s \in SUBSET (1 .. k) :
               f[s] = IF s = {} THEN base ELSE F[<<f[s \ {Max(s)}], Max(s)>>]
           K == {k \in Nat : k <= n => \E f \in [SUBSET (1 .. k) -> A] : Folds(f, k)}
<1> HIDE DEF Folds
<1>0. \A k \in Nat :
        k \in K <=> (k <= n => \E f \in [SUBSET (1 .. k) -> A] : Folds(f, k))
  OBVIOUS
<1> HIDE DEF K
<1>1. 0 \in K
  <2> USE DEF Folds
  <2> DEFINE f == [s \in SUBSET (1 .. 0) |-> base]
  <2>1. 1 .. 0 = {}
    OBVIOUS
  <2>2. f \in [SUBSET (1 .. 0) -> A] /\ Folds(f, 0)
    BY <2>1
  <2> HIDE DEF f, Folds
  <2> QED
    BY <1>0, <2>2
<1>2. ASSUME NEW k \in Nat, k \in K PROVE k + 1 \in K
  <2>0. k + 1 \in Nat
    OBVIOUS
  <2> SUFFICES ASSUME k + 1 <= n
               PROVE  \E f \in [SUBSET (1 .. k + 1) -> A] : Folds(f, k + 1)
    BY <1>0, <2>0, Zenon
  <2>7. k <= n
    OBVIOUS
  <2>1. PICK f \in [SUBSET (1 .. k) -> A] : Folds(f, k)
    BY <1>0, <1>2, <2>7, Zenon
  <2> USE DEF Folds
  <2> DEFINE g == [s \in SUBSET (1 .. k + 1) |->
                     IF k + 1 \in s THEN F[<<f[s \ {k + 1}], k + 1>>] ELSE f[s]]
  <2>2. \A s \in SUBSET (1 .. k + 1) : s \ {k + 1} \in SUBSET (1 .. k)
    OBVIOUS
  <2>3. \A s \in SUBSET (1 .. k + 1) : k + 1 \notin s => s \in SUBSET (1 .. k)
    OBVIOUS
  <2>4. k + 1 \in 1 .. n
    OBVIOUS
  <2>5. g \in [SUBSET (1 .. k + 1) -> A]
    <3>1. ASSUME NEW s \in SUBSET (1 .. k + 1)
          PROVE  (IF k + 1 \in s THEN F[<<f[s \ {k + 1}], k + 1>>] ELSE f[s]) \in A
      <4>1. f[s \ {k + 1}] \in A
        BY <2>2
      <4>2. <<f[s \ {k + 1}], k + 1>> \in A \X (1 .. n)
        BY <2>4, <4>1
      <4> QED
        BY <2>3, <4>2
    <3> QED
      BY <3>1
  <2>6. Folds(g, k + 1)
    <3> SUFFICES ASSUME NEW s \in SUBSET (1 .. k + 1)
                 PROVE  g[s] = IF s = {} THEN base
                               ELSE F[<<g[s \ {Max(s)}], Max(s)>>]
      OBVIOUS
    <3>1. CASE k + 1 \in s
      <4>1. Max(s) \in s /\ \A y \in s : y <= Max(s)
        <5>1. k + 1 \in Nat /\ s # {}
          BY <3>1
        <5> QED
          BY <5>1, MaxFacts
      <4>2. Max(s) = k + 1
        <5>1. Max(s) \in 1 .. k + 1 /\ k + 1 <= Max(s)
          BY <3>1, <4>1
        <5> QED
          BY <5>1
      <4>3. s \ {k + 1} \in SUBSET (1 .. k + 1) /\ k + 1 \notin s \ {k + 1}
        OBVIOUS
      <4>4. g[s \ {k + 1}] = f[s \ {k + 1}]
        BY <4>3
      <4>5. g[s] = F[<<f[s \ {k + 1}], k + 1>>]
        BY <3>1
      <4> QED
        BY <3>1, <4>2, <4>4, <4>5
    <3>2. CASE k + 1 \notin s
      <4>1. s \in SUBSET (1 .. k) /\ g[s] = f[s]
        BY <2>3, <3>2
      <4>2. f[s] = IF s = {} THEN base ELSE F[<<f[s \ {Max(s)}], Max(s)>>]
        BY <2>1, <4>1
      <4>3. s \ {Max(s)} \in SUBSET (1 .. k + 1) /\ k + 1 \notin s \ {Max(s)}
        BY <3>2
      <4>4. g[s \ {Max(s)}] = f[s \ {Max(s)}]
        BY <4>3
      <4> QED
        BY <4>1, <4>2, <4>4
    <3> QED
      BY <3>1, <3>2
  <2> HIDE DEF g, Folds
  <2> QED
    BY <2>5, <2>6
<1>3. n \in K
  BY <1>1, <1>2, HandedOn
<1> QED
  <2>1. n <= n
    OBVIOUS
  <2>2. PICK f \in [SUBSET (1 .. n) -> A] : Folds(f, n)
    BY <1>0, <1>3, <2>1, Zenon
  <2>3. Folding(f, A, base, n, F)
    BY <2>2, Zenon DEF Folds, Folding
  <2> QED
    BY <2>3

(* A push keeps ranges.                                                    *)
LEMMA PushType ==
  ASSUME NEW stack \in Seq(Ranges), NEW r \in Ranges
  PROVE  Push(stack, r) \in Seq(Ranges)
<1> DEFINE n == Len(stack)
           top == stack[n]
           high == Max({r[2], top[2]})
<1>1. r[2] \in Int /\ \A i \in 1 .. n : stack[i] \in Ranges /\ stack[i][1] \in Int
                                        /\ stack[i][2] \in Int /\ stack[i][1] <= stack[i][2]
  BY DEF Ranges
<1>2. CASE stack # <<>>
  <2>1. n \in Nat /\ n \in 1 .. n /\ n - 1 \in Int /\ \A i \in 1 .. n - 1 : stack[i] \in Ranges
    BY <1>2
  <2>2. top[1] \in Int /\ top[2] \in Int /\ top[1] <= top[2]
    BY <1>1, <2>1
  <2> HIDE DEF top
  <2>3. high = IF r[2] >= top[2] THEN r[2] ELSE top[2]
    BY <1>1, <2>2, MaxOfTwo, Zenon
  <2> HIDE DEF high
  <2>4. <<top[1], high>> \in Ranges
    BY <1>1, <2>2, <2>3 DEF Ranges
  <2>5. SubSeq(stack, 1, n - 1) \in Seq(Ranges)
    <3> HIDE DEF n
    <3> QED
      BY <2>1, SubSeqProperties
  <2>6. \/ Push(stack, r) = Append(SubSeq(stack, 1, n - 1), <<top[1], high>>)
        \/ Push(stack, r) = Append(stack, r)
    BY DEF Push, Front, Last, top, high
  <2> QED
    <3>1. Append(SubSeq(stack, 1, n - 1), <<top[1], high>>) \in Seq(Ranges)
      BY <2>4, <2>5, AppendProperties
    <3>2. Append(stack, r) \in Seq(Ranges)
      BY AppendProperties
    <3> QED
      BY <2>6, <3>1, <3>2, Zenon
<1>3. CASE stack = <<>>
  BY <1>3 DEF Push
<1> QED
  BY <1>2, <1>3

(* mergeIntervals: the ranges in order, no two touching, and the same      *)
(* versions.                                                               *)
LEMMA MergeFacts ==
  ASSUME NEW ranges \in Seq(Ranges)
  PROVE  LET merged == mergeIntervals(ranges)
         IN /\ merged \in Seq(Ranges) /\ Apart(merged)
            /\ Denotes(merged) = Denotes(ranges)
<1> DEFINE sorted == sortByFirst(ranges)
           n == Len(ranges)
<1>1. /\ sorted \in Seq(Ranges) /\ Len(sorted) = n /\ n \in Nat
      /\ Denotes(sorted) = Denotes(ranges)
      /\ \A i, j \in 1 .. n : i < j => sorted[i][1] <= sorted[j][1]
  BY SortFacts
<1> HIDE DEF sorted, n
<1>2. DOMAIN sorted = 1 .. n /\ \A i \in 1 .. n : sorted[i] \in Ranges
  BY <1>1
<1> DEFINE Is(f) == f = [s \in SUBSET (1 .. n) |->
                           IF s = {} THEN <<>>
                           ELSE Push(f[s \ {Max(s)}], sorted[Max(s)])]
           iter == CHOOSE f : Is(f)
<1>3. mergeIntervals(ranges) = iter[1 .. n]
  BY <1>2, Zenon DEF mergeIntervals, FoldLeft, MapThenFoldSet, sorted
<1>4. \E f : Is(f)
  <2> DEFINE F == [p \in Seq(Ranges) \X (1 .. n) |-> Push(p[1], sorted[p[2]])]
  <2>1. F \in [Seq(Ranges) \X (1 .. n) -> Seq(Ranges)]
    BY <1>2, PushType
  <2>2. <<>> \in Seq(Ranges)
    OBVIOUS
  <2>3. \A a \in Seq(Ranges), i \in 1 .. n : F[<<a, i>>] = Push(a, sorted[i])
    OBVIOUS
  <2> HIDE DEF F
  <2>4. PICK f : Folding(f, Seq(Ranges), <<>>, n, F)
    <3>1. n \in Nat
      BY <1>1
    <3> QED
      BY <2>1, <2>2, <3>1, FoldExists, Zenon
  <2>5. ASSUME NEW s \in SUBSET (1 .. n), s # {}
        PROVE  F[<<f[s \ {Max(s)}], Max(s)>>] = Push(f[s \ {Max(s)}], sorted[Max(s)])
    <3>1. Max(s) \in 1 .. n
      BY <1>1, <2>5, MaxFacts
    <3>2. f[s \ {Max(s)}] \in Seq(Ranges)
      BY <2>4 DEF Folding
    <3> QED
      BY <2>3, <3>1, <3>2
  <2>6. Is(f)
    BY <2>4, <2>5 DEF Folding
  <2> QED
    BY <2>6
<1>5. Is(iter)
  BY <1>4
<1> HIDE DEF iter
<1>6. iter[{}] = <<>>
  BY <1>5
<1>7. ASSUME NEW k \in Nat, k + 1 <= n
      PROVE  iter[1 .. k + 1] = Push(iter[1 .. k], sorted[k + 1])
  <2>1. 1 .. k + 1 \in SUBSET (1 .. n) /\ 1 .. k + 1 # {} /\ k + 1 \in Nat
    <3>1. n \in Nat
      BY <1>1
    <3>2. \A i \in 1 .. k + 1 : i \in 1 .. n
      BY <1>7, <3>1
    <3>3. k + 1 \in 1 .. k + 1
      OBVIOUS
    <3> QED
      BY <3>2, <3>3
  <2>2. Max(1 .. k + 1) = k + 1
    <3>1. Max(1 .. k + 1) \in 1 .. k + 1 /\ \A y \in 1 .. k + 1 : y <= Max(1 .. k + 1)
      BY <2>1, MaxFacts
    <3> QED
      BY <3>1
  <2>3. (1 .. k + 1) \ {k + 1} = 1 .. k
    OBVIOUS
  <2> QED
    BY <1>5, <2>1, <2>2, <2>3
<1> DEFINE Good(k) ==
             /\ iter[1 .. k] \in Seq(Ranges) /\ Apart(iter[1 .. k])
             /\ \A v : v \in Denotes(iter[1 .. k])
                         <=> \E i \in 1 .. k : v \in sorted[i][1] .. sorted[i][2]
             /\ iter[1 .. k] # <<>> =>
                  k \in 1 .. n /\ iter[1 .. k][Len(iter[1 .. k])][1] <= sorted[k][1]
           K == {k \in Nat : k <= n => Good(k)}
<1>8. 0 \in K
  <2>1. 1 .. 0 = {}
    OBVIOUS
  <2>2. iter[1 .. 0] = <<>>
    BY <1>6, <2>1
  <2>3. Apart(<<>>) /\ Denotes(<<>>) = {}
    BY DEF Apart, Denotes
  <2>4. Good(0)
    BY <2>1, <2>2, <2>3
  <2> QED
    BY <2>4
<1>9. ASSUME NEW k \in Nat, k \in K PROVE k + 1 \in K
  <2> SUFFICES ASSUME k + 1 <= n PROVE Good(k + 1)
    OBVIOUS
  <2>1. Good(k)
    BY <1>1, <1>9
  <2> DEFINE stack == iter[1 .. k]
             r == sorted[k + 1]
             pushed == iter[1 .. k + 1]
  <2>2. k + 1 \in 1 .. n /\ r \in Ranges
    BY <1>1, <1>2
  <2>3. stack # <<>> => stack[Len(stack)][1] <= r[1]
    <3> SUFFICES ASSUME stack # <<>> PROVE stack[Len(stack)][1] <= r[1]
      OBVIOUS
    <3>1. k \in 1 .. n /\ stack[Len(stack)][1] <= sorted[k][1] /\ stack \in Seq(Ranges)
      BY <2>1
    <3>2. sorted[k][1] <= r[1] /\ sorted[k][1] \in Int /\ r[1] \in Int
      BY <1>1, <1>2, <2>2, <3>1 DEF Ranges
    <3>3. stack[Len(stack)][1] \in Int
      <4>1. Len(stack) \in 1 .. Len(stack)
        BY <3>1
      <4> QED
        BY <3>1, <4>1 DEF Ranges
    <3> QED
      BY <3>1, <3>2, <3>3
  <2>4. stack \in Seq(Ranges) /\ Apart(stack)
    BY <2>1
  <2>5. pushed = Push(stack, r)
    BY <1>7
  <2> HIDE DEF r, Good, K
  <2>6. /\ pushed \in Seq(Ranges) /\ Apart(pushed)
        /\ pushed[Len(pushed)][1] <= r[1]
        /\ Denotes(pushed) = Denotes(stack) \cup (r[1] .. r[2])
    <3> HIDE DEF stack, pushed
    <3> QED
      BY <2>2, <2>3, <2>4, <2>5, PushFacts
  <2>7. \A v : v \in Denotes(pushed)
                 <=> \E i \in 1 .. k + 1 : v \in sorted[i][1] .. sorted[i][2]
    <3>1. \A i : i \in 1 .. k + 1 <=> i \in 1 .. k \/ i = k + 1
      OBVIOUS
    <3>2. \A v : v \in Denotes(stack)
                   <=> \E i \in 1 .. k : v \in sorted[i][1] .. sorted[i][2]
      BY <2>1 DEF Good
    <3>3. \A v : v \in Denotes(pushed) <=> v \in Denotes(stack) \/ v \in r[1] .. r[2]
      BY <2>6
    <3> HIDE DEF stack, pushed
    <3> QED
      BY <3>1, <3>2, <3>3, Zenon DEF r
  <2> QED
    BY <2>2, <2>6, <2>7 DEF Good, r
<1>10. Good(n)
  <2>1. \A k \in Nat : k \in K => k + 1 \in K
    BY <1>9
  <2>2. K = {k \in Nat : k <= n => Good(k)}
    OBVIOUS
  <2> HIDE DEF K, Good
  <2>3. n \in K
    BY <1>1, <1>8, <2>1, HandedOn
  <2> QED
    BY <1>1, <2>2, <2>3
<1>11. Denotes(iter[1 .. n]) = Denotes(sorted)
  <2>1. \A v : v \in Denotes(sorted) <=> \E i \in 1 .. n : v \in sorted[i][1] .. sorted[i][2]
    BY <1>2 DEF Denotes
  <2>2. \A v : v \in Denotes(iter[1 .. n])
                 <=> \E i \in 1 .. n : v \in sorted[i][1] .. sorted[i][2]
    BY <1>10
  <2> QED
    BY <2>1, <2>2
<1> QED
  BY <1>1, <1>3, <1>10, <1>11

(* addRange keeps ranges apart, and adds one.                              *)
LEMMA AddFacts ==
  ASSUME NEW ranges \in Seq(Ranges), NEW r \in Ranges
  PROVE  LET added == addRange(ranges, r[1], r[2])
         IN /\ added \in Seq(Ranges) /\ Apart(added)
            /\ Denotes(added) = Denotes(ranges) \cup (r[1] .. r[2])
<1> DEFINE n == Len(ranges)
           more == Append(ranges, <<r[1], r[2]>>)
<1>1. <<r[1], r[2]>> = r
  BY DEF Ranges
<1>2. /\ more \in Seq(Ranges) /\ Len(more) = n + 1 /\ more[n + 1] = r /\ n \in Nat
      /\ \A i \in 1 .. n : more[i] = ranges[i]
  BY <1>1, AppendProperties
<1> HIDE DEF more
<1>3. /\ mergeIntervals(more) \in Seq(Ranges) /\ Apart(mergeIntervals(more))
      /\ Denotes(mergeIntervals(more)) = Denotes(more)
  BY <1>2, MergeFacts
<1>4. \A v : v \in Denotes(more) <=> \E i \in 1 .. n + 1 : v \in more[i][1] .. more[i][2]
  BY <1>2 DEF Denotes
<1>5. \A v : v \in Denotes(ranges) <=> \E i \in 1 .. n : v \in ranges[i][1] .. ranges[i][2]
  BY <1>2 DEF Denotes
<1>6. \A i : i \in 1 .. n + 1 <=> i \in 1 .. n \/ i = n + 1
  BY <1>2
<1>7. Denotes(more) = Denotes(ranges) \cup (r[1] .. r[2])
  <2> HIDE DEF n
  <2>1. \A v : v \in Denotes(more) => v \in Denotes(ranges) \/ v \in r[1] .. r[2]
    BY <1>2, <1>4, <1>5, <1>6, Zenon
  <2>2. \A v : v \in Denotes(ranges) \/ v \in r[1] .. r[2] => v \in Denotes(more)
    BY <1>2, <1>4, <1>5, <1>6, Zenon
  <2> QED
    BY <2>1, <2>2
<1> QED
  BY <1>3, <1>7 DEF addRange, more

(* parseAndAddRanges adds them all.                                        *)
LEMMA ParseFacts ==
  ASSUME NEW ranges \in Seq(Ranges), Apart(ranges), NEW added \in Seq(Ranges)
  PROVE  LET all == parseAndAddRanges(ranges, added)
         IN /\ all \in Seq(Ranges) /\ Apart(all)
            /\ Denotes(all) = Denotes(ranges) \cup Denotes(added)
<1> DEFINE n == Len(added)
<1>1. n \in Nat /\ DOMAIN added = 1 .. n /\ \A i \in 1 .. n : added[i] \in Ranges
  OBVIOUS
<1> HIDE DEF n
<1> DEFINE Add(rs, i) == addRange(rs, added[i][1], added[i][2])
           Is(f) == f = [s \in SUBSET (1 .. n) |->
                           IF s = {} THEN ranges
                           ELSE Add(f[s \ {Max(s)}], Max(s))]
           iter == CHOOSE f : Is(f)
<1>2. \A rs \in Seq(Ranges), i \in 1 .. n :
        /\ Add(rs, i) \in Seq(Ranges) /\ Apart(Add(rs, i))
        /\ Denotes(Add(rs, i)) = Denotes(rs) \cup (added[i][1] .. added[i][2])
  BY <1>1, AddFacts
<1>3. parseAndAddRanges(ranges, added) = iter[1 .. n]
  BY <1>1, Zenon DEF parseAndAddRanges, FoldLeft, MapThenFoldSet
<1> HIDE DEF Add
<1>4. \E f : Is(f)
  <2> DEFINE F == [p \in Seq(Ranges) \X (1 .. n) |-> Add(p[1], p[2])]
  <2>1. F \in [Seq(Ranges) \X (1 .. n) -> Seq(Ranges)]
    BY <1>2
  <2>2. \A a \in Seq(Ranges), i \in 1 .. n : F[<<a, i>>] = Add(a, i)
    OBVIOUS
  <2> HIDE DEF F
  <2>3. PICK f : Folding(f, Seq(Ranges), ranges, n, F)
    <3>1. n \in Nat
      BY <1>1
    <3> QED
      BY <2>1, <3>1, FoldExists, Zenon
  <2>4. ASSUME NEW s \in SUBSET (1 .. n), s # {}
        PROVE  F[<<f[s \ {Max(s)}], Max(s)>>] = Add(f[s \ {Max(s)}], Max(s))
    <3>1. Max(s) \in 1 .. n
      BY <1>1, <2>4, MaxFacts
    <3>2. f[s \ {Max(s)}] \in Seq(Ranges)
      BY <2>3 DEF Folding
    <3> QED
      BY <2>2, <3>1, <3>2
  <2>5. Is(f)
    BY <2>3, <2>4 DEF Folding
  <2> QED
    BY <2>5
<1>5. Is(iter)
  BY <1>4
<1> HIDE DEF iter
<1>6. iter[{}] = ranges
  BY <1>5
<1>7. ASSUME NEW k \in Nat, k + 1 <= n
      PROVE  iter[1 .. k + 1] = Add(iter[1 .. k], k + 1)
  <2>1. 1 .. k + 1 \in SUBSET (1 .. n) /\ 1 .. k + 1 # {} /\ k + 1 \in Nat
    <3>1. n \in Nat
      BY <1>1
    <3>2. \A i \in 1 .. k + 1 : i \in 1 .. n
      BY <1>7, <3>1
    <3>3. k + 1 \in 1 .. k + 1
      OBVIOUS
    <3> QED
      BY <3>2, <3>3
  <2>2. Max(1 .. k + 1) = k + 1
    <3>1. Max(1 .. k + 1) \in 1 .. k + 1 /\ \A y \in 1 .. k + 1 : y <= Max(1 .. k + 1)
      BY <2>1, MaxFacts
    <3> QED
      BY <3>1
  <2>3. (1 .. k + 1) \ {k + 1} = 1 .. k
    OBVIOUS
  <2> QED
    BY <1>5, <2>1, <2>2, <2>3
<1> DEFINE Good(k) ==
             /\ iter[1 .. k] \in Seq(Ranges) /\ Apart(iter[1 .. k])
             /\ \A v : v \in Denotes(iter[1 .. k])
                         <=> \/ v \in Denotes(ranges)
                             \/ \E i \in 1 .. k : v \in added[i][1] .. added[i][2]
           K == {k \in Nat : k <= n => Good(k)}
<1>8. 0 \in K
  <2>1. 1 .. 0 = {}
    OBVIOUS
  <2>2. iter[1 .. 0] = ranges
    BY <1>6, <2>1
  <2>3. Good(0)
    BY <2>1, <2>2
  <2> QED
    BY <2>3
<1>9. ASSUME NEW k \in Nat, k \in K PROVE k + 1 \in K
  <2> SUFFICES ASSUME k + 1 <= n PROVE Good(k + 1)
    OBVIOUS
  <2>1. Good(k)
    BY <1>1, <1>9
  <2> DEFINE before == iter[1 .. k]
             after == iter[1 .. k + 1]
  <2>2. k + 1 \in 1 .. n
    BY <1>1
  <2>3. after = Add(before, k + 1)
    BY <1>7
  <2>4. before \in Seq(Ranges)
    BY <2>1
  <2> HIDE DEF Good, K
  <2>5. /\ after \in Seq(Ranges) /\ Apart(after)
        /\ Denotes(after) = Denotes(before) \cup (added[k + 1][1] .. added[k + 1][2])
    <3> HIDE DEF before, after
    <3> QED
      BY <1>2, <2>2, <2>3, <2>4
  <2>6. \A v : v \in Denotes(after)
                 <=> \/ v \in Denotes(ranges)
                     \/ \E i \in 1 .. k + 1 : v \in added[i][1] .. added[i][2]
    <3>1. \A i : i \in 1 .. k + 1 <=> i \in 1 .. k \/ i = k + 1
      OBVIOUS
    <3>2. \A v : v \in Denotes(before)
                   <=> \/ v \in Denotes(ranges)
                       \/ \E i \in 1 .. k : v \in added[i][1] .. added[i][2]
      BY <2>1 DEF Good
    <3>3. \A v : v \in Denotes(after)
                   <=> v \in Denotes(before) \/ v \in added[k + 1][1] .. added[k + 1][2]
      BY <2>5
    <3> HIDE DEF before, after
    <3> QED
      BY <3>1, <3>2, <3>3, Zenon
  <2> QED
    BY <2>5, <2>6 DEF Good
<1>10. Good(n)
  <2>1. \A k \in Nat : k \in K => k + 1 \in K
    BY <1>9
  <2>2. K = {k \in Nat : k <= n => Good(k)}
    OBVIOUS
  <2> HIDE DEF K, Good
  <2>3. n \in K
    BY <1>1, <1>8, <2>1, HandedOn
  <2> QED
    BY <1>1, <2>2, <2>3
<1>11. Denotes(iter[1 .. n]) = Denotes(ranges) \cup Denotes(added)
  <2>1. \A v : v \in Denotes(added) <=> \E i \in 1 .. n : v \in added[i][1] .. added[i][2]
    BY <1>1 DEF Denotes
  <2> QED
    BY <1>10, <2>1
<1> QED
  BY <1>3, <1>10, <1>11

(* containsRange asks whether every version of a range is denoted.         *)
LEMMA ContainsFacts ==
  ASSUME NEW ranges \in Seq(Ranges), Apart(ranges),
         NEW first \in Int, NEW last \in Int, first <= last
  PROVE  containsRange(ranges, first, last) <=> first .. last \subseteq Denotes(ranges)
<1> DEFINE n == Len(ranges)
<1>1. /\ n \in Nat /\ DOMAIN ranges = 1 .. n
      /\ \A i \in 1 .. n : ranges[i][1] \in Int /\ ranges[i][2] \in Int
                           /\ ranges[i][1] <= ranges[i][2]
  BY DEF Ranges
<1>2. \A v : v \in Denotes(ranges) <=> \E i \in 1 .. n : v \in ranges[i][1] .. ranges[i][2]
  BY <1>1 DEF Denotes
<1>3. ASSUME containsRange(ranges, first, last) PROVE first .. last \subseteq Denotes(ranges)
  BY <1>1, <1>2, <1>3 DEF containsRange
<1>4. ASSUME first .. last \subseteq Denotes(ranges) PROVE containsRange(ranges, first, last)
  <2>1. PICK i \in 1 .. n : first \in ranges[i][1] .. ranges[i][2]
    BY <1>2, <1>4
  <2>2. SUFFICES ASSUME ranges[i][2] < last PROVE FALSE
    BY <1>1, <2>1 DEF containsRange
  <2>3. ranges[i][2] + 1 \in first .. last
    BY <1>1, <2>1, <2>2
  <2>4. PICK j \in 1 .. n : ranges[i][2] + 1 \in ranges[j][1] .. ranges[j][2]
    BY <1>2, <1>4, <2>3
  <2>5. /\ i < j => ranges[i][2] + 1 < ranges[j][1]
        /\ j < i => ranges[j][2] + 1 < ranges[i][1]
    BY <1>1 DEF Apart
  <2>6. i < j \/ j < i \/ i = j
    BY <1>1
  <2>7. /\ ranges[i][1] \in Int /\ ranges[i][2] \in Int /\ ranges[i][1] <= ranges[i][2]
        /\ ranges[j][1] \in Int /\ ranges[j][2] \in Int
    BY <1>1
  <2> QED
    BY <2>4, <2>5, <2>6, <2>7
<1> QED
  BY <1>3, <1>4

(* RangesOf lists the ranges of a set.                                     *)
LEMMA RangesOfFacts ==
  ASSUME NEW m \in Nat, NEW S \in SUBSET (1 .. m)
  PROVE  RangesOf(S) \in Seq(Ranges) /\ Denotes(RangesOf(S)) = S
<1> DEFINE starts == {v \in S : v - 1 \notin S}
           before == {p \in starts \X starts : p[1] < p[2]}
           ordered == InOrder(starts, before)
           ends(v) == {w \in S : w >= v /\ w + 1 \notin S}
           last(v) == Min(ends(v))
           n == Cardinality(starts)
           ranges == RangesOf(S)
<1>0. \A x \in S : x \in Nat /\ x \in Int /\ x >= 1
  OBVIOUS
<1>1. ranges = [i \in 1 .. n |-> <<ordered[i], last(ordered[i])>>]
  BY DEF RangesOf
<1>2. IsFiniteSet(starts)
  <2>1. IsFiniteSet(1 .. m)
    BY FS_Interval
  <2>2. starts \in SUBSET (1 .. m)
    OBVIOUS
  <2> QED
    BY <2>1, <2>2, FS_Subset
<1>3. starts \in SUBSET Nat
  BY <1>0
<1>4. Ordered(starts, before)
  <2>1. \A x, y \in starts : <<x, y>> \in before <=> x < y
    OBVIOUS
  <2>2. \A x \in starts : x \in Int
    BY <1>0
  <2> HIDE DEF starts, before
  <2>3. \A x \in starts : <<x, x>> \notin before
    BY <2>1, <2>2
  <2>4. \A x, y \in starts : x # y => <<x, y>> \in before \/ <<y, x>> \in before
    BY <2>1, <2>2
  <2>5. \A x, y, z \in starts : <<x, y>> \in before /\ <<y, z>> \in before => <<x, z>> \in before
    BY <2>1, <2>2
  <2> QED
    BY <2>3, <2>4, <2>5, Zenon DEF Ordered
<1> HIDE DEF before
<1>5. /\ n \in Nat /\ ordered \in [1 .. n -> starts]
      /\ \A x \in starts : \E k \in 1 .. n : ordered[k] = x
  <2> HIDE DEF starts
  <2> QED
    BY <1>2, <1>4, InOrderFacts
<1> HIDE DEF ordered, n
<1>6. ASSUME NEW v \in S
      PROVE  /\ last(v) \in S /\ last(v) >= v /\ last(v) + 1 \notin S
             /\ v .. last(v) \subseteq S
  <2>1. ends(v) \in SUBSET Nat
    BY <1>0
  <2>2. ends(v) # {}
    <3>1. S # {}
      OBVIOUS
    <3>2. Max(S) \in S /\ \A y \in S : y <= Max(S)
      BY <3>1, MaxFacts
    <3>3. Max(S) + 1 \notin S
      <4>1. Max(S) \in Nat
        BY <1>0, <3>2
      <4>2. ~(Max(S) + 1 <= Max(S))
        BY <4>1
      <4> QED
        BY <3>2, <4>2
    <3>4. Max(S) >= v
      BY <1>0, <3>2
    <3> QED
      BY <3>2, <3>3, <3>4
  <2>3. last(v) \in ends(v) /\ \A y \in ends(v) : last(v) <= y
    BY <2>1, <2>2, MinFacts
  <2>4. SUFFICES ASSUME NEW u \in v .. last(v), u \notin S PROVE FALSE
    BY <2>3
  <2> DEFINE gap == {x \in v .. last(v) : x \notin S}
  <2>0. v \in Nat /\ last(v) \in Nat
    BY <1>0, <2>3
  <2> HIDE DEF last, ends
  <2>5. gap \in SUBSET Nat /\ gap # {}
    BY <2>0, <2>4
  <2>6. PICK x \in gap : \A y \in gap : x <= y
    BY <2>5, LeastNumber
  <2>7. x \in Nat /\ v \in Nat /\ last(v) \in Nat /\ v <= x /\ x <= last(v) /\ x \notin S
    BY <2>0, <2>5, <2>6
  <2>8. v < x
    BY <2>7
  <2>9. x - 1 \in v .. last(v) /\ x - 1 \notin gap /\ x - 1 + 1 = x
    BY <2>6, <2>7, <2>8
  <2>10. x - 1 \in ends(v)
    BY <2>7, <2>9 DEF ends
  <2> QED
    BY <2>3, <2>7, <2>10
<1>7. ranges \in Seq(Ranges) /\ Len(ranges) = n
  <2>1. ASSUME NEW i \in 1 .. n PROVE <<ordered[i], last(ordered[i])>> \in Ranges
    <3>1. ordered[i] \in S
      BY <1>5
    <3>2. last(ordered[i]) \in S /\ last(ordered[i]) >= ordered[i]
      BY <1>6, <3>1
    <3> HIDE DEF last
    <3>3. ordered[i] \in Int /\ last(ordered[i]) \in Int
      BY <1>0, <3>1, <3>2
    <3> QED
      BY <3>2, <3>3 DEF Ranges
  <2> HIDE DEF last
  <2>2. ranges \in [1 .. n -> Ranges]
    BY <1>1, <2>1
  <2> QED
    BY <1>5, <2>2
<1> HIDE DEF ranges, last, starts
<1>8. \A v : v \in Denotes(ranges)
               <=> \E i \in 1 .. n : v \in ordered[i] .. last(ordered[i])
  BY <1>1, <1>7 DEF Denotes
<1>9. ASSUME NEW v \in Denotes(ranges) PROVE v \in S
  BY <1>5, <1>6, <1>8 DEF starts
<1>10. ASSUME NEW x \in S PROVE x \in Denotes(ranges)
  <2> DEFINE below == {v \in starts : v <= x}
  <2>1. below # {}
    <3> DEFINE run == {v \in 1 .. x : v .. x \subseteq S}
    <3>1. run \in SUBSET Nat /\ x \in run
      OBVIOUS
    <3>2. PICK v \in run : \A y \in run : v <= y
      BY <3>1, LeastNumber
    <3>3. v \in S /\ v \in Nat /\ v >= 1 /\ v <= x /\ v .. x \subseteq S
      BY <3>2
    <3>4. v - 1 \notin S
      <4>1. SUFFICES ASSUME v - 1 \in S PROVE FALSE
        OBVIOUS
      <4>2. v - 1 \in 1 .. x /\ v - 1 .. x = {v - 1} \cup (v .. x)
        BY <3>3, <4>1
      <4>3. v - 1 \in run
        BY <3>3, <4>1, <4>2
      <4> QED
        BY <3>2, <3>3, <4>3
    <3> QED
      BY <3>3, <3>4 DEF starts
  <2>2. below \in SUBSET (1 .. m)
    BY DEF starts
  <2>3. Max(below) \in below /\ \A y \in below : y <= Max(below)
    BY <2>1, <2>2, MaxFacts
  <2> DEFINE v == Max(below)
  <2>4. v \in S /\ v <= x /\ v \in Nat /\ v \in starts
    <3>1. v \in below
      BY <2>3
    <3> HIDE DEF v
    <3> QED
      BY <1>0, <3>1 DEF starts
  <2>5. last(v) \in S /\ last(v) >= v /\ last(v) + 1 \notin S
    BY <1>6, <2>4
  <2>6. x <= last(v)
    <3>1. SUFFICES ASSUME last(v) < x PROVE FALSE
      <4>1. last(v) \in Int /\ x \in Int
        BY <1>0, <2>5
      <4> QED
        BY <4>1
    <3> DEFINE over == {y \in S : last(v) < y /\ y <= x}
    <3> HIDE DEF v
    <3>2. over \in SUBSET Nat /\ x \in over
      <4>1. x \in S /\ last(v) < x /\ x <= x
        BY <1>0, <3>1
      <4>2. over \in SUBSET S
        OBVIOUS
      <4>3. x \in over
        BY <4>1
      <4> HIDE DEF over
      <4> QED
        BY <1>0, <4>2, <4>3
    <3>3. PICK y \in over : \A z \in over : y <= z
      BY <3>2, LeastNumber
    <3>4. y \in Nat /\ last(v) \in Nat /\ y - 1 \notin over /\ y <= x /\ last(v) < y
      <4>1. y \in Nat /\ last(v) \in Nat /\ y <= x /\ last(v) < y
        BY <1>0, <2>5, <3>3
      <4>2. ~(y <= y - 1)
        BY <4>1
      <4> HIDE DEF over
      <4> QED
        BY <3>3, <4>1, <4>2
    <3>5. y - 1 \notin S
      <4>1. y = last(v) + 1 \/ last(v) < y - 1
        BY <3>4
      <4>2. y # last(v) + 1
        BY <2>5, <3>3
      <4> QED
        BY <3>3, <3>4, <4>1, <4>2
    <3>6. y \in below /\ v < y
      BY <2>4, <2>5, <3>3, <3>4, <3>5 DEF starts
    <3> QED
      BY <2>3, <2>4, <3>4, <3>6 DEF v
  <2>7. x \in v .. last(v)
    BY <2>4, <2>5, <2>6
  <2> HIDE DEF v
  <2> QED
    BY <1>5, <1>8, <2>4, <2>7
<1> QED
  BY <1>7, <1>9, <1>10 DEF ranges

(* ------------------------------ The view ------------------------------- *)

(* Of the types, those the argument needs.                                 *)
ViewType ==
  /\ LinkType
  /\ ledgerVersion \in 0 .. MaxVersion
  /\ reaction \in Message \cup {NoMsg}
  /\ waiting \in SUBSET (0 .. MaxVersion)
  /\ answers \in SUBSET (0 .. MaxVersion)
  /\ overtaken \in 0 .. MaxVersion
  /\ asked \in Asked
  /\ validated \in 0 .. MaxVersion
  /\ history \in SUBSET Versions
  /\ subscribed \in BOOLEAN
  /\ wire \in Seq(Message)

(* Nothing tells of a ledger that is not validated.                        *)
NothingAhead ==
  /\ asked.index = "number" => asked.ledger <= validated
  /\ \A v \in waiting \cup answers : v <= validated
  /\ ledgerVersion <= validated /\ overtaken <= validated
  /\ reaction.version <= validated
  /\ \A i \in 1 .. Len(wire) : wire[i].version <= validated

(* A server tells its ledgers to the socket that is open or closing, and   *)
(* everything that is under way, or used, came from it.                    *)
FromThisSocket ==
  /\ subscribed => phase \in {"open", "closing"}
  /\ ready \/ reaction # NoMsg \/ wire # <<>> => subscribed

(* The answer comes once, before every other message of its socket, and    *)
(* its reaction makes the connection ready.                                *)
AnswerComesFirst ==
  /\ reaction # NoMsg => ~ready
  /\ \A i \in 1 .. Len(wire) :
       wire[i].type = "answer" => i = 1 /\ ~ready /\ reaction = NoMsg

(* Where the latest version is on its way to the application: in the last  *)
(* message, in the answer that waits for its reaction, in use, or it was   *)
(* used ahead of a reaction.                                               *)
Latest ==
  IF wire # <<>> THEN {wire[Len(wire)].version}
  ELSE IF reaction # NoMsg THEN {reaction.version, overtaken}
  ELSE {ledgerVersion, overtaken}

(* Nothing the server validates is lost on the way.                        *)
NothingLost == ready \/ reaction # NoMsg \/ wire # <<>> => validated \in Latest

SafeInv == ViewType /\ NothingAhead
ViewInv == SafeInv /\ FromThisSocket /\ AnswerComesFirst /\ NothingLost

(* A message of the server is a message with the server's version.         *)
LEMMA TellsFacts ==
  ASSUME NEW type \in {"answer", "ledgerClosed"}, NEW v \in 0 .. MaxVersion,
         NEW H \in SUBSET Versions, NEW listed \in BOOLEAN
  PROVE  /\ Tells(type, v, H, listed) \in Message
         /\ Tells(type, v, H, listed).version = v
         /\ Tells(type, v, H, listed).type = type
BY LedgerAssumption DEF Tells, Message, Versions

(* The fields of the messages.                                             *)
LEMMA MessageFacts ==
  ASSUME NEW m \in Message
  PROVE  /\ m # NoMsg /\ m.version \in 0 .. MaxVersion
         /\ m.type \in {"answer", "ledgerClosed"} /\ m.listed \in BOOLEAN
BY LedgerAssumption DEF Message, NoMsg

(* ----------------------- No request ahead of time ---------------------- *)

(* SafeInv holds initially.                                                *)
LEMMA SafeInit == Init => SafeInv
<1> SUFFICES ASSUME Init PROVE SafeInv
  OBVIOUS
<1>1. validated \in 0 .. MaxVersion /\ history \in SUBSET Versions
  BY LedgerAssumption DEF Init, Versions
<1>2. /\ LinkType /\ asked = NotAsked /\ ledgerVersion = 0 /\ reaction = NoMsg
      /\ overtaken = 0
      /\ subscribed \in BOOLEAN /\ wire = <<>> /\ waiting = {} /\ answers = {}
  BY DEF Init, LinkInit, LinkType
<1>3. wire \in Seq(Message) /\ \A i \in 1 .. Len(wire) : wire[i].version <= validated
  BY <1>2
<1>4. ViewType
  <2>1. asked \in Asked /\ ledgerVersion \in 0 .. MaxVersion
        /\ overtaken \in 0 .. MaxVersion
    BY <1>2, LedgerAssumption DEF Asked, NotAsked
  <2>2. QED
    BY <1>1, <1>2, <1>3, <2>1, Zenon DEF ViewType
<1>5. reaction.version = 0
  BY <1>2 DEF NoMsg
<1>6. NothingAhead
  BY <1>1, <1>2, <1>3, <1>5, LedgerAssumption DEF NothingAhead, NotAsked
<1>7. QED
  BY <1>4, <1>6 DEF SafeInv

(* Every step keeps SafeInv.                                               *)
LEMMA SafeStep == SafeInv /\ [Next]_vars => SafeInv'
<1> SUFFICES ASSUME SafeInv, [Next]_vars PROVE SafeInv'
  OBVIOUS
<1>a. history \in SUBSET Versions /\ validated \in 0 .. MaxVersion
  BY DEF SafeInv, ViewType
<1>b. \A v \in Versions : v \in 0 .. MaxVersion /\ history \cup {v} \in SUBSET Versions
  BY <1>a, LedgerAssumption DEF Versions
<1>c. \A listed \in BOOLEAN :
        /\ Tells("answer", validated, history, listed) \in Message
        /\ Tells("answer", validated, history, listed).version = validated
  BY <1>a, TellsFacts
<1> USE LedgerAssumption DEF SafeInv, ViewType, NothingAhead
<1>1. ASSUME NEW v \in Versions, LedgerCloses(v) PROVE SafeInv'
  <2>1. history' \in SUBSET Versions /\ validated' = v /\ v \in 0 .. MaxVersion
        /\ v > validated
    <3>1. history' = history \cup {v} /\ validated' = v /\ v > validated
      BY <1>1 DEF LedgerCloses
    <3>2. QED
      BY <1>b, <3>1, Zenon
  <2>2. /\ LinkType' /\ (ledgerVersion \in 0 .. MaxVersion)'
        /\ (reaction \in Message \cup {NoMsg})'
        /\ (asked \in Asked)' /\ (subscribed \in BOOLEAN)'
        /\ (overtaken \in 0 .. MaxVersion)' /\ overtaken' = overtaken
        /\ (waiting \in SUBSET (0 .. MaxVersion))'
        /\ (answers \in SUBSET (0 .. MaxVersion))'
        /\ asked' = asked /\ ledgerVersion' = ledgerVersion
        /\ waiting' = waiting /\ answers' = answers
        /\ reaction' = reaction
    BY <1>1 DEF LedgerCloses, link, viewVars, appVars, LinkType
  <2>3. \/ wire' = wire
        \/ \E m \in Message : m.version = v /\ wire' = Append(wire, m)
    BY <1>1, <2>1, TellsFacts DEF LedgerCloses
  <2>4. wire' \in Seq(Message)
        /\ \A i \in 1 .. Len(wire') : wire'[i].version <= validated'
    <3>1. CASE wire' = wire
      BY <3>1, <2>1, MessageFacts
    <3>2. ASSUME NEW m \in Message, m.version = v, wire' = Append(wire, m)
          PROVE  /\ wire' \in Seq(Message)
                 /\ \A i \in 1 .. Len(wire') : wire'[i].version <= validated'
      <4>1. wire' \in Seq(Message) /\ Len(wire') = Len(wire) + 1
            /\ wire'[Len(wire) + 1] = m
            /\ \A i \in 1 .. Len(wire) : wire'[i] = wire[i]
        BY <3>2, AppendProperties
      <4>2. ASSUME NEW i \in 1 .. Len(wire') PROVE wire'[i].version <= validated'
        <5>1. CASE i = Len(wire) + 1
          BY <5>1, <4>1, <3>2, <2>1
        <5>2. CASE i \in 1 .. Len(wire)
          <6>1. wire'[i] = wire[i] /\ wire[i].version <= validated
                /\ wire[i] \in Message
            BY <5>2, <4>1
          <6>2. QED
            BY <6>1, <2>1, MessageFacts
        <5>3. QED
          BY <5>1, <5>2, <4>1
      <4>3. QED
        BY <4>1, <4>2
    <3>3. QED
      BY <2>3, <3>1, <3>2
  <2>5. reaction'.version <= validated'
    BY <2>1, <2>2, MessageFacts DEF NoMsg
  <2>6. asked.index = "number" => asked.ledger <= validated'
    BY <2>1 DEF Asked
  <2>7. ViewType'
    BY <2>1, <2>2, <2>4 DEF LinkType
  <2>8. \A u \in waiting \cup answers \cup {ledgerVersion, overtaken} : u <= validated'
    BY <2>1
  <2>9. NothingAhead'
    BY <2>2, <2>4, <2>5, <2>6, <2>8
  <2> QED
    BY <2>7, <2>9
<1>2. ASSUME DeletesOldest PROVE SafeInv'
  BY <1>2 DEF DeletesOldest, link, viewVars, appVars, LinkType
<1>3. ASSUME AnswersSubscribe PROVE SafeInv'
  <2>1. PICK m \in Message : m.version = validated /\ wire' = Append(wire, m)
    <3>1. PICK listed \in BOOLEAN :
            wire' = Append(wire, Tells("answer", validated, history, listed))
      BY <1>3 DEF AnswersSubscribe
    <3>2. /\ Tells("answer", validated, history, listed) \in Message
          /\ Tells("answer", validated, history, listed).version = validated
      BY <1>c, Zenon
    <3>3. QED
      BY <3>1, <3>2
  <2>2. wire' \in Seq(Message) /\ Len(wire') = Len(wire) + 1
        /\ wire'[Len(wire) + 1] = m
        /\ \A i \in 1 .. Len(wire) : wire'[i] = wire[i]
    BY <2>1, AppendProperties
  <2>3. \A i \in 1 .. Len(wire') : wire'[i].version <= validated
    BY <2>1, <2>2
  <2>4. QED
    BY <1>3, <2>2, <2>3
       DEF AnswersSubscribe, link, viewVars, appVars, serverVars, LinkType
<1>4. ASSUME Receive PROVE SafeInv'
  <2>1. /\ wire' \in Seq(Message)
        /\ Head(wire) \in Message /\ Head(wire).version <= validated
        /\ \A i \in 1 .. Len(wire') : wire'[i].version <= validated
    BY <1>4, HeadTailProperties DEF Receive
  <2>2. Head(wire).version \in 0 .. MaxVersion
    BY <2>1, MessageFacts
  <2>3. /\ ledgerVersion' \in {ledgerVersion, Head(wire).version}
        /\ reaction' \in {reaction, Head(wire)}
        /\ overtaken' \in {overtaken, Head(wire).version}
    BY <1>4 DEF Receive, UpdateLedgerVersions, viewVars
  <2>4. /\ waiting' = waiting /\ answers' = answers /\ asked' = asked
        /\ validated' = validated /\ history' = history
        /\ subscribed' = subscribed /\ LinkType'
    BY <1>4 DEF Receive, link, appVars, serverVars, LinkType
  <2>5. /\ (reaction \in Message \cup {NoMsg})' /\ reaction'.version <= validated
        /\ ledgerVersion' \in 0 .. MaxVersion /\ ledgerVersion' <= validated
        /\ overtaken' \in 0 .. MaxVersion /\ overtaken' <= validated
    BY <2>1, <2>2, <2>3
  <2>6. QED
    BY <2>1, <2>4, <2>5
<1>5. ASSUME Connected PROVE SafeInv'
  <2>1. reaction.version \in 0 .. MaxVersion
    BY MessageFacts DEF NoMsg
  <2>2. ledgerVersion' = reaction.version /\ reaction' = NoMsg /\ LinkType'
    BY <1>5 DEF Connected, UpdateLedgerVersions, BecomeReady, LinkType
  <2>3. /\ waiting' = {} /\ answers' = answers \cup waiting /\ asked' = asked
        /\ overtaken' = overtaken
        /\ validated' = validated /\ history' = history
        /\ subscribed' = subscribed /\ wire' = wire
    BY <1>5 DEF Connected, serverVars
  <2>4. NoMsg.version = 0
    BY DEF NoMsg
  <2>5. /\ ledgerVersion' \in 0 .. MaxVersion /\ ledgerVersion' <= validated'
        /\ (reaction \in Message \cup {NoMsg})' /\ reaction'.version <= validated'
    BY <2>1, <2>2, <2>3, <2>4
  <2>6. QED
    BY <2>2, <2>3, <2>5
<1>6. ASSUME NotInitialized PROVE SafeInv'
  BY <1>6 DEF NotInitialized, BeginClose, link, viewVars, appVars, serverVars,
              LinkType, NoMsg
<1>7. ASSUME SocketStarts PROVE SafeInv'
  BY <1>7 DEF SocketStarts, Create, Open, BeginClose, viewVars, appVars,
              serverVars, LinkType
<1>8. ASSUME SocketEnds PROVE SafeInv'
  <2>1. LinkType'
    BY <1>8 DEF SocketEnds, Recreate, Gone, Fail, LinkType
  <2>2. /\ wire' = <<>> /\ subscribed' = FALSE
        /\ UNCHANGED <<viewVars, reaction, overtaken, appVars, serverVars>>
    BY <1>8 DEF SocketEnds
  <2>3. wire' \in Seq(Message) /\ \A i \in 1 .. Len(wire') : wire'[i].version <= validated'
    BY <2>2
  <2>4. QED
    BY <2>1, <2>2, <2>3 DEF viewVars, appVars, serverVars
<1>9. ASSUME GetLedgerVersion PROVE SafeInv'
  BY <1>9 DEF GetLedgerVersion, link, viewVars, serverVars, LinkType
<1>10. ASSUME NEW v \in Versions, NEW index \in {"unnamed", "validated", "number"},
              Request(index, v)
       PROVE  SafeInv'
  <2> DEFINE read == LedgerRead(index, v)
  <2>1. asked' = [index |-> index, ledger |-> read] /\ (index = "number" => v <= ledgerVersion)
    BY <1>10 DEF Request, Permitted
  <2>2. read \in 0 .. MaxVersion + 1 /\ (index = "number" => read = v)
    BY DEF LedgerRead, Versions
  <2> HIDE DEF read
  <2>3. asked' \in Asked /\ (asked'.index = "number" => asked'.ledger <= validated)
    BY <2>1, <2>2 DEF Asked, Versions
  <2>4. QED
    BY <1>10, <2>3 DEF Request, link, viewVars, serverVars, LinkType
<1>11. CASE UNCHANGED vars
  BY <1>11 DEF vars, link, viewVars, appVars, serverVars, LinkType
<1>12. QED
  BY <1>1, <1>2, <1>3, <1>4, <1>5, <1>6, <1>7, <1>8, <1>9, <1>10, <1>11 DEF Next

(* ------------------------- No version is missed ------------------------ *)

(* ViewInv holds initially.                                                *)
LEMMA ViewInit == Init => ViewInv
<1> SUFFICES ASSUME Init PROVE ViewInv
  OBVIOUS
<1>1. ready = FALSE /\ reaction = NoMsg /\ wire = <<>> /\ subscribed = FALSE
  BY DEF Init, LinkInit
<1>2. FromThisSocket /\ AnswerComesFirst /\ NothingLost
  BY <1>1 DEF FromThisSocket, AnswerComesFirst, NothingLost
<1>3. QED
  BY <1>2, SafeInit DEF ViewInv

(* The three parts of ViewInv that SafeStep does not give.                 *)
Flow == FromThisSocket /\ AnswerComesFirst /\ NothingLost

(* A message that is sent is the latest.                                   *)
LEMMA SendStep ==
  ASSUME ViewInv, NEW m \in Message, wire' = Append(wire, m),
         UNCHANGED <<link, viewVars, reaction, overtaken>>, subscribed' = TRUE,
         m.version = validated', phase \in {"open", "closing"},
         m.type = "answer" => wire = <<>> /\ ~ready /\ reaction = NoMsg
  PROVE  Flow'
<1> USE DEF ViewInv, SafeInv, ViewType
<1>1. /\ wire' \in Seq(Message) /\ Len(wire') = Len(wire) + 1 /\ wire' # <<>>
      /\ wire'[Len(wire) + 1] = m /\ Len(wire) \in Nat
      /\ \A i \in 1 .. Len(wire) : wire'[i] = wire[i]
  BY AppendProperties
<1>2. phase' = phase /\ ready' = ready /\ reaction' = reaction
  BY DEF link
<1>3. FromThisSocket'
  BY <1>2 DEF FromThisSocket
<1>4. AnswerComesFirst'
  <2>1. ASSUME NEW i \in 1 .. Len(wire'), wire'[i].type = "answer"
        PROVE  i = 1 /\ ~ready' /\ reaction' = NoMsg
    <3>1. CASE i = Len(wire) + 1
      BY <3>1, <2>1, <1>1, <1>2
    <3>2. CASE i \in 1 .. Len(wire)
      BY <3>2, <2>1, <1>1, <1>2 DEF AnswerComesFirst
    <3>3. QED
      BY <3>1, <3>2, <1>1
  <2>2. reaction' # NoMsg => ~ready'
    BY <1>2 DEF AnswerComesFirst
  <2>3. QED
    BY <2>1, <2>2 DEF AnswerComesFirst
<1>5. NothingLost'
  BY <1>1 DEF NothingLost, Latest
<1>6. QED
  BY <1>3, <1>4, <1>5 DEF Flow

(* Receiving a message keeps ViewInv.                                      *)
LEMMA ReceiveStep ==
  ASSUME ViewInv, Receive
  PROVE  Flow'
<1> USE DEF ViewInv, SafeInv, ViewType
<1> DEFINE m == Head(wire)
<1>1. /\ wire # <<>> /\ wire' = Tail(wire)
      /\ phase' = phase /\ ready' = ready /\ validated' = validated
      /\ subscribed' = subscribed
  BY DEF Receive, link, serverVars
<1>2. /\ wire' \in Seq(Message) /\ m = wire[1] /\ m \in Message
      /\ Len(wire) \in Nat /\ Len(wire) >= 1 /\ Len(wire') = Len(wire) - 1
      /\ \A i \in 1 .. Len(wire') : wire'[i] = wire[i + 1]
      /\ wire' = <<>> <=> Len(wire) = 1
  <2>1. /\ wire' \in Seq(Message) /\ Len(wire) \in Nat /\ Len(wire) >= 1
        /\ Len(wire') = Len(wire) - 1
        /\ \A i \in 1 .. Len(wire') : wire'[i] = wire[i + 1]
    BY <1>1, HeadTailProperties
  <2>2. m = wire[1] /\ m \in Message
    BY <1>1, HeadTailProperties
  <2>3. wire' = <<>> <=> Len(wire') = 0
    BY <2>1, EmptySeq
  <2>4. QED
    BY <2>1, <2>2, <2>3
<1>3. subscribed /\ wire[Len(wire)].version = validated
  BY <1>1 DEF FromThisSocket, NothingLost, Latest
<1>4. FromThisSocket'
  BY <1>1, <1>3 DEF FromThisSocket
<1>5. \A i \in 1 .. Len(wire') : wire'[i].type # "answer"
  <2>1. ASSUME NEW i \in 1 .. Len(wire'), wire'[i].type = "answer" PROVE FALSE
    <3>1. i + 1 \in 1 .. Len(wire) /\ wire[i + 1].type = "answer"
      BY <2>1, <1>2
    <3>2. i + 1 = 1
      BY <3>1 DEF AnswerComesFirst
    <3>3. QED
      BY <3>2
  <2>2. QED
    BY <2>1
<1>6. wire' # <<>> => wire'[Len(wire')].version = validated'
  <2>1. ASSUME wire' # <<>> PROVE wire'[Len(wire')] = wire[Len(wire)]
    <3>1. Len(wire') \in 1 .. Len(wire') /\ Len(wire') + 1 = Len(wire)
      BY <2>1, <1>2
    <3>2. QED
      BY <3>1, <1>2
  <2>2. QED
    BY <2>1, <1>1, <1>3
<1>7. CASE m.type = "ledgerClosed"
  <2>1. /\ ledgerVersion' = m.version /\ reaction' = reaction
        /\ reaction # NoMsg => overtaken' = m.version
    BY <1>7, <1>1 DEF Receive, UpdateLedgerVersions
  <2>2. wire' = <<>> => m.version = validated'
    BY <1>1, <1>2, <1>3
  <2>3. AnswerComesFirst'
    BY <2>1, <1>1, <1>5 DEF AnswerComesFirst
  <2>4. NothingLost'
    BY <2>1, <2>2, <1>6 DEF NothingLost, Latest
  <2>5. QED
    BY <1>4, <2>3, <2>4 DEF Flow
<1>8. CASE m.type = "answer"
  <2>1. reaction' = m /\ m # NoMsg /\ reaction = NoMsg
    BY <1>1, <1>8, <1>2, MessageFacts DEF Receive, AnswerComesFirst
  <2>2. wire' = <<>> => m.version = validated'
    BY <1>1, <1>2, <1>3
  <2>3. ~ready'
    BY <1>8, <1>1, <1>2 DEF AnswerComesFirst
  <2>4. AnswerComesFirst'
    BY <2>3, <1>5 DEF AnswerComesFirst
  <2>5. NothingLost'
    BY <2>1, <2>2, <1>6 DEF NothingLost, Latest
  <2>6. QED
    BY <1>4, <2>4, <2>5 DEF Flow
<1>9. QED
  BY <1>2, <1>7, <1>8, MessageFacts

(* Every step keeps ViewInv, however many messages a read delivers.        *)
LEMMA ViewStep == ViewInv /\ [Next]_vars => ViewInv'
<1> SUFFICES ASSUME ViewInv, [Next]_vars PROVE Flow'
  BY SafeStep DEF ViewInv, Flow
<1> USE DEF ViewInv, SafeInv, ViewType, Flow
<1>1. ASSUME NEW v \in Versions, LedgerCloses(v) PROVE Flow'
  <2>1. /\ phase' = phase /\ ready' = ready /\ reaction' = reaction
        /\ ledgerVersion' = ledgerVersion /\ validated' = v
        /\ subscribed' = subscribed /\ overtaken' = overtaken
    BY <1>1 DEF LedgerCloses, link, viewVars
  <2>2. CASE ~subscribed
    <3>1. wire' = wire
      BY <1>1, <2>2 DEF LedgerCloses
    <3>2. QED
      BY <2>1, <2>2, <3>1
         DEF FromThisSocket, AnswerComesFirst, NothingLost
  <2>3. CASE subscribed
    <3>1. PICK listed \in BOOLEAN :
            wire' = Append(wire, Tells("ledgerClosed", v, history', listed))
      BY <1>1, <2>3 DEF LedgerCloses
    <3>2. history' \in SUBSET Versions /\ v \in 0 .. MaxVersion
      <4>1. history' = history \cup {v}
        BY <1>1 DEF LedgerCloses
      <4>2. QED
        BY <4>1 DEF Versions
    <3>3. PICK m \in Message : /\ wire' = Append(wire, m)
                               /\ m.version = v /\ m.type = "ledgerClosed"
      BY <3>1, <3>2, TellsFacts
    <3>4. UNCHANGED <<link, viewVars, reaction, overtaken>>
      BY <1>1 DEF LedgerCloses
    <3>5. phase \in {"open", "closing"}
      BY <2>3 DEF FromThisSocket
    <3>6. subscribed' = TRUE
      BY <2>1, <2>3, Zenon
    <3>7. QED
      BY <2>1, <3>3, <3>4, <3>5, <3>6, SendStep
  <2>4. QED
    BY <2>2, <2>3
<1>2. ASSUME DeletesOldest PROVE Flow'
  BY <1>2 DEF DeletesOldest, link, viewVars, FromThisSocket, AnswerComesFirst,
              NothingLost, Latest
<1>3. ASSUME AnswersSubscribe PROVE Flow'
  <2>1. PICK listed \in BOOLEAN :
          wire' = Append(wire, Tells("answer", validated, history, listed))
    BY <1>3 DEF AnswersSubscribe
  <2>2. PICK m \in Message : wire' = Append(wire, m) /\ m.version = validated
    BY <2>1, TellsFacts
  <2>3. UNCHANGED <<link, viewVars, reaction, overtaken>> /\ validated' = validated
        /\ phase \in {"open", "closing"}
    BY <1>3 DEF AnswersSubscribe, serverVars
  <2>4. subscribed' = TRUE
    BY <1>3 DEF AnswersSubscribe
  <2>5. wire = <<>> /\ ~ready /\ reaction = NoMsg
    BY <1>3 DEF AnswersSubscribe, FromThisSocket
  <2>6. QED
    BY <2>2, <2>3, <2>4, <2>5, SendStep
<1>4. ASSUME Receive PROVE Flow'
  BY <1>4, ReceiveStep
<1>5. ASSUME Connected PROVE Flow'
  <2>1. /\ reaction' = NoMsg /\ ledgerVersion' = reaction.version
        /\ phase' = phase /\ phase \in {"open", "closing"}
        /\ wire' = wire /\ subscribed' = subscribed /\ validated' = validated
        /\ overtaken' = overtaken
    BY <1>5 DEF Connected, UpdateLedgerVersions, BecomeReady, serverVars
  <2>2. reaction # NoMsg
    BY <1>5 DEF Connected, NoMsg
  <2>3. \A i \in 1 .. Len(wire) : wire[i].type # "answer"
    BY <2>2 DEF AnswerComesFirst
  <2>4. FromThisSocket' /\ AnswerComesFirst'
    BY <2>1, <2>2, <2>3 DEF FromThisSocket, AnswerComesFirst
  <2>5. NothingLost'
    BY <2>1, <2>2 DEF NothingLost, Latest
  <2>6. QED
    BY <2>4, <2>5
<1>6. ASSUME NotInitialized PROVE Flow'
  <2>1. /\ reaction # NoMsg /\ reaction' = NoMsg /\ ready' = ready
        /\ phase' = "closing" /\ wire' = wire /\ subscribed' = subscribed
        /\ validated' = validated /\ ledgerVersion' = ledgerVersion
        /\ overtaken' = overtaken
    BY <1>6 DEF NotInitialized, BeginClose, link, viewVars, serverVars
  <2>2. ~ready /\ \A i \in 1 .. Len(wire) : wire[i].type # "answer"
    BY <2>1 DEF AnswerComesFirst
  <2>3. FromThisSocket' /\ AnswerComesFirst'
    BY <2>1, <2>2 DEF FromThisSocket, AnswerComesFirst
  <2>4. NothingLost'
    BY <2>1, <2>2 DEF NothingLost, Latest
  <2>5. QED
    BY <2>3, <2>4
<1>7. ASSUME SocketStarts PROVE Flow'
  <2>1. /\ ready' = ready /\ reaction' = reaction /\ wire' = wire
        /\ subscribed' = subscribed /\ validated' = validated
        /\ ledgerVersion' = ledgerVersion /\ overtaken' = overtaken
        /\ phase \in {"open", "closing"} => phase' \in {"open", "closing"}
    BY <1>7 DEF SocketStarts, Create, Open, BeginClose, viewVars, serverVars
  <2>2. QED
    BY <2>1 DEF FromThisSocket, AnswerComesFirst, NothingLost, Latest
<1>8. ASSUME SocketEnds PROVE Flow'
  <2>1. reaction = NoMsg /\ reaction' = reaction /\ wire' = <<>>
    BY <1>8 DEF SocketEnds
  <2>2. ~ready' /\ ~subscribed'
    BY <1>8 DEF SocketEnds, Recreate, Gone, Fail, FromThisSocket
  <2>3. QED
    BY <2>1, <2>2 DEF FromThisSocket, AnswerComesFirst, NothingLost
<1>9. ASSUME GetLedgerVersion PROVE Flow'
  BY <1>9 DEF GetLedgerVersion, link, viewVars, serverVars, FromThisSocket,
              AnswerComesFirst, NothingLost, Latest
<1>10. ASSUME NEW v, NEW index, Request(index, v) PROVE Flow'
  BY <1>10 DEF Request, link, viewVars, serverVars, FromThisSocket,
               AnswerComesFirst, NothingLost, Latest
<1>11. CASE UNCHANGED vars
  BY <1>11 DEF vars, link, viewVars, serverVars, FromThisSocket,
               AnswerComesFirst, NothingLost, Latest
<1>12. QED
  BY <1>1, <1>2, <1>3, <1>4, <1>5, <1>6, <1>7, <1>8, <1>9, <1>10, <1>11 DEF Next

(* A ready connection that has used every message knows the latest         *)
(* validated ledger, through every outage and reconnection, but for a      *)
(* ledger that came in the read that brought the answer to subscribe, and  *)
(* then until the next ledger only (connection.js 49-58, 67-78, 175-186).  *)
THEOREM VersionIsKept == Spec => []BehindByOneReadOnly
<1>1. ViewInv => BehindByOneReadOnly
  BY DEF ViewInv, NothingLost, Latest, BehindByOneReadOnly
<1>2. QED
  BY <1>1, ViewStep, ViewInit, PTL DEF Spec

(* ---------------- A version that was returned is usable ---------------- *)

(* The versions the connection knows, or has told its callers.             *)
Known == waiting \cup answers \cup {ledgerVersion}

(* No message under way is older than what is known, or than the message   *)
(* before it; and nothing known is newer than what is in use, or will be   *)
(* after the reaction, but for what was used ahead of it.                  *)
OrderInv ==
  /\ \A i \in 1 .. Len(wire) :
       \A v \in Known \cup {overtaken, reaction.version} : v <= wire[i].version
  /\ \A i, j \in 1 .. Len(wire) : i <= j => wire[i].version <= wire[j].version
  /\ \A v \in Known : v <= ledgerVersion \/ v <= overtaken
  /\ reaction # NoMsg => \A v \in Known : v <= reaction.version \/ v <= overtaken

(* Of the versions, that they are numbers.                                 *)
LEMMA Numbers ==
  ASSUME SafeInv
  PROVE  /\ Known \subseteq Int /\ ledgerVersion \in Nat /\ overtaken \in Nat
         /\ reaction.version \in Nat /\ validated \in Nat
         /\ \A v \in Known \cup {overtaken, reaction.version} : v <= validated
         /\ \A i \in 1 .. Len(wire) :
              wire[i].version \in Nat /\ wire[i].version <= validated
<1>1. reaction.version \in 0 .. MaxVersion
  BY MessageFacts, LedgerAssumption DEF SafeInv, ViewType, NoMsg
<1>2. Known \subseteq 0 .. MaxVersion
  BY DEF SafeInv, ViewType, Known
<1>3. \A v \in Known \cup {overtaken, reaction.version} : v <= validated
  BY DEF SafeInv, NothingAhead, Known
<1>4. ASSUME NEW i \in 1 .. Len(wire)
      PROVE  wire[i].version \in Nat /\ wire[i].version <= validated
  <2>1. wire[i] \in Message /\ wire[i].version <= validated
    BY DEF SafeInv, ViewType, NothingAhead
  <2>2. QED
    BY <2>1, MessageFacts, LedgerAssumption
<1>5. validated \in Nat /\ ledgerVersion \in Nat /\ overtaken \in Nat
  BY LedgerAssumption DEF SafeInv, ViewType
<1>6. reaction.version \in Nat /\ Known \subseteq Int
  BY <1>1, <1>2, LedgerAssumption
<1>7. QED
  BY <1>3, <1>4, <1>5, <1>6

(* A message of the latest validated ledger is sent.                       *)
LEMMA SendInOrder ==
  ASSUME SafeInv, OrderInv, NEW m, m.version \in Nat, validated <= m.version,
         wire' = Append(wire, m), UNCHANGED <<viewVars, reaction, overtaken, waiting, answers>>
  PROVE  OrderInv'
<1>1. /\ Len(wire') = Len(wire) + 1 /\ Len(wire) \in Nat
      /\ wire'[Len(wire) + 1] = m
      /\ \A i \in 1 .. Len(wire) : wire'[i] = wire[i]
  BY AppendProperties DEF SafeInv, ViewType
<1>2. /\ Known' = Known /\ overtaken' = overtaken /\ reaction' = reaction
      /\ ledgerVersion' = ledgerVersion
  BY DEF Known, viewVars
<1>3. ASSUME NEW i \in 1 .. Len(wire')
      PROVE  /\ \/ i \in 1 .. Len(wire) /\ wire'[i] = wire[i]
                \/ i = Len(wire) + 1 /\ wire'[i] = m
             /\ \A v \in Known \cup {overtaken, reaction.version} : v <= wire'[i].version
  <2>1. CASE i \in 1 .. Len(wire)
    BY <1>1, <2>1 DEF OrderInv
  <2>2. CASE i = Len(wire) + 1
    <3>1. \A v \in Known \cup {overtaken, reaction.version} : v \in Int /\ v <= validated
      BY Numbers
    <3>2. wire'[i] = m
      BY <1>1, <2>2
    <3>3. QED
      BY <2>2, <3>1, <3>2, Numbers
  <2>3. i \in 1 .. Len(wire) \/ i = Len(wire) + 1
    BY <1>1
  <2>4. QED
    BY <2>1, <2>2, <2>3
<1>4. ASSUME NEW i \in 1 .. Len(wire'), NEW j \in 1 .. Len(wire'), i <= j
      PROVE  wire'[i].version <= wire'[j].version
  <2>1. CASE j \in 1 .. Len(wire)
    <3>1. i \in 1 .. Len(wire)
      BY <1>1, <1>4, <2>1
    <3>2. QED
      BY <1>1, <1>4, <2>1, <3>1 DEF OrderInv
  <2>2. CASE wire'[j] = m
    <3>1. wire'[i] = m \/ (i \in 1 .. Len(wire) /\ wire'[i] = wire[i])
      BY <1>3
    <3>2. QED
      BY <2>2, <3>1, Numbers
  <2>3. QED
    BY <1>3, <2>1, <2>2
<1>5. QED
  BY <1>2, <1>3, <1>4 DEF OrderInv

(* The next message is used, or waits for its reaction.                    *)
LEMMA ReceiveInOrder ==
  ASSUME SafeInv, OrderInv, Receive
  PROVE  OrderInv'
<1> DEFINE m == Head(wire)
<1>1. /\ wire # <<>> /\ wire' = Tail(wire)
      /\ waiting' = waiting /\ answers' = answers
  BY DEF Receive, appVars
<1>2. /\ m = wire[1] /\ m \in Message /\ 1 \in 1 .. Len(wire) /\ Len(wire) \in Nat
      /\ Len(wire') = Len(wire) - 1
      /\ \A i \in 1 .. Len(wire') : wire'[i] = wire[i + 1]
  <2>1. wire \in Seq(Message)
    BY DEF SafeInv, ViewType
  <2>2. QED
    BY <1>1, <2>1, HeadTailProperties
<1>3. /\ m.version \in Nat /\ m # NoMsg
      /\ \A v \in Known \cup {overtaken, reaction.version} : v <= m.version
  BY <1>2, Numbers, MessageFacts DEF OrderInv
<1>4. ASSUME NEW i \in 1 .. Len(wire')
      PROVE  m.version <= wire'[i].version /\ wire'[i].version \in Nat
  <2>1. i + 1 \in 1 .. Len(wire) /\ 1 <= i + 1 /\ wire'[i] = wire[i + 1]
    BY <1>2
  <2>2. QED
    BY <1>2, <2>1, Numbers DEF OrderInv
<1>5. /\ ledgerVersion' \in {ledgerVersion, m.version}
      /\ overtaken' \in {overtaken, m.version}
      /\ reaction' \in {reaction, m}
  BY DEF Receive, UpdateLedgerVersions, viewVars
<1>6. Known' \cup {overtaken', reaction'.version}
        \subseteq Known \cup {overtaken, reaction.version, m.version}
  BY <1>1, <1>5 DEF Known
<1>7. \A v \in Known \cup {overtaken, reaction.version, m.version} : v \in Int /\ v <= m.version
  BY <1>3, Numbers
<1>8. \A i, j \in 1 .. Len(wire') : i <= j => wire'[i].version <= wire'[j].version
  <2>1. ASSUME NEW i \in 1 .. Len(wire'), NEW j \in 1 .. Len(wire'), i <= j
        PROVE  wire'[i].version <= wire'[j].version
    <3>1. /\ i + 1 \in 1 .. Len(wire) /\ j + 1 \in 1 .. Len(wire) /\ i + 1 <= j + 1
          /\ wire'[i] = wire[i + 1] /\ wire'[j] = wire[j + 1]
      BY <1>2, <2>1
    <3>2. QED
      BY <3>1 DEF OrderInv
  <2>2. QED
    BY <2>1
<1>9. \A i \in 1 .. Len(wire') :
        \A v \in Known' \cup {overtaken', reaction'.version} : v <= wire'[i].version
  BY <1>3, <1>4, <1>6, <1>7
<1>10. CASE m.type = "ledgerClosed"
  <2>1. /\ ledgerVersion' = m.version /\ reaction' = reaction
        /\ reaction # NoMsg => overtaken' = m.version
    BY <1>10 DEF Receive, UpdateLedgerVersions
  <2>2. \A v \in Known' : v <= ledgerVersion'
    BY <1>6, <1>7, <2>1
  <2>3. reaction' # NoMsg => \A v \in Known' : v <= overtaken'
    BY <1>6, <1>7, <2>1
  <2>4. QED
    BY <1>8, <1>9, <2>2, <2>3 DEF OrderInv
<1>11. CASE m.type = "answer"
  <2>1. reaction' = m /\ ledgerVersion' = ledgerVersion /\ overtaken' = overtaken
    BY <1>11 DEF Receive, viewVars
  <2>2. Known' = Known
    BY <1>1, <2>1 DEF Known
  <2>3. \A v \in Known' : v <= reaction'.version
    BY <1>3, <2>1, <2>2
  <2>4. QED
    BY <1>8, <1>9, <2>1, <2>2, <2>3 DEF OrderInv
<1>12. QED
  BY <1>2, <1>10, <1>11, MessageFacts

(* Every step keeps OrderInv.                                              *)
LEMMA OrderStep == SafeInv /\ OrderInv /\ [Next]_vars => OrderInv'
<1> SUFFICES ASSUME SafeInv, OrderInv, [Next]_vars PROVE OrderInv'
  OBVIOUS
<1>0. NoMsg.version = 0
  BY DEF NoMsg
<1>1. ASSUME NEW v \in Versions, LedgerCloses(v) PROVE OrderInv'
  <2>1. v \in 0 .. MaxVersion /\ v \in Nat /\ validated <= v /\ history' \in SUBSET Versions
        /\ UNCHANGED <<viewVars, reaction, overtaken, waiting, answers>>
    BY <1>1, LedgerAssumption DEF LedgerCloses, Versions, SafeInv, ViewType, appVars
  <2>2. CASE ~subscribed
    BY <1>1, <2>1, <2>2 DEF LedgerCloses, OrderInv, Known, viewVars
  <2>3. CASE subscribed
    <3>1. PICK listed \in BOOLEAN :
            wire' = Append(wire, Tells("ledgerClosed", v, history', listed))
      BY <1>1, <2>3 DEF LedgerCloses
    <3>2. Tells("ledgerClosed", v, history', listed).version = v
      BY <2>1, TellsFacts
    <3>3. QED
      BY <2>1, <3>1, <3>2, SendInOrder
  <2>4. QED
    BY <2>2, <2>3 DEF SafeInv, ViewType
<1>2. ASSUME AnswersSubscribe PROVE OrderInv'
  <2>1. PICK listed \in BOOLEAN :
          wire' = Append(wire, Tells("answer", validated, history, listed))
    BY <1>2 DEF AnswersSubscribe
  <2>2. /\ Tells("answer", validated, history, listed).version = validated
        /\ validated \in Nat
    BY TellsFacts, Numbers DEF SafeInv, ViewType
  <2>3. UNCHANGED <<viewVars, reaction, overtaken, waiting, answers>>
    BY <1>2 DEF AnswersSubscribe, appVars
  <2>4. QED
    BY <2>1, <2>2, <2>3, SendInOrder
<1>3. ASSUME Connected PROVE OrderInv'
  <2>1. /\ ledgerVersion' = reaction.version /\ reaction' = NoMsg /\ reaction # NoMsg
        /\ waiting' = {} /\ answers' = answers \cup waiting
        /\ overtaken' = overtaken /\ wire' = wire
    BY <1>0, <1>3 DEF Connected, UpdateLedgerVersions
  <2>2. Known' \subseteq Known \cup {reaction.version}
    BY <2>1 DEF Known
  <2>3. \A v \in Known' : v <= ledgerVersion' \/ v <= overtaken'
    BY <2>1, <2>2, Numbers DEF OrderInv
  <2>4. \A i \in 1 .. Len(wire) : 0 <= wire[i].version
    BY Numbers
  <2>5. QED
    BY <1>0, <2>1, <2>2, <2>3, <2>4 DEF OrderInv
<1>4. ASSUME NotInitialized PROVE OrderInv'
  <2>1. /\ reaction' = NoMsg /\ overtaken' = overtaken /\ wire' = wire
        /\ ledgerVersion' = ledgerVersion /\ Known' = Known
    BY <1>4 DEF NotInitialized, viewVars, appVars, Known
  <2>2. \A i \in 1 .. Len(wire) : 0 <= wire[i].version
    BY Numbers
  <2>3. QED
    BY <1>0, <2>1, <2>2 DEF OrderInv
<1>5. ASSUME SocketEnds PROVE OrderInv'
  <2>1. /\ UNCHANGED <<reaction, overtaken, ledgerVersion>> /\ Known' = Known
        /\ Len(wire') = 0
    BY <1>5 DEF SocketEnds, viewVars, appVars, Known
  <2>2. QED
    BY <2>1 DEF OrderInv
<1>6. ASSUME GetLedgerVersion PROVE OrderInv'
  <2>1. /\ UNCHANGED <<reaction, overtaken, ledgerVersion, wire>>
        /\ Known' = Known
    BY <1>6 DEF GetLedgerVersion, viewVars, Known
  <2>2. QED
    BY <2>1 DEF OrderInv
<1>7. CASE \/ DeletesOldest \/ SocketStarts \/ UNCHANGED vars
           \/ \E v \in Versions, index \in {"unnamed", "validated", "number"} :
                Request(index, v)
  <2>1. /\ UNCHANGED <<reaction, overtaken, ledgerVersion, wire>> /\ Known' = Known
    BY <1>7 DEF DeletesOldest, SocketStarts, Request, vars, viewVars, appVars, Known
  <2>2. QED
    BY <2>1 DEF OrderInv
<1>8. QED
  BY <1>1, <1>2, <1>3, <1>4, <1>5, <1>6, <1>7, ReceiveInOrder DEF Next

LEMMA OrderInit == Init => OrderInv
<1> SUFFICES ASSUME Init PROVE OrderInv
  OBVIOUS
<1>1. Len(wire) = 0 /\ Known = {0} /\ ledgerVersion = 0 /\ reaction = NoMsg
  BY DEF Init, Known
<1>2. QED
  BY <1>1 DEF OrderInv

(* A version that getLedgerVersion() has returned is validated and stays   *)
(* one that RestrictedConnection lets a request name (api.js 75-87),       *)
(* through every outage, but for a ledger used ahead of the reaction of    *)
(* _onOpen; and no request is sent that names a ledger by number which is  *)
(* not validated.                                                          *)
THEOREM ReturnedStaysUsable == Spec => []ReturnedIsUsable
<1>1. SafeInv /\ OrderInv => ReturnedIsUsable
  BY Numbers DEF SafeInv, NothingAhead, OrderInv, Known, ReturnedIsUsable, Permitted
<1>2. QED
  BY <1>1, SafeInit, SafeStep, OrderInit, OrderStep, PTL DEF Spec

(* ------------------ The ranges are the versions told ------------------- *)

RangesInv ==
  /\ ViewType
  /\ available \in Seq(Ranges) /\ Apart(available)
  /\ Denotes(available) = told

(* Using a message keeps them.                                             *)
LEMMA UpdateKeepsRanges ==
  ASSUME RangesInv, NEW m \in Message, UpdateLedgerVersions(m)
  PROVE  (available \in Seq(Ranges) /\ Apart(available) /\ Denotes(available) = told)'
<1>1. m.listed \in BOOLEAN /\ m.version \in Int /\ m.ledgers \in SUBSET (1 .. MaxVersion)
  BY LedgerAssumption DEF Message, Versions
<1>2. CASE m.listed
  <2>1. RangesOf(m.ledgers) \in Seq(Ranges) /\ Denotes(RangesOf(m.ledgers)) = m.ledgers
    BY <1>1, LedgerAssumption, RangesOfFacts
  <2>2. <<>> \in Seq(Ranges) /\ Apart(<<>>) /\ Denotes(<<>>) = {}
    BY DEF Apart, Denotes
  <2>3. available' = parseAndAddRanges(<<>>, RangesOf(m.ledgers)) /\ told' = m.ledgers
    BY <1>2 DEF UpdateLedgerVersions
  <2> DEFINE all == parseAndAddRanges(<<>>, RangesOf(m.ledgers))
  <2>4. /\ all \in Seq(Ranges) /\ Apart(all)
        /\ Denotes(all) = Denotes(<<>>) \cup Denotes(RangesOf(m.ledgers))
    BY <2>1, <2>2, ParseFacts
  <2> HIDE DEF all
  <2>5. \A a : a = all => a \in Seq(Ranges) /\ Apart(a) /\ Denotes(a) = m.ledgers
    BY <2>1, <2>2, <2>4
  <2>6. available' = all
    BY <2>3 DEF all
  <2>7. available' \in Seq(Ranges) /\ Apart(available') /\ Denotes(available') = told'
    BY <2>3, <2>5, <2>6
  <2> QED
    BY <2>7 DEF Apart, Denotes
<1>3. CASE ~m.listed
  <2> DEFINE r == <<m.version, m.version>>
             added == addRange(available, r[1], r[2])
  <2>1. r \in Ranges
    BY <1>1 DEF Ranges
  <2>2. available' = added /\ told' = told \cup {m.version}
    BY <1>3 DEF UpdateLedgerVersions, addValue
  <2>3. /\ added \in Seq(Ranges) /\ Apart(added)
        /\ Denotes(added) = Denotes(available) \cup (m.version .. m.version)
    BY <2>1, AddFacts DEF RangesInv
  <2> HIDE DEF added
  <2>4. m.version .. m.version = {m.version}
    BY <1>1
  <2>5. \A a : a = added => a \in Seq(Ranges) /\ Apart(a) /\ Denotes(a) = told \cup {m.version}
    BY <2>3, <2>4 DEF RangesInv
  <2>6. available' \in Seq(Ranges) /\ Apart(available') /\ Denotes(available') = told'
    BY <2>2, <2>5
  <2> QED
    BY <2>6 DEF Apart, Denotes
<1> QED
  BY <1>1, <1>2, <1>3

LEMMA RangesInit == Init => RangesInv
<1> SUFFICES ASSUME Init PROVE RangesInv
  OBVIOUS
<1>1. available = <<>> /\ told = {}
  BY DEF Init
<1>2. available \in Seq(Ranges) /\ Apart(available) /\ Denotes(available) = told
  BY <1>1 DEF Apart, Denotes
<1> QED
  BY <1>2, SafeInit DEF RangesInv, SafeInv

(* Every step keeps RangesInv.                                             *)
LEMMA RangesStep == SafeInv /\ RangesInv /\ [Next]_vars => RangesInv'
<1> SUFFICES ASSUME SafeInv, RangesInv, [Next]_vars PROVE RangesInv'
  OBVIOUS
<1>1. ViewType'
  BY SafeStep DEF SafeInv
<1>2. CASE UNCHANGED <<available, told>>
  BY <1>1, <1>2 DEF RangesInv, Apart, Denotes
<1>3. ASSUME Receive PROVE RangesInv'
  <2>1. wire # <<>> /\ wire \in Seq(Message)
    BY <1>3 DEF Receive, RangesInv, ViewType
  <2>2. Head(wire) \in Message
    BY <2>1, HeadTailProperties
  <2>3. CASE UNCHANGED viewVars
    BY <1>2, <2>3 DEF viewVars
  <2>4. CASE UpdateLedgerVersions(Head(wire))
    BY <1>1, <2>2, <2>4, UpdateKeepsRanges DEF RangesInv
  <2> QED
    BY <1>3, <2>3, <2>4 DEF Receive
<1>4. ASSUME Connected PROVE RangesInv'
  <2>1. reaction # NoMsg /\ UpdateLedgerVersions(reaction)
    BY <1>4 DEF Connected, NoMsg
  <2>2. reaction \in Message
    BY <2>1 DEF RangesInv, ViewType
  <2> QED
    BY <1>1, <2>1, <2>2, UpdateKeepsRanges DEF RangesInv
<1>5. CASE \/ \E v \in Versions : LedgerCloses(v)
           \/ \E v \in Versions, index \in {"unnamed", "validated", "number"} :
                Request(index, v)
           \/ DeletesOldest \/ AnswersSubscribe \/ NotInitialized
           \/ SocketStarts \/ SocketEnds \/ GetLedgerVersion
           \/ UNCHANGED vars
  <2>1. UNCHANGED viewVars
    BY <1>5 DEF LedgerCloses, Request, DeletesOldest, AnswersSubscribe, NotInitialized,
                SocketStarts, SocketEnds, GetLedgerVersion, vars
  <2> QED
    BY <1>2, <2>1 DEF viewVars
<1> QED
  BY <1>3, <1>4, <1>5 DEF Next

(* The ranges that a connection keeps stand for exactly the versions it    *)
(* was told, in order and merged wherever they touch, so that asking for a *)
(* range (hasLedgerVersions, connection.js; containsRange, rangeset.js 53) *)
(* answers as asking for each of its versions would.                       *)
THEOREM RangesAreTheVersionsTold == Spec => []RangesMatch
<1>1. RangesInv => RangesMatch
  <2> SUFFICES ASSUME RangesInv, NEW first \in Versions, NEW last \in first .. MaxVersion
               PROVE  containsRange(available, first, last) <=> first .. last \subseteq told
    BY DEF RangesMatch
  <2>1. first \in Int /\ last \in Int /\ first <= last
    BY LedgerAssumption DEF Versions
  <2> QED
    BY <2>1, ContainsFacts DEF RangesInv
<1> QED
  BY <1>1, SafeInit, SafeStep, RangesInit, RangesStep, PTL DEF Spec

=============================================================================
