---------------------------- MODULE BroadcastProofs ----------------------------
(***************************************************************************)
(* For any number of servers, ledgers and losses: the stream of ledgers    *)
(* that the broadcast makes of those of its apis, and the balances of the  *)
(* call that its apis race for.                                            *)
(*                                                                         *)
(* Servers repeat versions and tell old ones: nothing is known of what an  *)
(* api emits but that it is a version.  What the broadcast last emitted is *)
(* its _ledgerVersion, and is not below any version that it was told       *)
(* (StreamInv): so it is enough to compare with that one.                  *)
(*                                                                         *)
(* No api has heard of a ledger that its server does not have (HeardInv),  *)
(* so that a version which was permitted to it is there for good.  While   *)
(* the call is on, each api asks for one version throughout, and what it   *)
(* has got of the trust lines are those of the pages up to the next, with  *)
(* the balances of that version (LinesOk): pages follow one another, and   *)
(* filtering them by currency one after the other is filtering them all.   *)
(* The limit on the lines, and then again on all balances, is one limit    *)
(* (FirstTwice).  So the first api that is done has what was asked for     *)
(* (RaceInv).                                                              *)
(***************************************************************************)
EXTENDS Broadcast, SequenceTheorems, NaturalsInduction, WellFoundedInduction, TLAPS

-----------------------------------------------------------------------------
(* The stream of ledgers                                                   *)

Version == Nat \ {0}

WireTyped ==
  /\ server \in [Servers -> Version]
  /\ wire \in [Servers -> Seq(Version)]

Increasing == \A i, k \in DOMAIN emitted : i < k => emitted[i] < emitted[k]

StreamInv ==
  /\ ledgerVersion \in Nat
  /\ emitted \in Seq(Version)
  /\ Increasing
  /\ ToSet(emitted) \subseteq told
  /\ \A v \in told : v \in Version /\ v <= ledgerVersion
  /\ IF emitted = <<>> THEN told = {} /\ ledgerVersion = 0
     ELSE Last(emitted) = ledgerVersion

Inv == WireTyped /\ StreamInv

LEMMA MaxIs ==
  ASSUME NEW S \in SUBSET Nat, NEW m \in S, \A x \in S : x <= m
  PROVE  Max(S) = m
<1>1. m \in S /\ \A y \in S : m >= y
  BY SMT
<1>2. \A x \in S : (\A y \in S : x >= y) => x = m
  BY SMT
<1>3. QED
  BY <1>1, <1>2 DEF Max

LEMMA ToSetAppend ==
  ASSUME NEW T, NEW s \in Seq(T), NEW e \in T
  PROVE  /\ ToSet(Append(s, e)) = ToSet(s) \cup {e}
         /\ Last(Append(s, e)) = e
         /\ Append(s, e) # <<>> /\ Append(s, e) \in Seq(T)
<1> DEFINE t == Append(s, e)
<1>1. /\ t \in Seq(T) /\ Len(t) = Len(s) + 1 /\ Len(s) \in Nat
      /\ DOMAIN t = 1 .. Len(s) + 1 /\ DOMAIN s = 1 .. Len(s)
  OBVIOUS
<1>2. t[Len(s) + 1] = e /\ \A i \in DOMAIN s : t[i] = s[i]
  OBVIOUS
<1>3. ToSet(t) = ToSet(s) \cup {e}
  <2>1. \A i \in DOMAIN t : i \in DOMAIN s \/ i = Len(s) + 1
    BY <1>1
  <2>2. DOMAIN s \subseteq DOMAIN t /\ Len(s) + 1 \in DOMAIN t
    BY <1>1
  <2>3. QED
    BY <1>2, <2>1, <2>2, Zenon DEF ToSet
<1>4. t # <<>>
  BY <1>1
<1>5. QED
  BY <1>1, <1>2, <1>3, <1>4 DEF Last

(* A later version goes to the end of what was emitted; another one has    *)
(* been told, or a later one than it.                                      *)
LEMMA HearsStep == \A s \in Servers : Inv /\ Hears(s) => Inv'
<1> SUFFICES ASSUME NEW s \in Servers, Inv, Hears(s) PROVE Inv'
  OBVIOUS
<1> DEFINE version == Head(wire[s])
<1>1. wire[s] \in Seq(Version) /\ wire[s] # <<>>
  BY DEF Inv, WireTyped, Hears
<1>2. version \in Version /\ Tail(wire[s]) \in Seq(Version)
  BY <1>1
<1>3. WireTyped'
  BY <1>2 DEF Inv, WireTyped, Hears
<1>4. told' = told \cup {version} /\ onLedgerEvent(version)
  BY DEF Hears
<1>5. StreamInv'
  <2> USE DEF StreamInv
  <2>1. CASE version > ledgerVersion
    <3>1. ledgerVersion' = version /\ emitted' = Append(emitted, version)
      BY <1>4, <2>1 DEF onLedgerEvent
    <3>2. /\ ToSet(emitted') = ToSet(emitted) \cup {version}
          /\ Last(emitted') = version /\ emitted' # <<>> /\ emitted' \in Seq(Version)
      BY <1>2, <3>1, ToSetAppend DEF Inv
    <3>3. \A i \in DOMAIN emitted : emitted[i] \in Version /\ emitted[i] < version
      <4>1. \A i \in DOMAIN emitted : emitted[i] \in ToSet(emitted)
        BY DEF ToSet
      <4>2. QED
        BY <1>2, <2>1, <4>1 DEF Inv, Version
    <3>4. Increasing'
      <4>1. SUFFICES ASSUME NEW i \in DOMAIN emitted', NEW k \in DOMAIN emitted', i < k
                     PROVE  emitted'[i] < emitted'[k]
        BY DEF Increasing
      <4>2. emitted \in Seq(Version) /\ DOMAIN emitted' = 1 .. Len(emitted) + 1
        BY <3>1 DEF Inv
      <4>3. i \in DOMAIN emitted /\ emitted'[i] = emitted[i]
        BY <1>2, <3>1, <4>1, <4>2
      <4>4. CASE k = Len(emitted) + 1
        BY <1>2, <3>1, <3>3, <4>2, <4>3, <4>4
      <4>5. CASE k # Len(emitted) + 1
        <5>1. k \in DOMAIN emitted /\ emitted'[k] = emitted[k]
          BY <1>2, <3>1, <4>2, <4>5
        <5>2. QED
          BY <4>1, <4>3, <5>1 DEF Inv, Increasing
      <4>6. QED
        BY <4>4, <4>5
    <3>5. ToSet(emitted') \subseteq told'
      BY <1>4, <3>2 DEF Inv
    <3>6. \A v \in told' : v \in Version /\ v <= ledgerVersion'
      BY <1>2, <1>4, <2>1, <3>1 DEF Inv, Version
    <3>7. QED
      BY <1>2, <3>1, <3>2, <3>4, <3>5, <3>6 DEF Version
  <2>2. CASE ~(version > ledgerVersion)
    <3>1. UNCHANGED <<ledgerVersion, emitted>>
      BY <1>4, <2>2 DEF onLedgerEvent
    <3>2. \A v \in told' : v \in Version /\ v <= ledgerVersion
      BY <1>2, <1>4, <2>2 DEF Inv, Version
    <3>3. emitted # <<>>
      BY <1>2, <2>2 DEF Inv, Version
    <3>4. QED
      BY <1>4, <3>1, <3>2, <3>3 DEF Inv, Increasing
  <2>3. QED
    BY <2>1, <2>2
<1>6. QED
  BY <1>3, <1>5 DEF Inv

LEMMA ValidatesStep == \A s \in Servers : Inv /\ Validates(s) => Inv'
<1> SUFFICES ASSUME NEW s \in Servers, Inv, Validates(s) PROVE Inv'
  OBVIOUS
<1>1. server[s] \in Version /\ server[s] + 1 \in Version /\ wire[s] \in Seq(Version)
  BY DEF Inv, WireTyped, Version
<1>2. WireTyped'
  <2>1. server' \in [Servers -> Version]
    BY <1>1 DEF Inv, WireTyped, Validates
  <2>2. Append(wire[s], server[s] + 1) \in Seq(Version)
    BY <1>1
  <2>3. wire' \in [Servers -> Seq(Version)]
    BY <2>2 DEF Inv, WireTyped, Validates
  <2>4. QED
    BY <2>1, <2>3 DEF WireTyped
<1>3. StreamInv'
  BY DEF Inv, StreamInv, Increasing, Validates, events
<1>4. QED
  BY <1>2, <1>3 DEF Inv

LEMMA LosesStep == \A s \in Servers : Inv /\ Loses(s) => Inv'
<1> SUFFICES ASSUME NEW s \in Servers, Inv, Loses(s) PROVE Inv'
  OBVIOUS
<1>1. <<>> \in Seq(Version)
  OBVIOUS
<1>2. WireTyped'
  BY <1>1 DEF Inv, WireTyped, Loses
<1>3. StreamInv'
  BY DEF Inv, StreamInv, Increasing, Loses, events
<1>4. QED
  BY <1>2, <1>3 DEF Inv

(* The other steps are of calls, or of what is known of a server.          *)
LEMMA OtherSteps ==
  ASSUME Inv,
         \/ Calls
         \/ \E s \in Servers :
              \/ AnswersXrp(s) \/ AnswersLines(s) \/ TimesOut(s)
              \/ Creates(s) \/ Opens(s) \/ Connects(s)
  PROVE  Inv'
<1>1. UNCHANGED <<server, wire, ledgerVersion, emitted, told>>
  <2>1. CASE Calls
    BY <2>1 DEF Calls, Call, links, events
  <2>2. CASE \E s \in Servers : AnswersXrp(s) \/ AnswersLines(s) \/ TimesOut(s)
    BY <2>2 DEF AnswersXrp, AnswersLines, TimesOut, links, events
  <2>3. CASE \E s \in Servers : Creates(s) \/ Opens(s) \/ Connects(s)
    BY <2>3 DEF Creates, Opens, Connects, events
  <2>4. QED
    BY <2>1, <2>2, <2>3
<1>2. QED
  BY <1>1 DEF Inv, WireTyped, StreamInv, Increasing

LEMMA InvInit == Init => Inv
<1> SUFFICES ASSUME Init PROVE Inv
  OBVIOUS
<1>1. WireTyped
  <2>1. <<>> \in Seq(Version)
    OBVIOUS
  <2>2. QED
    BY <2>1 DEF Init, WireTyped, Version
<1>2. StreamInv
  <2>1. emitted \in Seq(Version) /\ DOMAIN emitted = {}
    BY DEF Init
  <2>2. QED
    BY <2>1 DEF Init, StreamInv, Increasing, ToSet
<1>3. QED
  BY <1>1, <1>2 DEF Inv

LEMMA InvStep == Inv /\ [Next]_vars => Inv'
<1>1. Inv /\ Next => Inv'
  BY HearsStep, ValidatesStep, LosesStep, OtherSteps DEF Next
<1>2. Inv /\ UNCHANGED vars => Inv'
  BY DEF vars, Inv, WireTyped, StreamInv, Increasing
<1>3. QED
  BY <1>1, <1>2

(* Every ledger that is later than those before is emitted, once, and no   *)
(* other, however far servers are behind one another and are lost.         *)
THEOREM EmitsOnce == Spec => []EmittedOnce
<1>1. Inv => EmittedOnce
  <2> SUFFICES ASSUME Inv PROVE EmittedOnce
    OBVIOUS
  <2>1. ASSUME told # {} PROVE emitted # <<>> /\ Last(emitted) = Max(told)
    <3>1. emitted # <<>> /\ Last(emitted) = ledgerVersion
      BY <2>1 DEF Inv, StreamInv
    <3>2. Last(emitted) \in ToSet(emitted)
      BY <3>1 DEF Inv, StreamInv, Last, ToSet
    <3>3. /\ ledgerVersion \in told /\ told \in SUBSET Nat
          /\ \A v \in told : v <= ledgerVersion
      BY <3>1, <3>2 DEF Inv, StreamInv, Version
    <3>4. QED
      BY <3>1, <3>3, MaxIs
  <2>2. QED
    BY <2>1 DEF Inv, StreamInv, Increasing, EmittedOnce
<1>2. QED
  BY <1>1, InvInit, InvStep, PTL DEF Spec

LEMMA LeastNumber ==
  ASSUME NEW S \in SUBSET Nat, S # {}
  PROVE  \E n \in S : \A m \in S : n <= m
<1>1. IsWellFoundedOn(OpToRel(<, Nat), Nat)
  BY NatLessThanWellFounded
<1>2. PICK n \in S : \A m \in S : ~(<<m, n>> \in OpToRel(<, Nat))
  BY <1>1, WFMin
<1>3. \A m \in S : ~(m < n)
  BY <1>2 DEF OpToRel
<1> QED
  BY <1>3

(* What holds at 0 and is handed on holds everywhere.                      *)
LEMMA HandedOn ==
  ASSUME NEW S, 0 \in S, \A n \in Nat : n \in S => n + 1 \in S
  PROVE  Nat \subseteq S
<1> SUFFICES ASSUME Nat \ S # {} PROVE FALSE
  OBVIOUS
<1>1. PICK n \in Nat \ S : \A m \in Nat \ S : n <= m
  BY LeastNumber
<1>2. n - 1 \in Nat /\ n - 1 \notin Nat \ S /\ n - 1 + 1 = n
  BY <1>1
<1> QED
  BY <1>1, <1>2

-----------------------------------------------------------------------------
(* Selecting from a sequence                                               *)

One(x, S) == IF x \in S THEN <<x>> ELSE <<>>

(* What Kept has for each beginning of a sequence.                         *)
Keeping(f, T, s, S) ==
  /\ f \in [0 .. Len(s) -> Seq(T)]
  /\ f[0] = <<>>
  /\ \A n \in 1 .. Len(s) : f[n] = f[n - 1] \o One(s[n], S)

LEMMA OneType == ASSUME NEW T, NEW x \in T, NEW S PROVE One(x, S) \in Seq(T)
BY DEF One

LEMMA KeepingExists ==
  ASSUME NEW T, NEW s \in Seq(T), NEW S
  PROVE  \E f : Keeping(f, T, s, S)
<1> DEFINE Upto(f, k) == /\ f \in [0 .. k -> Seq(T)] /\ f[0] = <<>>
                         /\ \A n \in 1 .. k : f[n] = f[n - 1] \o One(s[n], S)
           K == {k \in Nat : k <= Len(s) => \E f : Upto(f, k)}
<1> HIDE DEF Upto
<1>0. \A k \in Nat : k \in K <=> (k <= Len(s) => \E f : Upto(f, k))
  OBVIOUS
<1> HIDE DEF K
<1>1. 0 \in K
  <2> DEFINE f == [n \in 0 .. 0 |-> <<>>]
  <2>1. Upto(f, 0)
    BY DEF Upto
  <2> QED
    BY <1>0, <2>1
<1>2. ASSUME NEW k \in Nat, k \in K PROVE k + 1 \in K
  <2> SUFFICES ASSUME k + 1 <= Len(s) PROVE \E f : Upto(f, k + 1)
    BY <1>0
  <2>1. PICK f : Upto(f, k)
    BY <1>0, <1>2
  <2> DEFINE last == f[k] \o One(s[k + 1], S)
             g == [n \in 0 .. k + 1 |-> IF n = k + 1 THEN last ELSE f[n]]
  <2>2. /\ f \in [0 .. k -> Seq(T)] /\ f[0] = <<>>
        /\ \A n \in 1 .. k : f[n] = f[n - 1] \o One(s[n], S)
    BY <2>1 DEF Upto
  <2>3. last \in Seq(T)
    <3>1. s[k + 1] \in T /\ f[k] \in Seq(T)
      BY <2>2
    <3> QED
      BY <3>1, OneType, ConcatProperties
  <2> HIDE DEF last
  <2>4. g \in [0 .. k + 1 -> Seq(T)] /\ g[0] = <<>>
    BY <2>2, <2>3
  <2>5. g[k + 1] = last /\ g[k] = f[k] /\ \A n \in 0 .. k : g[n] = f[n]
    OBVIOUS
  <2>6. ASSUME NEW n \in 1 .. k + 1 PROVE g[n] = g[n - 1] \o One(s[n], S)
    <3>1. CASE n = k + 1
      BY <2>5, <3>1 DEF last
    <3>2. CASE n # k + 1
      <4>1. n \in 1 .. k /\ n \in 0 .. k /\ n - 1 \in 0 .. k
        BY <3>2
      <4> QED
        BY <2>2, <2>5, <4>1
    <3> QED
      BY <3>1, <3>2
  <2> HIDE DEF g
  <2>7. Upto(g, k + 1)
    BY <2>4, <2>6 DEF Upto
  <2> QED
    BY <2>7
<1>3. Len(s) \in K /\ Len(s) \in Nat
  BY <1>1, <1>2, HandedOn
<1>4. PICK f : Upto(f, Len(s))
  BY <1>0, <1>3
<1> QED
  BY <1>4 DEF Upto, Keeping

LEMMA KeptIs ==
  ASSUME NEW T, NEW s \in Seq(T), NEW S
  PROVE  \E f : Keeping(f, T, s, S) /\ Kept(s, S) = f[Len(s)]
<1> DEFINE Rec(f) == f = [n \in 0 .. Len(s) |-> IF n = 0 THEN <<>>
                            ELSE f[n - 1] \o (IF s[n] \in S THEN <<s[n]>> ELSE <<>>)]
           g == CHOOSE f : Rec(f)
<1>1. PICK f : Keeping(f, T, s, S)
  BY KeepingExists
<1>2. Len(s) \in Nat
  OBVIOUS
<1>3. Rec(f)
  <2>1. f \in [0 .. Len(s) -> Seq(T)]
    BY <1>1 DEF Keeping
  <2>2. ASSUME NEW n \in 0 .. Len(s)
        PROVE  f[n] = IF n = 0 THEN <<>>
                      ELSE f[n - 1] \o (IF s[n] \in S THEN <<s[n]>> ELSE <<>>)
    <3>1. CASE n = 0
      BY <1>1, <3>1 DEF Keeping
    <3>2. CASE n # 0
      <4>1. n \in 1 .. Len(s)
        BY <1>2, <3>2
      <4> QED
        BY <1>1, <3>2, <4>1 DEF Keeping, One
    <3> QED
      BY <3>1, <3>2
  <2> QED
    BY <2>1, <2>2
<1>4. Rec(g)
  BY <1>3
<1>5. Kept(s, S) = g[Len(s)]
  BY DEF Kept
<1> HIDE DEF g
<1>6. g[0] = <<>> /\ \A n \in 1 .. Len(s) : g[n] = g[n - 1] \o One(s[n], S)
  BY <1>2, <1>4 DEF One
<1>7. g \in [0 .. Len(s) -> Seq(T)]
  <2> DEFINE K == {k \in Nat : k <= Len(s) => g[k] \in Seq(T)}
  <2>1. 0 \in K
    <3>1. g[0] \in Seq(T)
      BY <1>6, EmptySeq
    <3> QED
      BY <3>1
  <2>2. ASSUME NEW k \in Nat, k \in K PROVE k + 1 \in K
    <3> SUFFICES ASSUME k + 1 <= Len(s) PROVE g[k + 1] \in Seq(T)
      OBVIOUS
    <3>1. k + 1 \in 1 .. Len(s) /\ (k + 1) - 1 = k /\ s[k + 1] \in T /\ g[k] \in Seq(T)
      BY <1>2, <2>2
    <3>2. g[k + 1] = g[k] \o One(s[k + 1], S)
      BY <1>6, <3>1
    <3> QED
      BY <3>1, <3>2, OneType, ConcatProperties
  <2>3. \A k \in Nat : k \in K
    <3> HIDE DEF K
    <3> QED
      BY <2>1, <2>2, HandedOn
  <2>4. \A k \in 0 .. Len(s) : g[k] \in Seq(T)
    BY <1>2, <2>3
  <2>5. g = [n \in 0 .. Len(s) |-> g[n]]
    BY <1>4
  <2> QED
    BY <2>4, <2>5
<1>8. Keeping(g, T, s, S)
  BY <1>6, <1>7 DEF Keeping
<1> QED
  BY <1>5, <1>8

LEMMA KeptType ==
  ASSUME NEW T, NEW s \in Seq(T), NEW S
  PROVE  Kept(s, S) \in Seq(T)
<1>1. PICK f : Keeping(f, T, s, S) /\ Kept(s, S) = f[Len(s)]
  BY KeptIs
<1> QED
  BY <1>1 DEF Keeping

LEMMA KeptNothing == \A S : Kept(<<>>, S) = <<>>
<1> SUFFICES ASSUME NEW S PROVE Kept(<<>>, S) = <<>>
  OBVIOUS
<1>1. <<>> \in Seq({}) /\ Len(<<>>) = 0
  OBVIOUS
<1>2. PICK f : Keeping(f, {}, <<>>, S) /\ Kept(<<>>, S) = f[Len(<<>>)]
  BY <1>1, KeptIs
<1> QED
  BY <1>1, <1>2 DEF Keeping

LEMMA KeptAppend ==
  ASSUME NEW T, NEW s \in Seq(T), NEW x \in T, NEW S
  PROVE  Kept(Append(s, x), S) = Kept(s, S) \o One(x, S)
<1> DEFINE t == Append(s, x)
           n == Len(s)
<1>1. t \in Seq(T) /\ Len(t) = n + 1 /\ n \in Nat /\ t[n + 1] = x
      /\ \A i \in 1 .. n : t[i] = s[i]
  BY AppendProperties
<1> HIDE DEF t
<1>2. PICK f : Keeping(f, T, s, S) /\ Kept(s, S) = f[n]
  BY KeptIs
<1>3. PICK g : Keeping(g, T, t, S) /\ Kept(t, S) = g[n + 1]
  BY <1>1, KeptIs
<1> DEFINE K == {k \in Nat : k <= n => g[k] = f[k]}
<1>4. 0 \in K
  BY <1>2, <1>3 DEF Keeping
<1>5. ASSUME NEW k \in Nat, k \in K PROVE k + 1 \in K
  <2> SUFFICES ASSUME k + 1 <= n PROVE g[k + 1] = f[k + 1]
    OBVIOUS
  <2>1. k + 1 \in 1 .. n /\ k + 1 \in 1 .. Len(t) /\ (k + 1) - 1 = k /\ k <= n
        /\ t[k + 1] = s[k + 1]
    BY <1>1
  <2>2. f[k + 1] = f[k] \o One(s[k + 1], S)
    BY <1>2, <2>1 DEF Keeping
  <2>3. g[k + 1] = g[k] \o One(t[k + 1], S)
    BY <1>3, <2>1 DEF Keeping
  <2>4. g[k] = f[k]
    BY <1>5, <2>1
  <2> QED
    BY <2>1, <2>2, <2>3, <2>4
<1>6. g[n] = f[n]
  <2>1. n \in K
    <3> HIDE DEF K
    <3> QED
      BY <1>1, <1>4, <1>5, HandedOn
  <2> QED
    BY <1>1, <2>1
<1>7. g[n + 1] = g[n] \o One(x, S)
  <2>1. n + 1 \in 1 .. Len(t) /\ (n + 1) - 1 = n
    BY <1>1
  <2> QED
    BY <1>1, <1>3, <2>1 DEF Keeping
<1> QED
  BY <1>2, <1>3, <1>6, <1>7 DEF t

(* The beginnings of a sequence, one element after the other.              *)
LEMMA Beginnings ==
  ASSUME NEW T, NEW s \in Seq(T), NEW n \in Nat, n + 1 <= Len(s)
  PROVE  /\ SubSeq(s, 1, n) \in Seq(T) /\ s[n + 1] \in T
         /\ SubSeq(s, 1, n + 1) = Append(SubSeq(s, 1, n), s[n + 1])
<1>1. \A i \in 1 .. n : s[i] \in T
  BY LenProperties
<1>2. s[n + 1] \in T
  BY LenProperties
<1>3. SubSeq(s, 1, n) \in Seq(T)
  BY <1>1, SubSeqProperties
<1>4. n + 1 \in 1 .. Len(s) /\ n + 1 \in 1 .. n + 1 /\ (n + 1) - 1 = n
  OBVIOUS
<1>5. n + 1 \in 1 .. Len(s) /\ 1 \in 1 .. Len(s) /\ n + 1 \in 1 .. Len(s) /\ Len(s) \in Nat
  BY <1>4
<1>6. SubSeq(s, 1, n + 1) = SubSeq(s, 1, n) \o <<s[n + 1]>>
  BY <1>4, <1>5, SubSeqRecursiveSecond
<1> QED
  BY <1>2, <1>3, <1>6, AppendIsConcat

LEMMA Regrouped ==
  ASSUME NEW T, NEW p \in Seq(T), NEW q \in Seq(T), NEW o \in Seq(T)
  PROVE  (p \o q) \o o = p \o (q \o o)
BY ConcatAssociative

LEMMA KeptConcat ==
  ASSUME NEW T, NEW s \in Seq(T), NEW t \in Seq(T), NEW S
  PROVE  Kept(s \o t, S) = Kept(s, S) \o Kept(t, S)
<1> DEFINE B(n) == SubSeq(t, 1, n)
           K == {n \in Nat : n <= Len(t) => Kept(s \o B(n), S) = Kept(s, S) \o Kept(B(n), S)}
<1>0. Kept(s, S) \in Seq(T) /\ Len(t) \in Nat
  BY KeptType
<1>1. 0 \in K
  <2>1. B(0) = <<>>
    BY SubSeqEmpty
  <2>2. s \o <<>> = s /\ Kept(s, S) \o <<>> = Kept(s, S)
    BY <1>0, ConcatEmptySeq
  <2> QED
    BY <2>1, <2>2, KeptNothing
<1>2. ASSUME NEW n \in Nat, n \in K PROVE n + 1 \in K
  <2> SUFFICES ASSUME n + 1 <= Len(t)
               PROVE  Kept(s \o B(n + 1), S) = Kept(s, S) \o Kept(B(n + 1), S)
    OBVIOUS
  <2> DEFINE b == B(n)
             x == t[n + 1]
  <2>1. b \in Seq(T) /\ x \in T /\ B(n + 1) = Append(b, x)
    BY Beginnings
  <2>2. Kept(s \o b, S) = Kept(s, S) \o Kept(b, S)
    BY <1>2
  <2> HIDE DEF b, x, B
  <2>3. s \o Append(b, x) = Append(s \o b, x) /\ s \o b \in Seq(T)
    <3>1. s \o b \in Seq(T) /\ <<x>> \in Seq(T)
      BY <2>1, ConcatProperties
    <3>2. (s \o b) \o <<x>> = s \o (b \o <<x>>)
      BY <2>1, <3>1, ConcatAssociative
    <3> QED
      BY <2>1, <3>1, <3>2, AppendIsConcat
  <2>7. Kept(b, S) \in Seq(T) /\ One(x, S) \in Seq(T)
    BY <2>1, KeptType, OneType
  <2>4. Kept(s \o B(n + 1), S) = (Kept(s, S) \o Kept(b, S)) \o One(x, S)
    <3>1. Kept(Append(s \o b, x), S) = Kept(s \o b, S) \o One(x, S)
      BY <2>1, <2>3, KeptAppend
    <3> QED
      BY <2>1, <2>2, <2>3, <3>1
  <2>5. Kept(B(n + 1), S) = Kept(b, S) \o One(x, S)
    BY <2>1, KeptAppend
  <2>6. (Kept(s, S) \o Kept(b, S)) \o One(x, S) = Kept(s, S) \o (Kept(b, S) \o One(x, S))
    BY <1>0, <2>7, Regrouped
  <2> QED
    BY <2>4, <2>5, <2>6
<1>3. Kept(s \o B(Len(t)), S) = Kept(s, S) \o Kept(B(Len(t)), S)
  <2>1. Len(t) \in K
    <3> HIDE DEF K
    <3> QED
      BY <1>0, <1>1, <1>2, HandedOn
  <2> HIDE DEF B
  <2> QED
    BY <1>0, <2>1
<1>4. B(Len(t)) = t
  BY SubSeqFull
<1> HIDE DEF B, K
<1> QED
  BY <1>3, <1>4

(* Selecting twice.                                                        *)
LEMMA KeptTwice ==
  ASSUME NEW T, NEW s \in Seq(T), NEW S, NEW R
  PROVE  Kept(Kept(s, S), R) = Kept(s, S \cap R)
<1> DEFINE B(n) == SubSeq(s, 1, n)
           K == {n \in Nat : n <= Len(s) => Kept(Kept(B(n), S), R) = Kept(B(n), S \cap R)}
<1>0. Len(s) \in Nat
  OBVIOUS
<1>1. 0 \in K
  <2>1. B(0) = <<>>
    BY SubSeqEmpty
  <2> QED
    BY <2>1, KeptNothing
<1>2. ASSUME NEW n \in Nat, n \in K PROVE n + 1 \in K
  <2> SUFFICES ASSUME n + 1 <= Len(s)
               PROVE  Kept(Kept(B(n + 1), S), R) = Kept(B(n + 1), S \cap R)
    OBVIOUS
  <2> DEFINE b == B(n)
             x == s[n + 1]
  <2>1. b \in Seq(T) /\ x \in T /\ B(n + 1) = Append(b, x)
    BY Beginnings
  <2>2. Kept(Kept(b, S), R) = Kept(b, S \cap R)
    BY <1>2
  <2> HIDE DEF b, x, B
  <2>3. Kept(B(n + 1), S) = Kept(b, S) \o One(x, S)
    BY <2>1, KeptAppend
  <2>4. Kept(Kept(B(n + 1), S), R) = Kept(b, S \cap R) \o Kept(One(x, S), R)
    <3>1. Kept(b, S) \in Seq(T) /\ One(x, S) \in Seq(T)
      BY <2>1, KeptType, OneType
    <3>2. Kept(Kept(b, S) \o One(x, S), R) = Kept(Kept(b, S), R) \o Kept(One(x, S), R)
      BY <3>1, KeptConcat
    <3> QED
      BY <2>2, <2>3, <3>2
  <2>5. Kept(One(x, S), R) = One(x, S \cap R)
    <3>1. Kept(<<x>>, R) = One(x, R)
      <4>1. <<x>> = Append(<<>>, x) /\ <<>> \in Seq(T) /\ One(x, R) \in Seq(T)
        BY <2>1, OneType
      <4>2. Kept(<<x>>, R) = Kept(<<>>, R) \o One(x, R)
        BY <2>1, <4>1, KeptAppend
      <4> QED
        BY <4>1, <4>2, KeptNothing, ConcatEmptySeq
    <3> QED
      BY <3>1, KeptNothing DEF One
  <2>6. Kept(B(n + 1), S \cap R) = Kept(b, S \cap R) \o One(x, S \cap R)
    BY <2>1, KeptAppend
  <2> QED
    BY <2>4, <2>5, <2>6
<1>3. Kept(Kept(B(Len(s)), S), R) = Kept(B(Len(s)), S \cap R)
  <2>1. Len(s) \in K
    <3> HIDE DEF K
    <3> QED
      BY <1>0, <1>1, <1>2, HandedOn
  <2> HIDE DEF B
  <2> QED
    BY <1>0, <2>1
<1>4. B(Len(s)) = s
  BY SubSeqFull
<1> HIDE DEF B, K
<1> QED
  BY <1>3, <1>4

-----------------------------------------------------------------------------
(* Balances, their pages and their limit                                   *)

Currencies == {"XRP", "USD", "EUR"}
Counterparties == {"", "gate", "way"}
Record == [currency : Currencies, counterparty : Counterparties]

(* The lines of a ledger, each with a balance of its version; and a        *)
(* balance without its value.                                              *)
Priced(s, v) ==
  [i \in DOMAIN s |-> [currency |-> s[i].currency, counterparty |-> s[i].counterparty,
                       value |-> v]]
Bare(s) ==
  [i \in DOMAIN s |-> [currency |-> s[i].currency, counterparty |-> s[i].counterparty]]

Balance(v) == [currency : Currencies, counterparty : Counterparties, value : {v}]

LEMMA PricedFacts ==
  ASSUME NEW s \in Seq(Record), NEW v
  PROVE  /\ Priced(s, v) \in Seq(Balance(v))
         /\ Len(Priced(s, v)) = Len(s)
         /\ \A i \in 1 .. Len(s) :
              Priced(s, v)[i] = [currency |-> s[i].currency,
                                 counterparty |-> s[i].counterparty, value |-> v]
<1>1. DOMAIN s = 1 .. Len(s) /\ Len(s) \in Nat /\ \A i \in 1 .. Len(s) : s[i] \in Record
  BY LenProperties
<1> DEFINE e(i) == [currency |-> s[i].currency, counterparty |-> s[i].counterparty, value |-> v]
<1>2. \A i \in 1 .. Len(s) : e(i) \in Balance(v)
  BY <1>1 DEF Record, Balance
<1>3. Priced(s, v) = [i \in 1 .. Len(s) |-> e(i)]
  BY <1>1 DEF Priced
<1>4. Priced(s, v) \in [1 .. Len(s) -> Balance(v)]
  BY <1>2, <1>3
<1>5. Priced(s, v) \in Seq(Balance(v)) /\ Len(Priced(s, v)) = Len(s)
  BY <1>1, <1>4
<1> QED
  BY <1>3, <1>5

LEMMA BareFacts ==
  ASSUME NEW s \in Seq(Record), NEW v
  PROVE  /\ Bare(Priced(s, v)) = s
         /\ \A i \in DOMAIN Priced(s, v) : Priced(s, v)[i].value = v
<1> DEFINE p == Priced(s, v)
<1>1. /\ p \in Seq(Balance(v)) /\ Len(p) = Len(s)
      /\ \A i \in 1 .. Len(s) : p[i] = [currency |-> s[i].currency,
                                        counterparty |-> s[i].counterparty, value |-> v]
  BY PricedFacts
<1> HIDE DEF p
<1>2. /\ DOMAIN p = 1 .. Len(s) /\ Len(s) \in Nat
      /\ s \in [1 .. Len(s) -> Record]
      /\ \A i \in 1 .. Len(s) : s[i] \in Record
  BY <1>1, LenProperties
<1>3. \A i \in 1 .. Len(s) : /\ [currency |-> p[i].currency, counterparty |-> p[i].counterparty]
                                  = s[i]
                             /\ p[i].value = v
  BY <1>1, <1>2 DEF Record
<1>4. Bare(p) = s
  <2>1. Bare(p) = [i \in 1 .. Len(s) |->
                     [currency |-> p[i].currency, counterparty |-> p[i].counterparty]]
    BY <1>2 DEF Bare
  <2> QED
    BY <1>2, <1>3, <2>1
<1> QED
  BY <1>2, <1>3, <1>4 DEF p

LEMMA PricedConcat ==
  ASSUME NEW s \in Seq(Record), NEW t \in Seq(Record), NEW v
  PROVE  Priced(s, v) \o Priced(t, v) = Priced(s \o t, v)
<1> DEFINE B == Balance(v)
           a == Priced(s, v) \o Priced(t, v)
           b == Priced(s \o t, v)
<1>1. /\ Priced(s, v) \in Seq(B) /\ Len(Priced(s, v)) = Len(s)
      /\ Priced(t, v) \in Seq(B) /\ Len(Priced(t, v)) = Len(t)
      /\ Len(s) \in Nat /\ Len(t) \in Nat
  BY PricedFacts
<1>2. s \o t \in Seq(Record) /\ Len(s \o t) = Len(s) + Len(t)
      /\ \A i \in 1 .. Len(s) + Len(t) :
           (s \o t)[i] = IF i <= Len(s) THEN s[i] ELSE t[i - Len(s)]
  BY ConcatProperties
<1> DEFINE st == s \o t
<1>3. /\ b \in Seq(B) /\ Len(b) = Len(s) + Len(t)
      /\ \A i \in 1 .. Len(s) + Len(t) :
           b[i] = [currency |-> st[i].currency, counterparty |-> st[i].counterparty,
                   value |-> v]
  <2>1. st \in Seq(Record) /\ Len(st) = Len(s) + Len(t)
    BY <1>2
  <2> HIDE DEF st, B
  <2>2. /\ Priced(st, v) \in Seq(Balance(v)) /\ Len(Priced(st, v)) = Len(st)
        /\ \A i \in 1 .. Len(st) :
             Priced(st, v)[i] = [currency |-> st[i].currency,
                                 counterparty |-> st[i].counterparty, value |-> v]
    BY <2>1, PricedFacts
  <2> QED
    BY <2>1, <2>2 DEF st, B
<1>4. a \in Seq(B) /\ Len(a) = Len(s) + Len(t)
      /\ \A i \in 1 .. Len(s) + Len(t) :
           a[i] = IF i <= Len(s) THEN Priced(s, v)[i] ELSE Priced(t, v)[i - Len(s)]
  <2> DEFINE p == Priced(s, v)
             q == Priced(t, v)
  <2>1. /\ p \in Seq(B) /\ q \in Seq(B) /\ Len(p) = Len(s) /\ Len(q) = Len(t)
    BY <1>1
  <2> HIDE DEF B, p, q
  <2>2. /\ p \o q \in Seq(B) /\ Len(p \o q) = Len(p) + Len(q)
        /\ \A i \in 1 .. Len(p) + Len(q) :
             (p \o q)[i] = IF i <= Len(p) THEN p[i] ELSE q[i - Len(p)]
    BY <2>1, ConcatProperties
  <2> QED
    BY <2>1, <2>2 DEF p, q
<1>6. /\ \A i \in 1 .. Len(s) :
           Priced(s, v)[i] = [currency |-> s[i].currency,
                              counterparty |-> s[i].counterparty, value |-> v]
      /\ \A i \in 1 .. Len(t) :
           Priced(t, v)[i] = [currency |-> t[i].currency,
                              counterparty |-> t[i].counterparty, value |-> v]
  BY PricedFacts
<1>5. ASSUME NEW i \in 1 .. Len(s) + Len(t) PROVE a[i] = b[i]
  <2>0. st[i] = IF i <= Len(s) THEN s[i] ELSE t[i - Len(s)]
    BY <1>2
  <2> HIDE DEF a, b, st
  <2>1. CASE i <= Len(s)
    <3>1. i \in 1 .. Len(s)
      BY <1>1, <2>1
    <3> QED
      BY <1>3, <1>4, <1>6, <2>0, <2>1, <3>1
  <2>2. CASE ~(i <= Len(s))
    <3>1. i - Len(s) \in 1 .. Len(t)
      BY <1>1, <2>2
    <3> QED
      BY <1>3, <1>4, <1>6, <2>0, <2>2, <3>1
  <2> QED
    BY <2>1, <2>2
<1> HIDE DEF a, b, B
<1>7. a = b
  BY <1>3, <1>4, <1>5, SeqEqual
<1> QED
  BY <1>7 DEF a, b

LEMMA PricedSubSeq ==
  ASSUME NEW s \in Seq(Record), NEW n \in 0 .. Len(s), NEW v
  PROVE  SubSeq(Priced(s, v), 1, n) = Priced(SubSeq(s, 1, n), v)
<1> DEFINE B == Balance(v)
           p == Priced(s, v)
           a == SubSeq(p, 1, n)
           t == SubSeq(s, 1, n)
           b == Priced(t, v)
<1>1. /\ p \in Seq(B) /\ Len(p) = Len(s) /\ Len(s) \in Nat
      /\ \A i \in 1 .. Len(s) : p[i] = [currency |-> s[i].currency,
                                        counterparty |-> s[i].counterparty, value |-> v]
  BY PricedFacts
<1> HIDE DEF p, B
<1>2. \A i \in 1 .. n : p[i] \in B /\ s[i] \in Record
  BY <1>1, LenProperties
<1>3. a \in Seq(B) /\ Len(a) = n /\ \A i \in 1 .. n : a[i] = p[i]
  BY <1>2, SubSeqProperties
<1>4. t \in Seq(Record) /\ Len(t) = n /\ \A i \in 1 .. n : t[i] = s[i]
  BY <1>2, SubSeqProperties
<1> HIDE DEF t, a
<1>5. b \in Seq(B) /\ Len(b) = n
      /\ \A i \in 1 .. n : b[i] = [currency |-> t[i].currency,
                                   counterparty |-> t[i].counterparty, value |-> v]
  BY <1>4, PricedFacts DEF B
<1> HIDE DEF b
<1>6. \A i \in 1 .. n : a[i] = b[i]
  BY <1>1, <1>3, <1>4, <1>5
<1>7. a = b
  BY <1>3, <1>5, <1>6, SeqEqual
<1> QED
  BY <1>7 DEF a, b, t, p

(* At most as many as a limit, of a sequence and of one that goes on.      *)
First(limit, s) == SubSeq(s, 1, Limited(limit, Len(s)))

LEMMA LimitedFacts ==
  ASSUME NEW limit \in Nat, NEW n \in Nat
  PROVE  /\ Limited(limit, n) \in 0 .. n
         /\ limit = 0 \/ n < limit => Limited(limit, n) = n
         /\ ~(limit = 0 \/ n < limit) => Limited(limit, n) = limit
BY DEF Limited

LEMMA FirstType ==
  ASSUME NEW T, NEW limit \in Nat, NEW s \in Seq(T)
  PROVE  /\ First(limit, s) \in Seq(T) /\ Len(First(limit, s)) = Limited(limit, Len(s))
         /\ \A i \in 1 .. Limited(limit, Len(s)) : First(limit, s)[i] = s[i]
         /\ Limited(limit, Len(s)) = Len(s) => First(limit, s) = s
<1> DEFINE n == Limited(limit, Len(s))
<1>0. Len(s) \in Nat
  OBVIOUS
<1>1. Len(s) \in Nat /\ n \in 0 .. Len(s)
  BY <1>0, LimitedFacts
<1> HIDE DEF n
<1>2. \A i \in 1 .. n : s[i] \in T
  BY <1>1, LenProperties
<1>3. /\ SubSeq(s, 1, n) \in Seq(T) /\ Len(SubSeq(s, 1, n)) = n
      /\ \A i \in 1 .. n : SubSeq(s, 1, n)[i] = s[i]
  BY <1>1, <1>2, SubSeqProperties
<1>4. n = Len(s) => SubSeq(s, 1, n) = s
  BY SubSeqFull
<1> QED
  BY <1>3, <1>4 DEF First, n

LEMMA FirstOfMore ==
  ASSUME NEW T, NEW limit \in Nat \ {0}, NEW s \in Seq(T), NEW t \in Seq(T), Len(s) >= limit
  PROVE  First(limit, s) = First(limit, s \o t)
<1> DEFINE st == s \o t
<1>1. /\ st \in Seq(T) /\ Len(st) = Len(s) + Len(t) /\ Len(s) \in Nat /\ Len(t) \in Nat
      /\ \A i \in 1 .. Len(s) + Len(t) : st[i] = IF i <= Len(s) THEN s[i] ELSE t[i - Len(s)]
  BY ConcatProperties
<1> HIDE DEF st
<1>2. Limited(limit, Len(s)) = limit /\ Limited(limit, Len(st)) = limit
  BY <1>1 DEF Limited
<1>3. /\ First(limit, s) \in Seq(T) /\ Len(First(limit, s)) = limit
      /\ First(limit, st) \in Seq(T) /\ Len(First(limit, st)) = limit
      /\ \A i \in 1 .. limit : First(limit, s)[i] = s[i] /\ First(limit, st)[i] = st[i]
  <2>1. /\ First(limit, s) \in Seq(T) /\ Len(First(limit, s)) = limit
        /\ \A i \in 1 .. limit : First(limit, s)[i] = s[i]
    BY <1>2, FirstType
  <2>2. /\ First(limit, st) \in Seq(T) /\ Len(First(limit, st)) = limit
        /\ \A i \in 1 .. limit : First(limit, st)[i] = st[i]
    <3>1. st \in Seq(T) /\ limit \in Nat /\ Limited(limit, Len(st)) = limit
      BY <1>1, <1>2
    <3>2. /\ First(limit, st) \in Seq(T) /\ Len(First(limit, st)) = Limited(limit, Len(st))
          /\ \A i \in 1 .. Limited(limit, Len(st)) : First(limit, st)[i] = st[i]
      BY <3>1, FirstType, Zenon
    <3> QED
      BY <3>1, <3>2
  <2> QED
    BY <2>1, <2>2
<1>4. \A i \in 1 .. limit : st[i] = s[i]
  BY <1>1
<1>5. First(limit, s) = First(limit, st)
  BY <1>3, <1>4, SeqEqual
<1> QED
  BY <1>5 DEF st

(* A limit on a part and on the whole is one on the whole.                 *)
LEMMA FirstTwice ==
  ASSUME NEW T, NEW limit \in Nat, NEW s \in Seq(T), NEW t \in Seq(T)
  PROVE  First(limit, s \o First(limit, t)) = First(limit, s \o t)
<1> DEFINE l == Limited(limit, Len(t))
           f == First(limit, t)
           a == s \o f
           b == s \o t
<1>0. Len(s) \in Nat /\ Len(t) \in Nat
  OBVIOUS
<1>1. /\ f \in Seq(T) /\ Len(f) = l /\ l \in 0 .. Len(t)
      /\ \A i \in 1 .. l : f[i] = t[i]
      /\ l = Len(t) => f = t
  <2>1. l \in 0 .. Len(t)
    BY <1>0, LimitedFacts
  <2>2. /\ f \in Seq(T) /\ Len(f) = l
        /\ \A i \in 1 .. l : f[i] = t[i]
        /\ l = Len(t) => f = t
    BY FirstType, Zenon
  <2> QED
    BY <2>1, <2>2
<1>2. limit = 0 \/ Len(t) < limit => l = Len(t)
  BY <1>0, LimitedFacts
<1>3. ~(limit = 0 \/ Len(t) < limit) => l = limit
  BY <1>0, LimitedFacts
<1> HIDE DEF f, l
<1>4. CASE limit = 0 \/ Len(t) < limit
  BY <1>1, <1>2, <1>4 DEF f
<1>5. CASE ~(limit = 0 \/ Len(t) < limit)
  <2>1. l = limit /\ limit \in Nat \ {0} /\ Len(t) >= limit
    BY <1>0, <1>3, <1>5
  <2>2. /\ a \in Seq(T) /\ Len(a) = Len(s) + limit
        /\ \A i \in 1 .. Len(s) + limit : a[i] = IF i <= Len(s) THEN s[i] ELSE f[i - Len(s)]
    <3>1. f \in Seq(T) /\ Len(f) = limit
      BY <1>1, <2>1
    <3>2. /\ s \o f \in Seq(T) /\ Len(s \o f) = Len(s) + Len(f)
          /\ \A i \in 1 .. Len(s) + Len(f) :
               (s \o f)[i] = IF i <= Len(s) THEN s[i] ELSE f[i - Len(s)]
      BY <3>1, ConcatProperties
    <3> QED
      BY <3>1, <3>2
  <2>3. /\ b \in Seq(T) /\ Len(b) = Len(s) + Len(t)
        /\ \A i \in 1 .. Len(s) + Len(t) : b[i] = IF i <= Len(s) THEN s[i] ELSE t[i - Len(s)]
    BY ConcatProperties
  <2> HIDE DEF a, b
  <2>4. \A i \in 1 .. limit : a[i] = b[i]
    <3> SUFFICES ASSUME NEW i \in 1 .. limit PROVE a[i] = b[i]
      OBVIOUS
    <3>1. i \in 1 .. Len(s) + limit /\ i \in 1 .. Len(s) + Len(t)
      BY <1>0, <2>1
    <3>2. ~(i <= Len(s)) => i - Len(s) \in 1 .. limit
      BY <1>0, <2>1
    <3> QED
      BY <1>1, <2>1, <2>2, <2>3, <3>1, <3>2
  <2>5. Limited(limit, Len(a)) = limit /\ Limited(limit, Len(b)) = limit
    BY <1>0, <2>1, <2>2, <2>3 DEF Limited
  <2>6. /\ First(limit, a) \in Seq(T) /\ Len(First(limit, a)) = limit
        /\ \A i \in 1 .. limit : First(limit, a)[i] = a[i]
    BY <2>2, <2>5, FirstType
  <2>7. /\ First(limit, b) \in Seq(T) /\ Len(First(limit, b)) = limit
        /\ \A i \in 1 .. limit : First(limit, b)[i] = b[i]
    BY <2>3, <2>5, FirstType
  <2>8. First(limit, a) = First(limit, b)
    BY <2>4, <2>6, <2>7, SeqEqual
  <2> QED
    BY <2>8 DEF a, b, f
<1> QED
  BY <1>4, <1>5

Passing(options) == {l \in ToSet(Lines) : currencyFilter(options.currency, l)}

(* The trust lines of the first n that pass the filter of currencies.      *)
Beginning(options, n) == Kept(SubSeq(LinesOf(options), 1, n), Passing(options))
Selected(options) == Beginning(options, Len(LinesOf(options)))

PageEnd(options, from) ==
  IF from + PageSize > Len(LinesOf(options)) THEN Len(LinesOf(options)) ELSE from + PageSize - 1

LEMMA LinesTyped ==
  /\ Lines \in Seq(Record)
  /\ \A options : LinesOf(options) \in Seq(Record) /\ Len(LinesOf(options)) \in Nat
<1>1. Lines \in Seq(Record)
  <2>1. /\ [currency |-> "USD", counterparty |-> "gate"] \in Record
        /\ [currency |-> "EUR", counterparty |-> "gate"] \in Record
        /\ [currency |-> "USD", counterparty |-> "way"] \in Record
    BY DEF Record, Currencies, Counterparties
  <2>2. \A a, b, c \in Record : <<a, b, c>> \in Seq(Record)
    OBVIOUS
  <2> QED
    BY <2>1, <2>2, Zenon DEF Lines
<1>2. ASSUME NEW options PROVE LinesOf(options) \in Seq(Record)
  BY <1>1, KeptType DEF LinesOf
<1>3. \A s \in Seq(Record) : Len(s) \in Nat
  OBVIOUS
<1> QED
  BY <1>1, <1>2, <1>3

LEMMA KeptOfRecords ==
  \A s, t \in Seq(Record) : \A S : Kept(s \o t, S) = Kept(s, S) \o Kept(t, S)
BY KeptConcat

LEMMA BeginningType ==
  ASSUME NEW options, NEW n \in 0 .. Len(LinesOf(options))
  PROVE  /\ SubSeq(LinesOf(options), 1, n) \in Seq(Record)
         /\ Beginning(options, n) \in Seq(Record)
         /\ Len(Beginning(options, n)) \in Nat
<1> DEFINE s == LinesOf(options)
           B == SubSeq(s, 1, n)
<1>1. s \in Seq(Record) /\ Len(s) \in Nat /\ n \in 0 .. Len(s)
  BY LinesTyped
<1> HIDE DEF s
<1>2. \A i \in 1 .. n : s[i] \in Record
  BY <1>1, LenProperties
<1>3. B \in Seq(Record)
  BY <1>1, <1>2, SubSeqProperties
<1>4. Kept(B, Passing(options)) \in Seq(Record)
  <2> HIDE DEF B
  <2> QED
    BY <1>3, KeptType
<1>5. \A t \in Seq(Record) : Len(t) \in Nat
  OBVIOUS
<1> QED
  BY <1>3, <1>4, <1>5, Zenon DEF Beginning, s

(* All of them are those that both filters select.                         *)
LEMMA SelectedIs ==
  \A options :
    Selected(options) = Kept(Lines, {l \in ToSet(Lines) : peerFilter(options.counterparty, l)
                                                          /\ currencyFilter(options.currency, l)})
<1> SUFFICES ASSUME NEW options
             PROVE  Selected(options) = Kept(Lines, {l \in ToSet(Lines) :
                      peerFilter(options.counterparty, l) /\ currencyFilter(options.currency, l)})
  OBVIOUS
<1> DEFINE P == {l \in ToSet(Lines) : peerFilter(options.counterparty, l)}
           C == Passing(options)
<1>1. SubSeq(LinesOf(options), 1, Len(LinesOf(options))) = LinesOf(options)
  BY LinesTyped, SubSeqFull
<1>2. Selected(options) = Kept(Kept(Lines, P), C)
  BY <1>1 DEF Selected, Beginning, LinesOf
<1>3. Kept(Kept(Lines, P), C) = Kept(Lines, P \cap C)
  <2> HIDE DEF P, C
  <2> QED
    BY LinesTyped, KeptTwice
<1>4. P \cap C = {l \in ToSet(Lines) : peerFilter(options.counterparty, l)
                                       /\ currencyFilter(options.currency, l)}
  BY DEF Passing
<1> QED
  BY <1>2, <1>3, <1>4

(* A page goes on where the one before ended.                              *)
LEMMA PageGoesOn ==
  ASSUME NEW options, NEW v, NEW from \in 1 .. Len(LinesOf(options)) + 1,
         PageSize \in Nat \ {0}
  PROVE  /\ PageEnd(options, from) \in from - 1 .. Len(LinesOf(options))
         /\ PageEnd(options, from) \in 0 .. Len(LinesOf(options))
         /\ from - 1 \in 0 .. Len(LinesOf(options))
         /\ Priced(Beginning(options, from - 1), v) \o Page(options, from, v)
              = Priced(Beginning(options, PageEnd(options, from)), v)
<1> DEFINE s == LinesOf(options)
           e == PageEnd(options, from)
           C == Passing(options)
           a == SubSeq(s, 1, from - 1)
           p == SubSeq(s, from, e)
<1>1. s \in Seq(Record) /\ Len(s) \in Nat /\ from \in 1 .. Len(s) + 1
  BY LinesTyped
<1>2. e = IF from + PageSize > Len(s) THEN Len(s) ELSE from + PageSize - 1
  BY DEF PageEnd
<1>3. Page(options, from, v) = Priced(Kept(p, C), v)
  BY <1>2 DEF Page, Priced, Passing
<1>7. Beginning(options, from - 1) = Kept(a, C) /\ Beginning(options, e) = Kept(SubSeq(s, 1, e), C)
  BY DEF Beginning
<1> HIDE DEF s, e, C
<1>4. e \in from - 1 .. Len(s) /\ e \in 0 .. Len(s) /\ from - 1 \in 0 .. Len(s) /\ e \in Nat /\ from \in Nat
  BY <1>1, <1>2
<1>5. a \in Seq(Record) /\ p \in Seq(Record) /\ a \o p = SubSeq(s, 1, e)
  <2>1. \A i \in 1 .. Len(s) : s[i] \in Record
    BY <1>1, LenProperties
  <2>2. a \in Seq(Record)
    <3>1. \A i \in 1 .. from - 1 : s[i] \in Record
      BY <1>1, <2>1
    <3> QED
      BY <1>1, <3>1, SubSeqProperties
  <2>3. p \in Seq(Record)
    <3>1. \A i \in from .. e : s[i] \in Record
      BY <1>1, <1>4, <2>1
    <3> QED
      BY <1>4, <3>1, SubSeqProperties
  <2>4. a \o p = SubSeq(s, 1, e)
    <3>1. CASE e = 0
      <4>1. from = 1
        BY <1>4, <3>1
      <4>2. a = <<>> /\ p = <<>> /\ SubSeq(s, 1, e) = <<>>
        BY <3>1, <4>1, SubSeqEmpty
      <4>3. <<>> \o <<>> = <<>>
        OBVIOUS
      <4> QED
        BY <4>2, <4>3, Zenon
    <3>2. CASE e # 0
      <4>1. CASE from - 1 = 0
        <5>1. a = <<>> /\ p = SubSeq(s, 1, e)
          <6>1. from = 1
            BY <1>4, <4>1
          <6> QED
            BY <4>1, <6>1, SubSeqEmpty
        <5> QED
          BY <2>3, <5>1, ConcatEmptySeq
      <4>2. CASE from - 1 = e
        <5>1. p = <<>> /\ a = SubSeq(s, 1, e)
          BY <1>1, <1>4, <4>2, SubSeqEmpty
        <5> QED
          BY <2>2, <5>1, ConcatEmptySeq
      <4>3. CASE from - 1 # 0 /\ from - 1 # e
        <5>1. /\ 1 \in 1 .. Len(s) + 1 /\ from - 1 \in 1 - 1 .. Len(s) /\ e \in from - 1 .. Len(s)
              /\ (from - 1) + 1 = from
          BY <1>1, <1>4
        <5>2. SubSeq(s, 1, from - 1) \o SubSeq(s, (from - 1) + 1, e) = SubSeq(s, 1, e)
          BY <1>1, <5>1, ConcatAdjacentSubSeq
        <5> QED
          BY <5>1, <5>2
      <4> QED
        BY <4>1, <4>2, <4>3
    <3> QED
      BY <3>1, <3>2
  <2> QED
    BY <2>2, <2>3, <2>4
<1> HIDE DEF a, p
<1>6. Priced(Kept(a, C), v) \o Priced(Kept(p, C), v) = Priced(Kept(SubSeq(s, 1, e), C), v)
  <2>1. Kept(a, C) \in Seq(Record) /\ Kept(p, C) \in Seq(Record)
    BY <1>5, KeptType
  <2>2. Kept(a, C) \o Kept(p, C) = Kept(a \o p, C)
    BY <1>5, KeptOfRecords, Zenon
  <2>3. Priced(Kept(a, C), v) \o Priced(Kept(p, C), v) = Priced(Kept(a, C) \o Kept(p, C), v)
    BY <2>1, PricedConcat, Zenon
  <2> QED
    BY <1>5, <2>2, <2>3
<1>8. Priced(Beginning(options, from - 1), v) \o Page(options, from, v)
              = Priced(Beginning(options, e), v)
  BY <1>3, <1>6, <1>7
<1> QED
  BY <1>4, <1>8 DEF s, e

(* With as many as the limit, those that follow do not matter.             *)
LEMMA EnoughIsEnough ==
  ASSUME NEW options, NEW limit \in Nat \ {0}, NEW n \in 0 .. Len(LinesOf(options)),
         Len(Beginning(options, n)) >= limit
  PROVE  First(limit, Beginning(options, n)) = First(limit, Selected(options))
<1> DEFINE s == LinesOf(options)
           N == Len(s)
           C == Passing(options)
           a == SubSeq(s, 1, n)
           r == SubSeq(s, n + 1, N)
<1>1. s \in Seq(Record) /\ N \in Nat /\ n \in 0 .. N
  BY LinesTyped
<1>2. /\ Beginning(options, n) = Kept(a, C) /\ Selected(options) = Kept(SubSeq(s, 1, N), C)
      /\ a \in Seq(Record) /\ Kept(a, C) \in Seq(Record)
  BY BeginningType, Zenon DEF Beginning, Selected
<1> HIDE DEF s, C
<1>3. r \in Seq(Record)
  <2>1. \A i \in n + 1 .. N : s[i] \in Record
    BY <1>1, LenProperties
  <2> QED
    BY <1>1, <2>1, SubSeqProperties
<1>4. a \o r = SubSeq(s, 1, N)
  <2>1. 1 \in 1 .. N + 1 /\ n \in 1 - 1 .. N /\ N \in n .. N
    BY <1>1
  <2> QED
    BY <1>1, <2>1, ConcatAdjacentSubSeq
<1> HIDE DEF a, r, N
<1>5. Kept(a, C) \o Kept(r, C) = Kept(SubSeq(s, 1, N), C) /\ Kept(r, C) \in Seq(Record)
  <2>1. Kept(a \o r, C) = Kept(a, C) \o Kept(r, C) /\ Kept(r, C) \in Seq(Record)
    BY <1>2, <1>3, KeptOfRecords, KeptType, Zenon
  <2> QED
    BY <1>4, <2>1
<1> DEFINE x == Kept(a, C)
           y == Kept(r, C)
<1>6. x \in Seq(Record) /\ y \in Seq(Record) /\ Len(x) >= limit
  BY <1>2, <1>5
<1> HIDE DEF x, y
<1>7. First(limit, x) = First(limit, x \o y)
  BY <1>6, FirstOfMore
<1> QED
  BY <1>2, <1>5, <1>7 DEF x, y

XRP == [currency |-> "XRP", counterparty |-> ""]
XrpOf(options) ==
  IF options.counterparty = "" /\ options.currency \in {"", "XRP"} THEN <<XRP>> ELSE <<>>
Wanted(method, options) ==
  XrpOf(options) \o IF method = "getBalances" THEN Selected(options) ELSE <<>>
Shown(method, options) == First(options.limit, Wanted(method, options))

LEMMA XrpTyped == \A options : XrpOf(options) \in Seq(Record)
<1>1. XRP \in Record
  BY DEF XRP, Record, Currencies, Counterparties
<1>2. <<XRP>> \in Seq(Record) /\ <<>> \in Seq(Record)
  BY <1>1
<1> QED
  BY <1>2, Zenon DEF XrpOf

LEMMA SelectedTyped == \A options : Selected(options) \in Seq(Record)
<1> SUFFICES ASSUME NEW options PROVE Selected(options) \in Seq(Record)
  OBVIOUS
<1>1. Len(LinesOf(options)) \in 0 .. Len(LinesOf(options))
  BY LinesTyped
<1> QED
  BY <1>1, BeginningType, Zenon DEF Selected

LEMMA WantedTyped == \A method, options : Wanted(method, options) \in Seq(Record)
<1> SUFFICES ASSUME NEW method, NEW options PROVE Wanted(method, options) \in Seq(Record)
  OBVIOUS
<1> DEFINE rest == IF method = "getBalances" THEN Selected(options) ELSE <<>>
<1>1. rest \in Seq(Record)
  <2>1. <<>> \in Seq(Record)
    OBVIOUS
  <2> QED
    BY <2>1, SelectedTyped
<1> HIDE DEF rest
<1>2. XrpOf(options) \o rest \in Seq(Record)
  BY <1>1, XrpTyped, ConcatProperties
<1> QED
  BY <1>2 DEF Wanted, rest

LEMMA PricedXrp ==
  \A options, v :
    Priced(XrpOf(options), v)
      = IF options.counterparty = "" /\ options.currency \in {"", "XRP"}
        THEN <<[currency |-> "XRP", counterparty |-> "", value |-> v]>> ELSE <<>>
<1> SUFFICES ASSUME NEW options, NEW v
             PROVE  Priced(XrpOf(options), v)
                      = IF options.counterparty = "" /\ options.currency \in {"", "XRP"}
                        THEN <<[currency |-> "XRP", counterparty |-> "", value |-> v]>> ELSE <<>>
  OBVIOUS
<1> DEFINE x == [currency |-> "XRP", counterparty |-> "", value |-> v]
<1>1. Priced(<<XRP>>, v) = <<x>>
  <2>1. XRP \in Record /\ <<XRP>> \in Seq(Record) /\ Len(<<XRP>>) = 1 /\ <<XRP>>[1] = XRP
    BY DEF XRP, Record, Currencies, Counterparties
  <2>2. /\ Priced(<<XRP>>, v) \in Seq(Balance(v)) /\ Len(Priced(<<XRP>>, v)) = 1
        /\ Priced(<<XRP>>, v)[1] = [currency |-> XRP.currency,
                                    counterparty |-> XRP.counterparty, value |-> v]
    <3> DEFINE s == <<XRP>>
    <3>1. s \in Seq(Record) /\ Len(s) = 1 /\ s[1] = XRP
      BY <2>1
    <3> HIDE DEF s
    <3>2. /\ Priced(s, v) \in Seq(Balance(v)) /\ Len(Priced(s, v)) = Len(s)
          /\ \A i \in 1 .. Len(s) :
               Priced(s, v)[i] = [currency |-> s[i].currency,
                                  counterparty |-> s[i].counterparty, value |-> v]
      BY <3>1, PricedFacts
    <3>3. 1 \in 1 .. Len(s)
      BY <3>1
    <3> QED
      BY <3>1, <3>2, <3>3 DEF s
  <2>3. Priced(<<XRP>>, v)[1] = x
    BY <2>2 DEF XRP
  <2>4. x \in Balance(v)
    BY DEF Balance, Currencies, Counterparties
  <2> HIDE DEF x
  <2>5. <<x>> \in Seq(Balance(v)) /\ Len(<<x>>) = 1 /\ <<x>>[1] = x
    BY <2>4
  <2> DEFINE p == Priced(<<XRP>>, v)
             q == <<x>>
  <2>6. p \in Seq(Balance(v)) /\ q \in Seq(Balance(v)) /\ Len(p) = 1 /\ Len(q) = 1 /\ p[1] = q[1]
    BY <2>2, <2>3, <2>5
  <2> HIDE DEF p, q
  <2>7. p = q
    BY <2>6, SeqEqual
  <2> QED
    BY <2>7 DEF p, q
<1>2. Priced(<<>>, v) = <<>>
  BY DEF Priced
<1> QED
  BY <1>1, <1>2 DEF XrpOf

(* The limit on the trust lines and the one on the balances are one.       *)
LEMMA BalancesShown ==
  ASSUME NEW options, options.limit \in Nat, NEW v
  PROVE  formatBalances(options, v, Priced(First(options.limit, Selected(options)), v))
           = Priced(Shown("getBalances", options), v)
<1> DEFINE limit == options.limit
           s == XrpOf(options)
           w == Selected(options)
           f == First(limit, w)
           a == s \o f
<1>1. s \in Seq(Record) /\ w \in Seq(Record) /\ limit \in Nat
  BY XrpTyped, SelectedTyped
<1>2. f \in Seq(Record)
  <2> HIDE DEF w, limit
  <2> QED
    BY <1>1, FirstType
<1>3. formatBalances(options, v, Priced(f, v))
        = First(limit, Priced(s, v) \o Priced(f, v))
  <2> HIDE DEF w, f
  <2> QED
    BY PricedXrp, Zenon DEF formatBalances, First
<1>4. First(limit, s \o f) = First(limit, s \o w)
  <2> HIDE DEF w, limit, s
  <2> QED
    BY <1>1, FirstTwice
<1>5. Shown("getBalances", options) = First(limit, s \o w)
  BY DEF Shown, Wanted
<1> HIDE DEF f, s, w, limit
<1>6. Priced(s, v) \o Priced(f, v) = Priced(a, v)
  BY <1>1, <1>2, PricedConcat
<1>7. a \in Seq(Record)
  BY <1>1, <1>2, ConcatProperties
<1> HIDE DEF a
<1>8. First(limit, Priced(a, v)) = Priced(First(limit, a), v)
  <2>1. Len(Priced(a, v)) = Len(a) /\ Len(a) \in Nat
    BY <1>7, PricedFacts
  <2>2. Limited(limit, Len(a)) \in 0 .. Len(a)
    BY <1>1, <2>1, LimitedFacts
  <2>3. SubSeq(Priced(a, v), 1, Limited(limit, Len(a)))
          = Priced(SubSeq(a, 1, Limited(limit, Len(a))), v)
    BY <1>7, <2>2, PricedSubSeq
  <2> QED
    BY <2>1, <2>3 DEF First
<1> QED
  BY <1>3, <1>4, <1>5, <1>6, <1>8 DEF a, f, w, limit

(* The one answer of the other methods.                                    *)
LEMMA SheetShown ==
  ASSUME NEW method, method # "getBalances", NEW options, NEW v,
         options.limit = 0, options.counterparty = "", options.currency = ""
  PROVE  <<[currency |-> "XRP", counterparty |-> "", value |-> v]>>
           = Priced(Shown(method, options), v)
<1> DEFINE s == XrpOf(options)
<1>1. s \in Seq(Record)
  BY XrpTyped
<1>2. s \o <<>> = s
  BY <1>1, ConcatEmptySeq
<1>3. Wanted(method, options) = s
  BY <1>2 DEF Wanted
<1>4. Limited(0, Len(s)) = Len(s) /\ First(0, s) = s
  <2> HIDE DEF s
  <2>1. Limited(0, Len(s)) = Len(s)
    BY DEF Limited
  <2>2. 0 \in Nat
    OBVIOUS
  <2>3. Limited(0, Len(s)) = Len(s) => First(0, s) = s
    BY <1>1, <2>2, FirstType, Zenon
  <2> QED
    BY <2>1, <2>3
<1>5. Shown(method, options) = s
  BY <1>3, <1>4 DEF Shown
<1> QED
  BY <1>5, PricedXrp

-----------------------------------------------------------------------------
(* What an api has done for a call                                         *)

(* The ledger that a call c asks server s for, which has n of them; and    *)
(* what may be answered.                                                   *)
AskedFor(c, s) ==
  IF c.method = "getAccountInfo" /\ c.options.ledgerVersion = 0 THEN VALIDATED
  ELSE IF c.options.ledgerVersion # 0 THEN c.options.ledgerVersion ELSE c.since[s]
Good(c, n, s, v) ==
  /\ v \in 1 .. n
  /\ IF c.options.ledgerVersion # 0 THEN v = c.options.ledgerVersion ELSE v >= c.since[s]

IsCall(c) ==
  /\ c # None
  /\ c.method \in Methods /\ c.options \in OptionsOf(c.method)
  /\ c.since \in [Servers -> Nat]

IsPart(p) == DOMAIN p = {"status", "version", "answer"}
IsJob(j) ==
  /\ DOMAIN j = {"xrp", "lines", "got"}
  /\ IsPart(j.xrp) /\ IsPart(j.lines)

PartOk(c, n, s, p) ==
  /\ p.version = AskedFor(c, s)
  /\ p.status \in {"sent", "done"} /\ AskedFor(c, s) # VALIDATED
       => AskedFor(c, s) \in 1 .. n
  /\ p.status = "failed" => IsError(p.answer)

XrpOk(c, n, s, p) ==
  /\ PartOk(c, n, s, p)
  /\ p.status = "done" => /\ Good(c, n, s, p.answer.value)
                          /\ AskedFor(c, s) # VALIDATED => p.answer.value = AskedFor(c, s)

From(p) == IF p.answer = None THEN 1 ELSE p.answer.marker
LinesOk(c, n, s, j) ==
  IF c.method # "getBalances" THEN j.lines.status = "idle"
  ELSE /\ j.lines.status # "idle"
       /\ PartOk(c, n, s, j.lines)
       /\ j.lines.status \in {"sent", "waiting"} =>
            /\ From(j.lines) \in 1 .. Len(LinesOf(c.options)) + 1
            /\ j.got = Priced(Beginning(c.options, From(j.lines) - 1), AskedFor(c, s))
       /\ j.lines.status = "done" =>
            j.got = Priced(First(c.options.limit, Selected(c.options)), AskedFor(c, s))

JobOk(c, n, s, j) == IsJob(j) /\ XrpOk(c, n, s, j.xrp) /\ LinesOk(c, n, s, j)

Answered(c, n, s, result) ==
  IsError(result)
    \/ \E v : Good(c, n, s, v) /\ result.value = Priced(Shown(c.method, c.options), v)

LEMMA NotNone ==
  /\ \A a, b : [by |-> a, result |-> b] # None
  /\ \A a, b, d, e : [method |-> a, options |-> b, since |-> d, ready |-> e] # None
  /\ \A a : [marker |-> a] # None
BY DEF None

LEMMA OptionsTyped ==
  ASSUME NEW c, IsCall(c)
  PROVE  /\ c.options.limit \in Nat /\ c.options.ledgerVersion \in Nat
         /\ c.method # "getBalances" =>
              c.options.limit = 0 /\ c.options.counterparty = "" /\ c.options.currency = ""
         /\ c.method \in {"getBalances", "getBalanceSheet", "getAccountInfo"}
         /\ c.options \in Options
<1>1. c.options \in Options
  BY DEF IsCall, OptionsOf
<1>2. c.options.limit \in {0, 2} /\ c.options.ledgerVersion \in {0, 2}
  BY <1>1 DEF Options
<1>3. 0 \in Nat /\ 2 \in Nat
  OBVIOUS
<1>4. c.options.limit \in Nat /\ c.options.ledgerVersion \in Nat
  BY <1>2, <1>3
<1>5. c.method # "getBalances" =>
        c.options.limit = 0 /\ c.options.counterparty = "" /\ c.options.currency = ""
  BY Zenon DEF IsCall, OptionsOf
<1> QED
  BY <1>1, <1>4, <1>5, Zenon DEF IsCall, Methods

LEMMA AskedTyped ==
  ASSUME NEW c, IsCall(c), NEW s \in Servers
  PROVE  /\ AskedFor(c, s) \in Int
         /\ c.method = "getBalances" => AskedFor(c, s) # VALIDATED
         /\ AskedFor(c, s) # VALIDATED =>
              IF c.options.ledgerVersion # 0 THEN AskedFor(c, s) = c.options.ledgerVersion
              ELSE AskedFor(c, s) = c.since[s]
<1>1. c.since[s] \in Nat /\ c.options.ledgerVersion \in Nat
  BY OptionsTyped DEF IsCall
<1> QED
  BY <1>1 DEF AskedFor, VALIDATED

(* A server that has more ledgers still has those it had.                  *)
LEMMA MoreLedgers ==
  ASSUME NEW c, IsCall(c), NEW s \in Servers, NEW n \in Nat, NEW m \in Nat, n <= m
  PROVE  /\ \A v : Good(c, n, s, v) => Good(c, m, s, v)
         /\ \A j : JobOk(c, n, s, j) => JobOk(c, m, s, j)
         /\ \A r : Answered(c, n, s, r) => Answered(c, m, s, r)
<1>1. \A v : v \in 1 .. n => v \in 1 .. m
  OBVIOUS
<1>2. \A v : Good(c, n, s, v) => Good(c, m, s, v)
  BY <1>1 DEF Good
<1>3. \A p : PartOk(c, n, s, p) => PartOk(c, m, s, p)
  BY <1>1, Zenon DEF PartOk
<1>4. \A j : XrpOk(c, n, s, j.xrp) => XrpOk(c, m, s, j.xrp)
  BY <1>2, <1>3, Zenon DEF XrpOk
<1>5. \A j : LinesOk(c, n, s, j) => LinesOk(c, m, s, j)
  BY <1>3, Zenon DEF LinesOk
<1>6. \A j : JobOk(c, n, s, j) => JobOk(c, m, s, j)
  BY <1>4, <1>5, Zenon DEF JobOk
<1>7. \A r : Answered(c, n, s, r) => Answered(c, m, s, r)
  BY <1>2, Zenon DEF Answered
<1> QED
  BY <1>2, <1>6, <1>7

(* What a call of an api settles with.                                     *)
LEMMA OutcomeOk ==
  ASSUME NEW c, IsCall(c), NEW s \in Servers, NEW n \in Nat, NEW j, JobOk(c, n, s, j),
         Outcome(c.method, c.options, j) # None
  PROVE  Answered(c, n, s, Outcome(c.method, c.options, j))
<1> DEFINE result == Outcome(c.method, c.options, j)
<1>1. CASE Failure(j) # None
  <2>1. result = Failure(j)
    BY <1>1 DEF Outcome
  <2>2. /\ j.xrp.status = "failed" => IsError(j.xrp.answer)
        /\ j.lines.status = "failed" => IsError(j.lines.answer)
    BY DEF JobOk, XrpOk, LinesOk, PartOk
  <2>3. IsError(Failure(j))
    BY <1>1, <2>2, Zenon DEF Failure
  <2> QED
    BY <2>1, <2>3 DEF Answered
<1>2. CASE Failure(j) = None
  <2>1. /\ j.xrp.status = "done" /\ j.lines.status \in {"done", "idle"}
        /\ result = [value |-> IF c.method # "getBalances" THEN Sheet(j)
                               ELSE formatBalances(c.options, j.xrp.answer.value, j.got)]
    BY <1>2, Zenon DEF Outcome
  <2> DEFINE v == j.xrp.answer.value
  <2>2. Good(c, n, s, v) /\ (AskedFor(c, s) # VALIDATED => v = AskedFor(c, s))
    BY <2>1 DEF JobOk, XrpOk
  <2>4. result.value = IF c.method # "getBalances" THEN Sheet(j)
                       ELSE formatBalances(c.options, v, j.got)
    <3> HIDE DEF result
    <3> QED
      BY <2>1
  <2>3. result.value = Priced(Shown(c.method, c.options), v)
    <3>1. CASE c.method # "getBalances"
      <4>1. result.value = <<[currency |-> "XRP", counterparty |-> "", value |-> v]>>
        BY <2>4, <3>1, Zenon DEF Sheet
      <4>2. c.options.limit = 0 /\ c.options.counterparty = "" /\ c.options.currency = ""
        BY <3>1, OptionsTyped, Zenon
      <4> HIDE DEF v, result
      <4>3. <<[currency |-> "XRP", counterparty |-> "", value |-> v]>>
              = Priced(Shown(c.method, c.options), v)
        BY <3>1, <4>2, SheetShown, Zenon
      <4> QED
        BY <4>1, <4>3, Zenon
    <3>2. CASE c.method = "getBalances"
      <4>1. j.lines.status = "done"
        BY <2>1, <3>2 DEF JobOk, LinesOk
      <4>2. v = AskedFor(c, s)
        BY <2>2, <3>2, AskedTyped
      <4>3. j.got = Priced(First(c.options.limit, Selected(c.options)), v)
        BY <3>2, <4>1, <4>2 DEF JobOk, LinesOk
      <4>4. result.value = formatBalances(c.options, v, j.got)
        BY <2>4, <3>2, Zenon
      <4>5. c.options.limit \in Nat
        BY OptionsTyped
      <4> HIDE DEF v, result
      <4> QED
        BY <3>2, <4>3, <4>4, <4>5, BalancesShown
    <3> QED
      BY <3>1, <3>2
  <2> QED
    BY <2>2, <2>3, Zenon DEF Answered
<1> QED
  BY <1>1, <1>2

LEMMA PartExcept ==
  ASSUME NEW p, IsPart(p), NEW x, NEW a
  PROVE  /\ LET q == [p EXCEPT !.status = x]
            IN q.status = x /\ q.version = p.version /\ q.answer = p.answer /\ IsPart(q)
         /\ LET q == [p EXCEPT !.answer = a]
            IN q.status = p.status /\ q.version = p.version /\ q.answer = a /\ IsPart(q)
         /\ LET q == [p EXCEPT !.status = x, !.answer = a]
            IN q.status = x /\ q.version = p.version /\ q.answer = a /\ IsPart(q)
BY DEF IsPart

LEMMA JobExcept ==
  ASSUME NEW j, IsJob(j), NEW x, IsPart(x), NEW y, IsPart(y), NEW g
  PROVE  /\ LET r == [j EXCEPT !.xrp = x]
            IN r.xrp = x /\ r.lines = j.lines /\ r.got = j.got /\ IsJob(r)
         /\ LET r == [j EXCEPT !.xrp = x, !.lines = y]
            IN r.xrp = x /\ r.lines = y /\ r.got = j.got /\ IsJob(r)
         /\ LET r == [j EXCEPT !.got = g, !.lines = y]
            IN r.xrp = j.xrp /\ r.lines = y /\ r.got = g /\ IsJob(r)
BY DEF IsJob

(* A request is permitted or denied, and so is one that first waits for    *)
(* the version.                                                            *)
LEMMA BegunOk ==
  ASSUME NEW c, IsCall(c), NEW s \in Servers, NEW n \in Nat, heard \in [Servers -> Nat],
         heard[s] <= n, NEW V, V = AskedFor(c, s)
  PROVE  /\ LET p == Request(V, s)
            IN /\ IsPart(p) /\ PartOk(c, n, s, p)
               /\ p.status \in {"sent", "doomed", "stuck", "failed"}
               /\ p.status # "failed" => p.answer = None
               /\ link[s] = "ready" => p.status \in {"sent", "failed"}
         /\ LET p == WhenReady(V, s)
            IN /\ IsPart(p) /\ PartOk(c, n, s, p)
               /\ p.status \in {"sent", "waiting", "failed"}
               /\ p.status # "failed" => p.answer = None
<1>1. Permitted(V, heard[s]) /\ V # VALIDATED => V \in 1 .. n
  <2>1. heard[s] \in Nat /\ c.options.ledgerVersion \in Nat /\ c.since[s] \in Nat
    BY OptionsTyped DEF IsCall
  <2>2. V # VALIDATED => V \in Nat
    BY <2>1, AskedTyped
  <2> QED
    BY <2>1, <2>2 DEF Permitted
<1>2. IsError(LedgerVersionError) /\ IsError(NotConnectedError)
  BY DEF IsError, LedgerVersionError, NotConnectedError, Error
<1>3. ASSUME NEW x, x # "failed", x # "done", x = "sent" => Permitted(V, heard[s])
      PROVE  /\ IsPart(Begun(x, V)) /\ PartOk(c, n, s, Begun(x, V))
             /\ Begun(x, V).status = x /\ Begun(x, V).answer = None
  <2> DEFINE p == Begun(x, V)
  <2>1. p = [status |-> x, version |-> V, answer |-> None]
    BY DEF Begun
  <2> HIDE DEF p
  <2>2. p.status = x /\ p.version = V /\ p.answer = None /\ IsPart(p)
    BY <2>1 DEF IsPart
  <2>3. PartOk(c, n, s, p)
    BY <1>1, <1>3, <2>2 DEF PartOk
  <2> QED
    BY <2>2, <2>3 DEF p
<1>4. ASSUME NEW e, IsError(e)
      PROVE  /\ IsPart(Denied(V, e)) /\ PartOk(c, n, s, Denied(V, e))
             /\ Denied(V, e).status = "failed"
  <2> DEFINE p == Denied(V, e)
  <2>1. p = [status |-> "failed", version |-> V, answer |-> e]
    BY DEF Denied
  <2> HIDE DEF p
  <2>2. p.status = "failed" /\ p.version = V /\ p.answer = e /\ IsPart(p)
    BY <2>1 DEF IsPart
  <2>3. PartOk(c, n, s, p)
    BY <1>4, <2>2 DEF PartOk
  <2> QED
    BY <2>2, <2>3 DEF p
<1> DEFINE P == Request(V, s)
<1>5. /\ IsPart(P) /\ PartOk(c, n, s, P)
      /\ P.status \in {"sent", "doomed", "stuck", "failed"}
      /\ P.status # "failed" => P.answer = None
      /\ link[s] = "ready" => P.status \in {"sent", "failed"}
  <2>1. CASE ~Permitted(V, heard[s])
    <3>1. P = Denied(V, LedgerVersionError)
      BY <2>1 DEF Request
    <3> HIDE DEF P
    <3> QED
      BY <1>2, <1>4, <3>1
  <2>2. CASE Permitted(V, heard[s]) /\ link[s] = "none"
    <3>1. P = Denied(V, NotConnectedError)
      BY <2>2 DEF Request
    <3> HIDE DEF P
    <3> QED
      BY <1>2, <1>4, <2>2, <3>1
  <2>3. CASE Permitted(V, heard[s]) /\ link[s] = "connecting"
    <3>1. P = Begun("doomed", V)
      BY <2>3 DEF Request
    <3> HIDE DEF P
    <3> QED
      BY <1>3, <2>3, <3>1
  <2>4. CASE Permitted(V, heard[s]) /\ link[s] = "dead"
    <3>1. P = Begun("stuck", V)
      BY <2>4 DEF Request
    <3> HIDE DEF P
    <3> QED
      BY <1>3, <2>4, <3>1
  <2>5. CASE Permitted(V, heard[s]) /\ link[s] \notin {"none", "connecting", "dead"}
    <3>1. P = Begun("sent", V)
      BY <2>5 DEF Request
    <3> HIDE DEF P
    <3> QED
      BY <1>3, <2>5, <3>1
  <2> QED
    BY <2>1, <2>2, <2>3, <2>4, <2>5
<1> HIDE DEF P
<1> DEFINE W == WhenReady(V, s)
<1>6. /\ IsPart(W) /\ PartOk(c, n, s, W)
      /\ W.status \in {"sent", "waiting", "failed"}
      /\ W.status # "failed" => W.answer = None
  <2>1. CASE link[s] = "none"
    <3>1. W = Denied(V, NotConnectedError)
      BY <2>1 DEF WhenReady
    <3> HIDE DEF W
    <3> QED
      BY <1>2, <1>4, <3>1
  <2>2. CASE link[s] = "ready"
    <3>1. W = P
      BY <2>2 DEF WhenReady, P
    <3> HIDE DEF W
    <3> QED
      BY <1>5, <2>2, <3>1
  <2>3. CASE link[s] \notin {"none", "ready"}
    <3>1. W = Begun("waiting", V)
      BY <2>3 DEF WhenReady
    <3> HIDE DEF W
    <3> QED
      BY <1>3, <3>1
  <2> QED
    BY <2>1, <2>2, <2>3
<1> QED
  BY <1>5, <1>6 DEF P

(* A call begins with what its connection has heard.                       *)
LEMMA StartedOk ==
  ASSUME NEW method, NEW options, heard \in [Servers -> Nat], NEW ready,
         NEW c, c = [method |-> method, options |-> options, since |-> heard, ready |-> ready],
         IsCall(c), NEW s \in Servers, NEW n \in Nat, heard[s] <= n
  PROVE  JobOk(c, n, s, Started(method, options, s))
<1> DEFINE V == VersionFor(method, options, s)
           x == IF options.ledgerVersion # 0 \/ method = "getAccountInfo"
                THEN Request(V, s) ELSE WhenReady(V, s)
           y == IF method = "getBalances" THEN WhenReady(V, s) ELSE Part("idle")
           j == Started(method, options, s)
<1>1. j = [xrp |-> x, lines |-> y, got |-> <<>>]
  BY DEF Started
<1>0. c.method = method /\ c.options = options /\ c.since = heard
  OBVIOUS
<1>2. AskedFor(c, s) = V
  BY <1>0 DEF AskedFor, VersionFor, ensureLedgerVersion
<1> HIDE DEF V
<1>3. /\ IsPart(x) /\ PartOk(c, n, s, x)
      /\ x.status \in {"sent", "doomed", "stuck", "waiting", "failed"}
  <2>1. CASE options.ledgerVersion # 0 \/ method = "getAccountInfo"
    <3>1. x = Request(V, s)
      BY <2>1
    <3> HIDE DEF x
    <3> QED
      BY <1>2, <3>1, BegunOk
  <2>2. CASE ~(options.ledgerVersion # 0 \/ method = "getAccountInfo")
    <3>1. x = WhenReady(V, s)
      BY <2>2
    <3> HIDE DEF x
    <3> QED
      BY <1>2, <3>1, BegunOk
  <2> QED
    BY <2>1, <2>2
<1> HIDE DEF x
<1>4. XrpOk(c, n, s, x)
  BY <1>3 DEF XrpOk
<1>5. j.xrp = x /\ j.lines = y /\ j.got = <<>> /\ DOMAIN j = {"xrp", "lines", "got"}
  <2> HIDE DEF y, j
  <2> QED
    BY <1>1
<1> HIDE DEF j
<1>7. CASE method = "getBalances"
  <2>1. y = WhenReady(V, s)
    BY <1>7
  <2> HIDE DEF y
  <2>2. /\ IsPart(y) /\ PartOk(c, n, s, y)
        /\ y.status \in {"sent", "waiting", "failed"}
        /\ y.status # "failed" => y.answer = None
    BY <1>2, <2>1, BegunOk
  <2>3. j.lines.status # "failed" =>
          /\ From(j.lines) \in 1 .. Len(LinesOf(c.options)) + 1
          /\ j.got = Priced(Beginning(c.options, From(j.lines) - 1), AskedFor(c, s))
    <3> SUFFICES ASSUME j.lines.status # "failed"
                 PROVE  /\ From(j.lines) \in 1 .. Len(LinesOf(c.options)) + 1
                        /\ j.got = Priced(Beginning(c.options, From(j.lines) - 1), AskedFor(c, s))
      OBVIOUS
    <3>1. From(j.lines) = 1 /\ From(j.lines) - 1 = 0
      BY <1>5, <2>2 DEF From
    <3>2. Len(LinesOf(c.options)) \in Nat
      BY LinesTyped
    <3>3. Beginning(c.options, 0) = <<>>
      <4>1. SubSeq(LinesOf(c.options), 1, 0) = <<>>
        BY SubSeqEmpty
      <4> QED
        BY <4>1, KeptNothing DEF Beginning
    <3>4. Priced(<<>>, AskedFor(c, s)) = <<>>
      BY DEF Priced
    <3> QED
      BY <1>5, <3>1, <3>2, <3>3, <3>4
  <2>4. LinesOk(c, n, s, j)
    BY <1>0, <1>5, <1>7, <2>2, <2>3 DEF LinesOk
  <2> QED
    BY <1>3, <1>4, <1>5, <2>2, <2>4, Zenon DEF JobOk, IsJob, j
<1>8. CASE method # "getBalances"
  <2>1. j.lines = Part("idle")
    BY <1>5, <1>8
  <2>2. IsPart(Part("idle")) /\ Part("idle").status = "idle"
    BY DEF IsPart, Part
  <2>3. LinesOk(c, n, s, j)
    BY <1>0, <1>8, <2>1, <2>2 DEF LinesOk
  <2> QED
    BY <1>3, <1>4, <1>5, <2>1, <2>2, <2>3, Zenon DEF JobOk, IsJob, j
<1> QED
  BY <1>7, <1>8

(* What is rejected is neither done nor idle.                              *)
LEMMA RejectedOk ==
  ASSUME NEW c, IsCall(c), NEW s \in Servers, NEW n \in Nat, NEW j, JobOk(c, n, s, j),
         NEW error, IsError(error), NEW which, "idle" \notin which
  PROVE  JobOk(c, n, s, Rejected(j, error, which))
<1> DEFINE Fail(p) == IF p.status \in which
                      THEN [p EXCEPT !.status = "failed", !.answer = error] ELSE p
           r == Rejected(j, error, which)
           x == Fail(j.xrp)
           y == Fail(j.lines)
<1>1. IsJob(j) /\ IsPart(j.xrp) /\ IsPart(j.lines) /\ XrpOk(c, n, s, j.xrp) /\ LinesOk(c, n, s, j)
  BY DEF JobOk, IsJob
<1>2. r = [j EXCEPT !.xrp = x, !.lines = y]
  BY DEF Rejected
<1>3. ASSUME NEW p, IsPart(p)
      PROVE  /\ IsPart(Fail(p))
             /\ \/ Fail(p) = p
                \/ /\ p.status # "idle" /\ Fail(p).status = "failed"
                   /\ Fail(p).version = p.version /\ Fail(p).answer = error
  <2>1. CASE p.status \in which
    <3>1. Fail(p) = [p EXCEPT !.status = "failed", !.answer = error]
      BY <2>1
    <3> HIDE DEF Fail
    <3> QED
      BY <1>3, <2>1, <3>1 DEF IsPart
  <2>2. CASE ~(p.status \in which)
    <3>1. Fail(p) = p
      BY <2>2
    <3> HIDE DEF Fail
    <3> QED
      BY <1>3, <3>1
  <2> QED
    BY <2>1, <2>2
<1> HIDE DEF Fail
<1>4. IsPart(x) /\ IsPart(y)
  BY <1>1, <1>3
<1>5. r.xrp = x /\ r.lines = y /\ r.got = j.got /\ IsJob(r)
  <2> HIDE DEF r, x, y
  <2> QED
    BY <1>1, <1>2, <1>4 DEF IsJob
<1>8. /\ \/ x = j.xrp
         \/ x.status = "failed" /\ x.version = j.xrp.version /\ x.answer = error
      /\ \/ y = j.lines
         \/ /\ j.lines.status # "idle" /\ y.status = "failed"
            /\ y.version = j.lines.version /\ y.answer = error
  BY <1>1, <1>3
<1> HIDE DEF r, x, y
<1>6. XrpOk(c, n, s, x)
  <2>1. CASE x = j.xrp
    BY <1>1, <2>1
  <2>2. CASE x.status = "failed" /\ x.version = j.xrp.version /\ x.answer = error
    BY <1>1, <2>2 DEF XrpOk, PartOk
  <2> QED
    BY <1>8, <2>1, <2>2
<1>7. LinesOk(c, n, s, r)
  <2>1. CASE y = j.lines
    BY <1>1, <1>5, <2>1 DEF LinesOk
  <2>2. CASE /\ j.lines.status # "idle" /\ y.status = "failed"
             /\ y.version = j.lines.version /\ y.answer = error
    <3>1. c.method = "getBalances" /\ PartOk(c, n, s, j.lines)
      BY <1>1, <2>2 DEF LinesOk
    <3>2. PartOk(c, n, s, y)
      BY <2>2, <3>1 DEF PartOk
    <3> QED
      BY <1>5, <2>2, <3>1, <3>2 DEF LinesOk
  <2> QED
    BY <1>8, <2>1, <2>2
<1> QED
  BY <1>5, <1>6, <1>7 DEF JobOk, r

(* What waits is sent when the server has connected, or is refused; and    *)
(* what could not be sent is rejected.                                     *)
Send(part, n) ==
  IF part.status = "waiting" /\ Permitted(part.version, n)
  THEN [part EXCEPT !.status = "sent"]
  ELSE IF part.status = "waiting" THEN Denied(part.version, LedgerVersionError)
  ELSE IF part.status \in {"doomed", "stuck"} THEN Denied(part.version, DisconnectedError)
  ELSE part

LEMMA SentPart ==
  ASSUME NEW c, IsCall(c), NEW s \in Servers, NEW n \in Nat, NEW p, IsPart(p), PartOk(c, n, s, p)
  PROVE  /\ IsPart(Send(p, n)) /\ PartOk(c, n, s, Send(p, n))
         /\ \/ Send(p, n) = p
            \/ /\ p.status = "waiting" /\ Send(p, n).status = "sent"
               /\ Send(p, n).answer = p.answer
            \/ p.status # "idle" /\ Send(p, n).status = "failed"
<1> DEFINE q == Send(p, n)
<1>1. CASE p.status = "waiting" /\ Permitted(p.version, n)
  <2>1. q = [p EXCEPT !.status = "sent"]
    BY <1>1 DEF Send
  <2> HIDE DEF q
  <2>2. q.status = "sent" /\ q.version = p.version /\ q.answer = p.answer /\ IsPart(q)
    BY <2>1 DEF IsPart
  <2>3. AskedFor(c, s) # VALIDATED => AskedFor(c, s) \in 1 .. n
    <3>1. p.version = AskedFor(c, s) /\ AskedFor(c, s) \in Int
      BY AskedTyped DEF PartOk
    <3>2. AskedFor(c, s) # VALIDATED => AskedFor(c, s) \in Nat
      <4>1. c.options.ledgerVersion \in Nat /\ c.since[s] \in Nat
        BY OptionsTyped DEF IsCall
      <4> QED
        BY <4>1, AskedTyped
    <3> QED
      BY <1>1, <3>1, <3>2 DEF Permitted
  <2>4. PartOk(c, n, s, q)
    BY <2>2, <2>3 DEF PartOk
  <2> QED
    BY <1>1, <2>2, <2>4 DEF q
<1>2. ASSUME NEW e, IsError(e), q = Denied(p.version, e)
      PROVE  IsPart(q) /\ PartOk(c, n, s, q) /\ q.status = "failed"
  <2> HIDE DEF q
  <2>1. q.status = "failed" /\ q.version = p.version /\ q.answer = e /\ IsPart(q)
    BY <1>2 DEF Denied, IsPart
  <2>2. PartOk(c, n, s, q)
    BY <1>2, <2>1 DEF PartOk
  <2> QED
    BY <2>1, <2>2
<1>3. CASE p.status = "waiting" /\ ~Permitted(p.version, n)
  <2>1. q = Denied(p.version, LedgerVersionError)
    BY <1>3 DEF Send
  <2>2. IsError(LedgerVersionError)
    BY DEF IsError, LedgerVersionError, Error
  <2> QED
    BY <1>2, <1>3, <2>1, <2>2
<1>4. CASE p.status \in {"doomed", "stuck"}
  <2>1. q = Denied(p.version, DisconnectedError)
    BY <1>4 DEF Send
  <2>2. IsError(DisconnectedError)
    BY DEF IsError, DisconnectedError, Error
  <2> QED
    BY <1>2, <1>4, <2>1, <2>2
<1>5. CASE p.status \notin {"waiting", "doomed", "stuck"}
  BY <1>5 DEF Send
<1> QED
  BY <1>1, <1>3, <1>4, <1>5

LEMMA SentOk ==
  ASSUME NEW c, IsCall(c), NEW s \in Servers, NEW n \in Nat, NEW j, JobOk(c, n, s, j)
  PROVE  JobOk(c, n, s, [j EXCEPT !.xrp = Send(@, n), !.lines = Send(@, n)])
<1> DEFINE x == Send(j.xrp, n)
           y == Send(j.lines, n)
           r == [j EXCEPT !.xrp = x, !.lines = y]
<1>1. IsJob(j) /\ IsPart(j.xrp) /\ IsPart(j.lines) /\ XrpOk(c, n, s, j.xrp) /\ LinesOk(c, n, s, j)
  BY DEF JobOk, IsJob
<1>2. PartOk(c, n, s, j.xrp)
  BY <1>1 DEF XrpOk
<1>3. /\ IsPart(x) /\ PartOk(c, n, s, x)
      /\ \/ x = j.xrp \/ x.status \in {"sent", "failed"}
  BY <1>1, <1>2, SentPart
<1>4. XrpOk(c, n, s, x)
  <2> HIDE DEF x
  <2> QED
    BY <1>1, <1>3 DEF XrpOk
<1>5. /\ IsPart(y)
      /\ \/ y = j.lines
         \/ /\ c.method = "getBalances" /\ PartOk(c, n, s, y)
            /\ \/ /\ j.lines.status = "waiting" /\ y.status = "sent"
                  /\ y.answer = j.lines.answer
               \/ y.status = "failed"
  <2>1. CASE c.method = "getBalances"
    <3>1. PartOk(c, n, s, j.lines)
      BY <1>1, <2>1 DEF LinesOk
    <3> QED
      BY <1>1, <2>1, <3>1, SentPart
  <2>2. CASE c.method # "getBalances"
    <3>1. j.lines.status = "idle"
      BY <1>1, <2>2 DEF LinesOk
    <3>2. y = j.lines
      BY <3>1 DEF Send
    <3> QED
      BY <1>1, <3>2
  <2> QED
    BY <2>1, <2>2
<1> HIDE DEF x, y
<1>6. r.xrp = x /\ r.lines = y /\ r.got = j.got /\ IsJob(r)
  BY <1>1, <1>3, <1>5 DEF IsJob
<1> HIDE DEF r
<1>7. LinesOk(c, n, s, r)
  <2>1. CASE y = j.lines
    BY <1>1, <1>6, <2>1 DEF LinesOk
  <2>2. CASE /\ c.method = "getBalances" /\ PartOk(c, n, s, y)
             /\ j.lines.status = "waiting" /\ y.status = "sent"
             /\ y.answer = j.lines.answer
    <3>1. From(y) = From(j.lines)
      BY <2>2 DEF From
    <3> QED
      BY <1>1, <1>6, <2>2, <3>1 DEF LinesOk
  <2>3. CASE c.method = "getBalances" /\ PartOk(c, n, s, y) /\ y.status = "failed"
    BY <1>6, <2>3 DEF LinesOk
  <2> QED
    BY <1>5, <2>1, <2>2, <2>3
<1> QED
  BY <1>4, <1>6, <1>7 DEF JobOk, r, x, y

(* The server answers of the ledger that it is asked for, or of its last.  *)
LEMMA XrpAnswerOk ==
  ASSUME NEW c, IsCall(c), NEW s \in Servers, NEW n \in Nat \ {0}, c.since[s] <= n,
         NEW j, JobOk(c, n, s, j), j.xrp.status = "sent"
  PROVE  JobOk(c, n, s,
           [j EXCEPT !.xrp = [@ EXCEPT !.status = "done", !.answer =
              [value |-> IF j.xrp.version = VALIDATED THEN n ELSE j.xrp.version]]])
<1> DEFINE v == IF j.xrp.version = VALIDATED THEN n ELSE j.xrp.version
           a == [value |-> v]
           x == [j.xrp EXCEPT !.status = "done", !.answer = a]
           r == [j EXCEPT !.xrp = x]
<1>1. IsJob(j) /\ IsPart(j.xrp) /\ IsPart(j.lines) /\ XrpOk(c, n, s, j.xrp) /\ LinesOk(c, n, s, j)
  BY DEF JobOk, IsJob
<1>2. /\ j.xrp.version = AskedFor(c, s)
      /\ AskedFor(c, s) # VALIDATED => AskedFor(c, s) \in 1 .. n
  BY <1>1 DEF XrpOk, PartOk
<1>3. Good(c, n, s, v) /\ (AskedFor(c, s) # VALIDATED => v = AskedFor(c, s))
  <2>1. c.options.ledgerVersion \in Nat /\ c.since[s] \in Nat
    BY OptionsTyped DEF IsCall
  <2>2. CASE AskedFor(c, s) = VALIDATED
    <3>1. v = n
      BY <1>2, <2>2
    <3>2. c.options.ledgerVersion = 0
      BY <2>1, <2>2 DEF AskedFor, VALIDATED
    <3> HIDE DEF v
    <3> QED
      BY <2>1, <2>2, <3>1, <3>2 DEF Good
  <2>3. CASE AskedFor(c, s) # VALIDATED
    <3>1. v = AskedFor(c, s) /\ v \in 1 .. n
      BY <1>2, <2>3
    <3> HIDE DEF v
    <3> QED
      BY <2>1, <2>3, <3>1, AskedTyped DEF Good
  <2> QED
    BY <2>2, <2>3
<1> HIDE DEF v
<1>4. a.value = v
  OBVIOUS
<1> HIDE DEF a
<1>5. x.status = "done" /\ x.version = j.xrp.version /\ x.answer = a /\ IsPart(x)
  BY <1>1 DEF IsPart
<1> HIDE DEF x
<1>6. XrpOk(c, n, s, x)
  BY <1>2, <1>3, <1>4, <1>5 DEF XrpOk, PartOk
<1>7. r.xrp = x /\ r.lines = j.lines /\ r.got = j.got /\ IsJob(r)
  BY <1>1, <1>5 DEF IsJob
<1> HIDE DEF r
<1>8. LinesOk(c, n, s, r)
  BY <1>1, <1>7 DEF LinesOk
<1>9. JobOk(c, n, s, r)
  BY <1>6, <1>7, <1>8 DEF JobOk
<1> QED
  BY <1>9 DEF r, x, a, v

(* Each page goes on where the one before ended, until there are no more   *)
(* or enough.                                                              *)
LEMMA LinesAnswerOk ==
  ASSUME NEW c, IsCall(c), NEW s \in Servers, NEW n \in Nat, NEW j, JobOk(c, n, s, j),
         j.lines.status = "sent", PageSize \in Nat \ {0}
  PROVE  LET options == c.options
             from == From(j.lines)
             all == j.got \o Page(options, from, j.lines.version)
             more == /\ from + PageSize <= Len(LinesOf(options))
                     /\ options.limit = 0 \/ Len(all) < options.limit
         IN JobOk(c, n, s, [j EXCEPT
              !.got = SubSeq(all, 1, Limited(options.limit, Len(all))),
              !.lines = IF more THEN [@ EXCEPT !.answer = [marker |-> from + PageSize]]
                        ELSE [@ EXCEPT !.status = "done"]])
<1> DEFINE options == c.options
           limit == options.limit
           from == From(j.lines)
           all == j.got \o Page(options, from, j.lines.version)
           N == Len(LinesOf(options))
           more == /\ from + PageSize <= N
                   /\ limit = 0 \/ Len(all) < limit
           V == AskedFor(c, s)
           e == PageEnd(options, from)
           b == Beginning(options, e)
           g == SubSeq(all, 1, Limited(limit, Len(all)))
           y == IF more THEN [j.lines EXCEPT !.answer = [marker |-> from + PageSize]]
                ELSE [j.lines EXCEPT !.status = "done"]
           r == [j EXCEPT !.got = g, !.lines = y]
<1>1. /\ IsJob(j) /\ IsPart(j.xrp) /\ IsPart(j.lines) /\ XrpOk(c, n, s, j.xrp)
      /\ c.method = "getBalances" /\ PartOk(c, n, s, j.lines)
      /\ from \in 1 .. N + 1 /\ j.got = Priced(Beginning(options, from - 1), V)
  BY DEF JobOk, IsJob, LinesOk
<1>2. j.lines.version = V
  BY <1>1 DEF PartOk
<1>3. limit \in Nat /\ N \in Nat
  BY OptionsTyped, LinesTyped
<1>4. /\ e \in from - 1 .. N /\ e \in 0 .. N
      /\ all = Priced(b, V)
  <2> HIDE DEF from, V
  <2> QED
    BY <1>1, <1>2, PageGoesOn
<1>5. e = IF from + PageSize > N THEN N ELSE from + PageSize - 1
  BY DEF PageEnd
<1>6. b \in Seq(Record) /\ Len(b) \in Nat /\ Len(all) = Len(b)
  <2>1. b \in Seq(Record) /\ Len(b) \in Nat
    <3> HIDE DEF e
    <3> QED
      BY <1>4, BeginningType
  <2> HIDE DEF b
  <2>2. Len(Priced(b, V)) = Len(b)
    BY <2>1, PricedFacts
  <2> QED
    BY <1>4, <2>1, <2>2
<1>7. g = Priced(First(limit, b), V)
  <2> HIDE DEF b, all, limit, V
  <2>1. Limited(limit, Len(b)) \in 0 .. Len(b)
    BY <1>3, <1>6, LimitedFacts
  <2>2. SubSeq(Priced(b, V), 1, Limited(limit, Len(b)))
          = Priced(SubSeq(b, 1, Limited(limit, Len(b))), V)
    BY <1>6, <2>1, PricedSubSeq
  <2> QED
    BY <1>4, <1>6, <2>2 DEF First
<1>8. CASE more
  <2> DEFINE a == [marker |-> from + PageSize]
  <2>1. y = [j.lines EXCEPT !.answer = a]
    BY <1>8
  <2>2. a # None /\ a.marker = from + PageSize
    BY NotNone
  <2> HIDE DEF a, y
  <2>3. y.status = "sent" /\ y.version = j.lines.version /\ y.answer = a /\ IsPart(y)
    BY <1>1, <2>1 DEF IsPart
  <2>4. From(y) = from + PageSize
    <3> HIDE DEF from
    <3> QED
      BY <2>2, <2>3 DEF From
  <2>5. from + PageSize \in 1 .. N + 1 /\ From(y) - 1 = e
    <3> HIDE DEF from, N, e
    <3>1. from + PageSize <= N
      BY <1>8
    <3> QED
      BY <1>1, <1>3, <1>5, <2>4, <3>1
  <2>6. First(limit, b) = b
    <3>1. limit = 0 \/ Len(b) < limit
      BY <1>6, <1>8
    <3> HIDE DEF b, limit
    <3>2. Limited(limit, Len(b)) = Len(b)
      BY <1>3, <1>6, <3>1, LimitedFacts
    <3> QED
      BY <1>3, <1>6, <3>2, FirstType, Zenon
  <2>7. g = Priced(Beginning(options, From(y) - 1), V)
    <3> HIDE DEF g, e, from, limit
    <3> QED
      BY <1>7, <2>5, <2>6
  <2>8. r.xrp = j.xrp /\ r.lines = y /\ r.got = g /\ IsJob(r)
    <3> HIDE DEF g
    <3> QED
      BY <1>1, <2>3 DEF IsJob
  <2> HIDE DEF r, g, from, e
  <2>9. PartOk(c, n, s, y)
    BY <1>1, <2>3 DEF PartOk
  <2>10. LinesOk(c, n, s, r)
    BY <1>1, <2>3, <2>4, <2>5, <2>7, <2>8, <2>9 DEF LinesOk
  <2> QED
    BY <1>1, <2>8, <2>10 DEF JobOk, r, y, g, from
<1>9. CASE ~more
  <2>1. y = [j.lines EXCEPT !.status = "done"]
    BY <1>9
  <2> HIDE DEF y
  <2>2. y.status = "done" /\ y.version = j.lines.version /\ IsPart(y)
    BY <1>1, <2>1 DEF IsPart
  <2>3. First(limit, b) = First(limit, Selected(options))
    <3>1. CASE from + PageSize > N
      <4>1. e = N
        BY <1>5, <3>1
      <4>2. b = Selected(options)
        BY <4>1 DEF Selected
      <4> QED
        BY <4>2
    <3>2. CASE ~(from + PageSize > N)
      <4>1. from + PageSize <= N
        <5> HIDE DEF from, N
        <5> QED
          BY <1>1, <1>3, <3>2
      <4>2. ~(limit = 0 \/ Len(all) < limit)
        BY <1>9, <4>1
      <4>3. limit \in Nat \ {0} /\ Len(b) >= limit
        <5> HIDE DEF limit, b, all
        <5> QED
          BY <1>3, <1>6, <4>2
      <4> HIDE DEF limit, e, options
      <4> QED
        BY <1>4, <4>3, EnoughIsEnough
    <3> QED
      BY <3>1, <3>2
  <2>4. r.xrp = j.xrp /\ r.lines = y /\ r.got = g /\ IsJob(r)
    <3> HIDE DEF g
    <3> QED
      BY <1>1, <2>2 DEF IsJob
  <2>5. g = Priced(First(limit, Selected(options)), V)
    <3> HIDE DEF g, b
    <3> QED
      BY <1>7, <2>3
  <2> HIDE DEF r, g
  <2>6. PartOk(c, n, s, y)
    BY <1>1, <2>2 DEF PartOk
  <2>7. LinesOk(c, n, s, r)
    BY <1>1, <2>2, <2>4, <2>5, <2>6 DEF LinesOk
  <2> QED
    BY <1>1, <2>4, <2>7 DEF JobOk, r, y, g
<1> QED
  BY <1>8, <1>9

-----------------------------------------------------------------------------
(* The race                                                                *)

HeardInv ==
  /\ server \in [Servers -> Versions] /\ heard \in [Servers -> Nat]
  /\ wire \in [Servers -> Seq(Nat)]
  /\ \A s \in Servers : /\ heard[s] <= server[s]
                        /\ \A i \in 1 .. Len(wire[s]) : wire[s][i] <= server[s]

Resting(j) == j.xrp.status = "idle" /\ j.lines.status = "idle"

CallKnown ==
  /\ IsCall(call)
  /\ \A s \in Servers : call.since[s] <= server[s]

Before ==
  /\ call = None /\ race = None
  /\ \A s \in Servers : Resting(job[s])
During ==
  /\ CallKnown /\ race = None
  /\ \A s \in Servers : JobOk(call, server[s], s, job[s])
After ==
  /\ CallKnown /\ race # None
  /\ race.by \in Servers /\ Answered(call, server[race.by], race.by, race.result)
  /\ \A s \in Servers : Resting(job[s])

RaceInv == HeardInv /\ DOMAIN job = Servers /\ (Before \/ During \/ After)

LEMMA RestingIdle == Resting(Idle)
BY DEF Resting, Idle, Part

(* The race ends with the first api that settles.                          *)
LEMMA Settles ==
  ASSUME NEW s \in Servers, NEW j, RaceInv, During, JobOk(call, server[s], s, j), Settle(s, j),
         UNCHANGED <<server, call>>
  PROVE  (DOMAIN job = Servers /\ (During \/ After))'
<1> DEFINE result == Outcome(call.method, call.options, j)
<1>1. CallKnown'
  BY DEF During, CallKnown
<1>2. CASE result = None
  <2>1. job' = [job EXCEPT ![s] = j] /\ race' = race
    BY <1>2 DEF Settle
  <2>2. DOMAIN job' = Servers /\ \A t \in Servers : job'[t] = IF t = s THEN j ELSE job[t]
    BY <2>1 DEF RaceInv
  <2>3. \A t \in Servers : JobOk(call, server[t], t, job'[t])
    BY <2>2 DEF During
  <2> QED
    BY <1>1, <2>1, <2>2, <2>3 DEF During
<1>3. CASE result # None
  <2>1. race' = [by |-> s, result |-> result] /\ job' = [t \in Servers |-> Idle]
    BY <1>3 DEF Settle
  <2>2. race' # None /\ race'.by = s /\ race'.result = result
    <3> HIDE DEF result
    <3> QED
      BY <2>1, NotNone
  <2>3. Answered(call, server[s], s, result)
    <3>1. server[s] \in Nat
      BY DEF RaceInv, HeardInv, Versions
    <3>2. IsCall(call)
      BY DEF During, CallKnown
    <3> QED
      BY <1>3, <3>1, <3>2, OutcomeOk
  <2>4. DOMAIN job' = Servers /\ \A t \in Servers : Resting(job'[t])
    BY <2>1, RestingIdle
  <2> HIDE DEF result
  <2> QED
    BY <1>1, <2>2, <2>3, <2>4 DEF After
<1> QED
  BY <1>2, <1>3

(* Only a call that is on has requests that are sent.                      *)
LEMMA SentDuring ==
  ASSUME NEW s \in Servers, RaceInv, job[s].xrp.status # "idle" \/ job[s].lines.status # "idle"
  PROVE  During
BY DEF RaceInv, Before, After, Resting

LEMMA CallStep ==
  ASSUME NEW method \in Methods, NEW options \in OptionsOf(method), RaceInv, Call(method, options)
  PROVE  RaceInv'
<1> DEFINE started == [s \in Servers |-> Started(method, options, s)]
           over == {s \in Servers : Failure(started[s]) # None}
           ready == \E s \in Servers : link[s] \in {"none", "ready"}
           c == [method |-> method, options |-> options, since |-> heard, ready |-> ready]
<1>1. call = None /\ call' = c /\ UNCHANGED <<server, heard, wire>>
  BY DEF Call, links
<1>2. HeardInv'
  BY <1>1 DEF RaceInv, HeardInv
<1>3. IsCall(c) /\ c.since = heard
  <2>1. c.method = method /\ c.options = options /\ c.since = heard
    OBVIOUS
  <2>2. c # None
    BY NotNone
  <2> HIDE DEF c
  <2> QED
    BY <2>1, <2>2 DEF IsCall, RaceInv, HeardInv
<1>4. CallKnown'
  BY <1>1, <1>3 DEF CallKnown, RaceInv, HeardInv
<1>5. ASSUME NEW s \in Servers PROVE JobOk(c, server[s], s, started[s])
  <2>1. heard \in [Servers -> Nat] /\ server[s] \in Nat /\ heard[s] <= server[s]
    BY DEF RaceInv, HeardInv, Versions
  <2>2. JobOk(c, server[s], s, Started(method, options, s))
    BY <1>3, <2>1, StartedOk
  <2> HIDE DEF c
  <2> QED
    BY <2>2
<1>6. race = None
  BY <1>1 DEF RaceInv, Before, During, After, CallKnown, IsCall
<1>7. CASE over = {}
  <2>1. job' = started /\ race' = None
    BY <1>6, <1>7 DEF Call
  <2>2. DOMAIN job' = Servers /\ During'
    <3> HIDE DEF c
    <3> QED
      BY <1>1, <1>4, <1>5, <2>1 DEF During
  <2> QED
    BY <1>2, <2>2 DEF RaceInv
<1>8. CASE over # {}
  <2>1. PICK s \in over : race' = [by |-> s, result |-> Failure(started[s])]
    BY <1>8 DEF Call
  <2>2. job' = [t \in Servers |-> Idle]
    BY <1>8 DEF Call
  <2> DEFINE result == Failure(started[s])
  <2>3. s \in Servers /\ result # None /\ JobOk(c, server[s], s, started[s])
    BY <1>5, <2>1
  <2>8. race' = [by |-> s, result |-> result]
    BY <2>1
  <2>4. race' # None /\ race'.by = s /\ race'.result = result
    <3> HIDE DEF result
    <3> QED
      BY <2>8, NotNone
  <2>5. IsError(result)
    <3> HIDE DEF c, started
    <3>1. /\ started[s].xrp.status = "failed" => IsError(started[s].xrp.answer)
          /\ started[s].lines.status = "failed" => IsError(started[s].lines.answer)
      BY <2>3 DEF JobOk, XrpOk, LinesOk, PartOk
    <3> QED
      BY <2>3, <3>1, Zenon DEF Failure
  <2>6. DOMAIN job' = Servers /\ \A t \in Servers : Resting(job'[t])
    BY <2>2, RestingIdle
  <2>7. After'
    <3> HIDE DEF result, c
    <3> QED
      BY <1>4, <2>3, <2>4, <2>5, <2>6 DEF After, Answered
  <2> QED
    BY <1>2, <2>6, <2>7 DEF RaceInv
<1> QED
  BY <1>7, <1>8

(* What is not of a call leaves it as it is.                               *)
LEMMA CallKept ==
  ASSUME RaceInv, UNCHANGED <<call, job, race>>,
         server' \in [Servers -> Versions], \A s \in Servers : server[s] <= server'[s]
  PROVE  (DOMAIN job = Servers /\ (Before \/ During \/ After))'
<1>1. \A s \in Servers : server[s] \in Nat /\ server'[s] \in Nat
  BY DEF RaceInv, HeardInv, Versions
<1>2. ASSUME CallKnown PROVE CallKnown'
  <2>1. \A s \in Servers : call.since[s] \in Nat
    BY <1>2 DEF CallKnown, IsCall
  <2> QED
    BY <1>1, <1>2, <2>1 DEF CallKnown
<1>3. CASE Before
  BY <1>3 DEF Before, RaceInv
<1>4. CASE During
  <2>1. \A s \in Servers : JobOk(call, server'[s], s, job[s])
    BY <1>1, <1>4, MoreLedgers DEF During, CallKnown
  <2> QED
    BY <1>2, <1>4, <2>1 DEF During, RaceInv
<1>5. CASE After
  <2>1. Answered(call, server'[race.by], race.by, race.result)
    BY <1>1, <1>5, MoreLedgers DEF After, CallKnown
  <2> QED
    BY <1>2, <1>5, <2>1 DEF After, RaceInv
<1> QED
  BY <1>3, <1>4, <1>5 DEF RaceInv

LEMMA HearsKeeps == \A s \in Servers : RaceInv /\ Hears(s) => RaceInv'
<1> SUFFICES ASSUME NEW s \in Servers, RaceInv, Hears(s) PROVE RaceInv'
  OBVIOUS
<1> DEFINE w == wire[s]
<1>1. w \in Seq(Nat) /\ w # <<>> /\ \A i \in 1 .. Len(w) : w[i] <= server[s]
  BY DEF RaceInv, HeardInv, Hears
<1>2. /\ heard' = [heard EXCEPT ![s] = Head(w)] /\ wire' = [wire EXCEPT ![s] = Tail(w)]
      /\ UNCHANGED <<server, call, job, race>>
  BY DEF Hears
<1> HIDE DEF w
<1>3. /\ Head(w) \in Nat /\ Head(w) <= server[s]
      /\ Tail(w) \in Seq(Nat) /\ \A i \in 1 .. Len(Tail(w)) : Tail(w)[i] <= server[s]
  <2>1. Len(w) \in Nat /\ Len(w) # 0 /\ Head(w) = w[1] /\ w[1] \in Nat
    BY <1>1, EmptySeq, LenProperties
  <2>2. 1 \in 1 .. Len(w)
    BY <2>1
  <2>3. /\ Tail(w) \in Seq(Nat) /\ Len(Tail(w)) = Len(w) - 1
        /\ \A i \in 1 .. Len(Tail(w)) : Tail(w)[i] = w[i + 1]
    BY <1>1, HeadTailProperties
  <2>4. \A i \in 1 .. Len(Tail(w)) : i + 1 \in 1 .. Len(w)
    BY <2>1, <2>3
  <2> QED
    BY <1>1, <2>1, <2>2, <2>3, <2>4
<1>4. HeardInv'
  BY <1>2, <1>3 DEF RaceInv, HeardInv
<1>5. (DOMAIN job = Servers /\ (Before \/ During \/ After))'
  <2>1. server' \in [Servers -> Versions] /\ \A t \in Servers : server[t] <= server'[t]
    BY <1>2 DEF RaceInv, HeardInv, Versions
  <2> QED
    BY <1>2, <2>1, CallKept
<1> QED
  BY <1>4, <1>5 DEF RaceInv

LEMMA ValidatesKeeps == \A s \in Servers : RaceInv /\ Validates(s) => RaceInv'
<1> SUFFICES ASSUME NEW s \in Servers, RaceInv, Validates(s) PROVE RaceInv'
  OBVIOUS
<1> DEFINE w == wire[s]
           v == server[s] + 1
<1>1. w \in Seq(Nat) /\ \A i \in 1 .. Len(w) : w[i] <= server[s]
  BY DEF RaceInv, HeardInv
<1>2. /\ server[s] \in 1 .. MaxVersion /\ server[s] < MaxVersion
      /\ server' = [server EXCEPT ![s] = v]
      /\ wire' = IF link[s] = "ready" THEN [wire EXCEPT ![s] = Append(w, v)] ELSE wire
      /\ UNCHANGED <<heard, call, job, race>>
  BY DEF RaceInv, HeardInv, Versions, Validates
<1> HIDE DEF w
<1>3. v \in Versions /\ v \in Nat /\ server[s] <= v
  BY <1>2, BroadcastAssumption DEF Versions
<1> HIDE DEF v
<1>4. /\ Append(w, v) \in Seq(Nat)
      /\ \A i \in 1 .. Len(Append(w, v)) : Append(w, v)[i] <= v
  <2>1. /\ Append(w, v) \in Seq(Nat) /\ Len(Append(w, v)) = Len(w) + 1 /\ Len(w) \in Nat
        /\ \A i \in 1 .. Len(w) : Append(w, v)[i] = w[i]
        /\ Append(w, v)[Len(w) + 1] = v
    BY <1>1, <1>3, AppendProperties
  <2>2. ASSUME NEW i \in 1 .. Len(Append(w, v)) PROVE Append(w, v)[i] <= v
    <3>1. CASE i \in 1 .. Len(w)
      <4>1. w[i] \in Nat /\ w[i] <= server[s]
        BY <1>1, <3>1
      <4> QED
        BY <1>2, <1>3, <2>1, <3>1, <4>1
    <3>2. CASE i = Len(w) + 1
      BY <1>3, <2>1, <3>2
    <3> QED
      BY <2>1, <3>1, <3>2
  <2> QED
    BY <2>1, <2>2
<1>5. /\ server' \in [Servers -> Versions]
      /\ \A t \in Servers : server[t] <= server'[t] /\ server[t] \in Nat /\ server'[t] \in Nat
  <2>1. server \in [Servers -> Versions]
    BY DEF RaceInv, HeardInv
  <2>2. \A x \in Versions : x \in Nat
    BY DEF Versions
  <2>3. server' \in [Servers -> Versions]
    BY <1>2, <1>3, <2>1
  <2>4. ASSUME NEW t \in Servers PROVE server[t] <= server'[t]
    <3>1. CASE t = s
      BY <1>2, <1>3, <2>1, <3>1
    <3>2. CASE t # s
      <4>1. server'[t] = server[t] /\ server[t] \in Nat
        BY <1>2, <2>1, <2>2, <3>2
      <4> QED
        BY <4>1
    <3> QED
      BY <3>1, <3>2
  <2> QED
    BY <2>1, <2>2, <2>3, <2>4
<1>6. HeardInv'
  <2>1. wire' \in [Servers -> Seq(Nat)] /\ heard' \in [Servers -> Nat]
    BY <1>2, <1>4 DEF RaceInv, HeardInv
  <2>2. ASSUME NEW t \in Servers
        PROVE  heard'[t] <= server'[t] /\ \A i \in 1 .. Len(wire'[t]) : wire'[t][i] <= server'[t]
    <3>1. /\ heard[t] \in Nat /\ heard[t] <= server[t] /\ wire[t] \in Seq(Nat)
          /\ \A i \in 1 .. Len(wire[t]) : wire[t][i] <= server[t]
      BY DEF RaceInv, HeardInv
    <3>2. heard'[t] <= server'[t]
      BY <1>2, <1>5, <3>1
    <3>3. CASE wire'[t] = wire[t]
      <4>1. \A i \in 1 .. Len(wire[t]) : wire[t][i] \in Nat
        BY <3>1
      <4> QED
        BY <1>5, <3>1, <3>2, <3>3, <4>1
    <3>4. CASE t = s /\ wire'[t] = Append(w, v)
      <4>1. server'[t] = v
        BY <1>2, <3>4 DEF RaceInv, HeardInv
      <4> QED
        BY <1>4, <3>2, <3>4, <4>1
    <3>5. wire'[t] = wire[t] \/ (t = s /\ wire'[t] = Append(w, v))
      BY <1>2 DEF RaceInv, HeardInv
    <3> QED
      BY <3>3, <3>4, <3>5
  <2> QED
    BY <1>5, <2>1, <2>2 DEF HeardInv
<1>7. (DOMAIN job = Servers /\ (Before \/ During \/ After))'
  BY <1>2, <1>5, CallKept
<1> QED
  BY <1>6, <1>7 DEF RaceInv

LEMMA AnswersKeep ==
  \A s \in Servers : RaceInv /\ (AnswersXrp(s) \/ AnswersLines(s) \/ TimesOut(s)) => RaceInv'
<1> SUFFICES ASSUME NEW s \in Servers, RaceInv, AnswersXrp(s) \/ AnswersLines(s) \/ TimesOut(s)
             PROVE  RaceInv'
  OBVIOUS
<1>1. UNCHANGED <<server, heard, wire, call>> /\ UNCHANGED links
  BY DEF AnswersXrp, AnswersLines, TimesOut, links
<1>2. HeardInv'
  BY <1>1 DEF RaceInv, HeardInv
<1>3. During
  <2>1. job[s].xrp.status # "idle" \/ job[s].lines.status # "idle"
    BY Zenon DEF AnswersXrp, AnswersLines, TimesOut
  <2> QED
    BY <2>1, SentDuring
<1> DEFINE n == server[s]
           j == job[s]
<1>4. IsCall(call) /\ n \in Nat \ {0} /\ call.since[s] <= n /\ JobOk(call, n, s, j)
  BY <1>3 DEF During, CallKnown, RaceInv, HeardInv, Versions
<1>5. PICK k : JobOk(call, n, s, k) /\ Settle(s, k)
  <2>1. CASE AnswersXrp(s)
    <3> DEFINE k == [j EXCEPT !.xrp = [@ EXCEPT !.status = "done", !.answer =
                       [value |-> IF j.xrp.version = VALIDATED THEN n ELSE j.xrp.version]]]
    <3>1. Settle(s, k) /\ j.xrp.status = "sent"
      BY <2>1 DEF AnswersXrp
    <3> HIDE DEF n, j
    <3>2. JobOk(call, n, s, k)
      BY <1>4, <3>1, XrpAnswerOk
    <3> HIDE DEF k
    <3> QED
      BY <3>1, <3>2
  <2>2. CASE AnswersLines(s)
    <3> DEFINE options == call.options
               from == From(j.lines)
               all == j.got \o Page(options, from, j.lines.version)
               more == /\ from + PageSize <= Len(LinesOf(options))
                       /\ options.limit = 0 \/ Len(all) < options.limit
               k == [j EXCEPT
                       !.got = SubSeq(all, 1, Limited(options.limit, Len(all))),
                       !.lines = IF more THEN [@ EXCEPT !.answer = [marker |-> from + PageSize]]
                                 ELSE [@ EXCEPT !.status = "done"]]
    <3>1. Settle(s, k) /\ j.lines.status = "sent"
      BY <2>2 DEF AnswersLines, From
    <3> HIDE DEF n, j
    <3>2. JobOk(call, n, s, k)
      BY <1>4, <3>1, LinesAnswerOk, BroadcastAssumption
    <3> HIDE DEF k
    <3> QED
      BY <3>1, <3>2
  <2>3. CASE TimesOut(s)
    <3> DEFINE k == Rejected(j, TimeoutError, {"sent"})
    <3>1. Settle(s, k)
      BY <2>3 DEF TimesOut
    <3>2. IsError(TimeoutError)
      BY DEF IsError, TimeoutError, Error
    <3> HIDE DEF n, j
    <3>3. JobOk(call, n, s, k)
      BY <1>4, <3>2, RejectedOk
    <3> HIDE DEF k
    <3> QED
      BY <3>1, <3>3
  <2> QED
    BY <2>1, <2>2, <2>3
<1>6. (DOMAIN job = Servers /\ (During \/ After))'
  BY <1>1, <1>3, <1>5, Settles
<1> QED
  BY <1>2, <1>6 DEF RaceInv

LEMMA SocketKeeps == \A s \in Servers : RaceInv /\ (Creates(s) \/ Opens(s)) => RaceInv'
<1> SUFFICES ASSUME NEW s \in Servers, RaceInv, Creates(s) \/ Opens(s) PROVE RaceInv'
  OBVIOUS
<1>1. UNCHANGED <<server, heard, wire, call, job, race>>
  BY DEF Creates, Opens
<1>2. HeardInv'
  BY <1>1 DEF RaceInv, HeardInv
<1>3. server' \in [Servers -> Versions] /\ \A t \in Servers : server[t] <= server'[t]
  BY <1>1 DEF RaceInv, HeardInv, Versions
<1> QED
  BY <1>1, <1>2, <1>3, CallKept DEF RaceInv

LEMMA ConnectionKeeps ==
  \A s \in Servers : RaceInv /\ (Connects(s) \/ Loses(s)) => RaceInv'
<1> SUFFICES ASSUME NEW s \in Servers, RaceInv, Connects(s) \/ Loses(s) PROVE RaceInv'
  OBVIOUS
<1> DEFINE n == server[s]
           j == job[s]
<1>1. UNCHANGED <<server, call>>
  BY DEF Connects, Loses
<1>2. HeardInv'
  <2>1. server[s] \in Nat
    BY DEF RaceInv, HeardInv, Versions
  <2>2. CASE Connects(s)
    <3>1. heard' = [heard EXCEPT ![s] = server[s]] /\ wire' = wire
      BY <2>2 DEF Connects
    <3> QED
      BY <1>1, <2>1, <3>1 DEF RaceInv, HeardInv
  <2>3. CASE Loses(s)
    <3>1. heard' = heard /\ wire' = [wire EXCEPT ![s] = <<>>]
      BY <2>3 DEF Loses
    <3>2. <<>> \in Seq(Nat) /\ Len(<<>>) = 0
      OBVIOUS
    <3> QED
      BY <1>1, <3>1, <3>2 DEF RaceInv, HeardInv
  <2> QED
    BY <2>2, <2>3
<1>3. CASE call = None \/ race # None
  <2>1. UNCHANGED <<call, job, race>>
    BY <1>1, <1>3 DEF Connects, Loses
  <2>2. server' \in [Servers -> Versions] /\ \A t \in Servers : server[t] <= server'[t]
    BY <1>1 DEF RaceInv, HeardInv, Versions
  <2> QED
    BY <1>2, <2>1, <2>2, CallKept DEF RaceInv
<1>4. CASE ~(call = None \/ race # None)
  <2>1. During
    BY <1>4 DEF RaceInv, Before, After
  <2>2. IsCall(call) /\ n \in Nat /\ JobOk(call, n, s, j)
    BY <2>1 DEF During, CallKnown, RaceInv, HeardInv, Versions
  <2>3. PICK k : JobOk(call, n, s, k) /\ Settle(s, k)
    <3>1. CASE Connects(s)
      <4> DEFINE k == [j EXCEPT !.xrp = Send(@, n), !.lines = Send(@, n)]
      <4>1. Settle(s, k)
        BY <1>4, <3>1 DEF Connects, Send
      <4> HIDE DEF n, j
      <4>2. JobOk(call, n, s, k)
        BY <2>2, SentOk
      <4> HIDE DEF k
      <4> QED
        BY <4>1, <4>2
    <3>2. CASE Loses(s)
      <4> DEFINE k == Rejected(j, DisconnectedError, {"sent", "doomed"})
      <4>1. Settle(s, k)
        BY <1>4, <3>2 DEF Loses
      <4>2. IsError(DisconnectedError)
        BY DEF IsError, DisconnectedError, Error
      <4> HIDE DEF n, j
      <4>3. JobOk(call, n, s, k)
        BY <2>2, <4>2, RejectedOk
      <4> HIDE DEF k
      <4> QED
        BY <4>1, <4>3
    <3> QED
      BY <3>1, <3>2
  <2>4. (DOMAIN job = Servers /\ (During \/ After))'
    BY <1>1, <2>1, <2>3, Settles
  <2> QED
    BY <1>2, <2>4 DEF RaceInv
<1> QED
  BY <1>3, <1>4

LEMMA RaceInvInit == Init => RaceInv
<1> SUFFICES ASSUME Init PROVE RaceInv
  OBVIOUS
<1>1. HeardInv
  <2>1. 1 .. 2 \subseteq Versions /\ \A v \in 1 .. 2 : 0 <= v
    BY BroadcastAssumption DEF Versions
  <2>2. <<>> \in Seq(Nat) /\ Len(<<>>) = 0 /\ 0 \in Nat
    OBVIOUS
  <2> QED
    BY <2>1, <2>2 DEF Init, HeardInv
<1>2. DOMAIN job = Servers /\ Before
  BY RestingIdle DEF Init, Before
<1> QED
  BY <1>1, <1>2 DEF RaceInv

LEMMA RaceInvStep == RaceInv /\ [Next]_vars => RaceInv'
<1>1. RaceInv /\ Calls => RaceInv'
  BY CallStep DEF Calls
<1>2. RaceInv /\ UNCHANGED vars => RaceInv'
  BY DEF RaceInv, HeardInv, Before, During, After, CallKnown, vars
<1> QED
  BY <1>1, <1>2, HearsKeeps, ValidatesKeeps, AnswersKeep, SocketKeeps, ConnectionKeeps, Zenon DEF Next

(* A call that is answered has the balances that were asked for, of one    *)
(* ledger of the server that answered, whichever ledgers are validated     *)
(* between its requests and whichever connections are lost and come back.  *)
THEOREM AnswersAreOfOneLedger == Spec => []AnswerIsOfOneLedger
<1>1. RaceInv => AnswerIsOfOneLedger
  <2> SUFFICES ASSUME RaceInv, race # None, ~IsError(race.result) PROVE AnswerIsOfOneLedger
    BY DEF AnswerIsOfOneLedger
  <2> DEFINE options == call.options
             answer == race.result.value
             by == race.by
             lines == Kept(Lines, {l \in ToSet(Lines) : peerFilter(options.counterparty, l)
                                                          /\ currencyFilter(options.currency, l)})
             xrp == options.counterparty = "" /\ options.currency \in {"", "XRP"}
             wanted == (IF xrp THEN <<[currency |-> "XRP", counterparty |-> ""]>> ELSE <<>>)
                         \o IF call.method = "getBalances" THEN lines ELSE <<>>
  <2>1. After
    BY DEF RaceInv, Before, During
  <2>2. PICK v : Good(call, server[by], by, v) /\ answer = Priced(Shown(call.method, options), v)
    BY <2>1, Zenon DEF After, Answered
  <2>3. by \in Servers /\ IsCall(call) /\ server[by] \in 1 .. MaxVersion
    BY <2>1 DEF After, CallKnown, RaceInv, HeardInv, Versions
  <2>4. wanted = Wanted(call.method, options)
    BY SelectedIs, Zenon DEF Wanted, XrpOf, XRP
  <2>5. SubSeq(wanted, 1, Limited(options.limit, Len(wanted))) = Shown(call.method, options)
    <3> HIDE DEF wanted
    <3> QED
      BY <2>4, Zenon DEF Shown, First
  <2>6. Shown(call.method, options) \in Seq(Record)
    <3>1. options.limit \in Nat
      BY <2>3, OptionsTyped
    <3> QED
      BY <3>1, WantedTyped, FirstType, Zenon DEF Shown
  <2>7. Bare(answer) = Shown(call.method, options) /\ \A i \in DOMAIN answer : answer[i].value = v
    <3> DEFINE shown == Shown(call.method, options)
    <3> HIDE DEF shown, answer
    <3>1. answer = Priced(shown, v) /\ shown \in Seq(Record)
      BY <2>2, <2>6 DEF shown
    <3>2. Bare(Priced(shown, v)) = shown
          /\ \A i \in DOMAIN Priced(shown, v) : Priced(shown, v)[i].value = v
      BY <3>1, BareFacts
    <3> QED
      BY <3>1, <3>2 DEF shown
  <2>8. /\ v \in Versions /\ v <= server[by]
        /\ IF options.ledgerVersion # 0 THEN v = options.ledgerVersion ELSE v >= call.since[by]
    <3>1. /\ v \in 1 .. server[by]
          /\ IF options.ledgerVersion # 0 THEN v = options.ledgerVersion ELSE v >= call.since[by]
      BY <2>2 DEF Good
    <3> DEFINE n == server[by]
    <3>2. n \in 1 .. MaxVersion /\ v \in 1 .. n
      BY <2>3, <3>1
    <3> HIDE DEF n
    <3>3. MaxVersion \in Nat
      BY BroadcastAssumption
    <3>4. v \in 1 .. MaxVersion /\ v <= n
      BY <3>2, <3>3
    <3>5. v \in Versions /\ v <= server[by]
      BY <3>4 DEF Versions, n
    <3> QED
      BY <3>1, <3>5
  <2>9. [i \in DOMAIN answer |-> [currency |-> answer[i].currency,
                                  counterparty |-> answer[i].counterparty]]
          = SubSeq(wanted, 1, Limited(options.limit, Len(wanted)))
    <3> HIDE DEF wanted, answer
    <3> QED
      BY <2>5, <2>7 DEF Bare
  <2> QED
    BY <2>7, <2>8, <2>9, Zenon DEF AnswerIsOfOneLedger
<1> QED
  BY <1>1, RaceInvInit, RaceInvStep, PTL DEF Spec

=============================================================================
