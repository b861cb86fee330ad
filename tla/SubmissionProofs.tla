--------------------------- MODULE SubmissionProofs ---------------------------
(***************************************************************************)
(* A payment is made twice only if the application was misled, for every   *)
(* number of attempts, ledgers and sequence numbers.                       *)
(*                                                                         *)
(* Every attempt that the application has given up is dead (PastDead):     *)
(* the network has not got it, or its last ledger is over and it was in    *)
(* none; or a NotFoundError has misled the application.  What the server   *)
(* has not found, and the connection has heard nothing since, is in none   *)
(* of the ledgers that the check of the ledgers sees (Seen).  Every        *)
(* attempt to come is unknown to the network (Unsent).  So only the        *)
(* present one can be applied.  That an immediate rejection is a reason to *)
(* give up needs to know that the server has answered to the present       *)
(* attempt, and that it had it from nowhere else (RejectedOut).            *)
(***************************************************************************)
EXTENDS Submission, TLAPS

(* The network has not got the attempt and will not get it.                *)
Out(a) == a \notin pool /\ a \notin flying

Dead(a) ==
  \/ Out(a)
  \/ applied[a] = 0 /\ lastLedger[a] # 0 /\ lastLedger[a] <= validated

(* It may be given up: it is dead, or the application has been misled.     *)
Given(a) == Dead(a) \/ a \in misled

PoolFirst == \A a \in Attempts : a \notin pool => applied[a] = 0

PastDead == \A a \in Attempts : a < attempt => Given(a)

(* No transaction is applied after its last ledger.                        *)
InTime ==
  \A a \in Attempts :
    applied[a] # 0 /\ lastLedger[a] # 0 => applied[a] <= lastLedger[a]

(* What the server did not find is not there yet, and what was refused is  *)
(* given up.                                                               *)
Seen ==
  /\ stage = "missing" => applied[attempt] \notin 1 .. version
  /\ stage = "refused" => Given(attempt)

Unsent ==
  \A a \in Attempts :
    (a > attempt \/ (a = attempt /\ stage \in {"new", "preparing", "prepared"}))
      => Out(a)

RejectedOut ==
  /\ stage # "new" => attempt \in Attempts
  /\ stage # "submitting" => answer = "none"
  /\ stage = "submitting" /\ attempt \in flying => attempt \notin pool
  /\ answer = "tem" => Out(attempt)

(* What getLedgerVersion() waits with is in the bounds once it is used.    *)
ReadBound ==
  stage = "preparing" /\ "version" \in need => read + Offset <= MaxVersion

Inv ==
  /\ TypeOK /\ ReadBound /\ version <= validated
  /\ PoolFirst /\ PastDead /\ Unsent /\ RejectedOut /\ InTime /\ Seen

(* -------------------------------- Types -------------------------------- *)

(* What the actions set by the operators they share is typed.              *)
LEMMA SetTyped ==
  ASSUME TypeOK, attempt \in Attempts, NEW v \in 0 .. MaxVersion, SetLastLedger(v)
  PROVE  lastLedger' \in [Attempts -> 0 .. MaxVersion]
BY DEF TypeOK, SetLastLedger

LEMMA LinkTyped ==
  ASSUME LinkType,
         Create \/ Open \/ BeginClose \/ BecomeReady \/ Recreate \/ Gone \/ Fail
  PROVE  LinkType'
BY DEF LinkType, Create, Open, BeginClose, BecomeReady, Recreate, Gone, Fail

LEMMA OverTyped ==
  ASSUME TypeOK, attempt \in Attempts, Over
  PROVE  /\ attempt' \in 1 .. MaxAttempts + 1 /\ stage' \in Stages
         /\ need' \in SUBSET (Requested \cup Awaited)
         /\ answer' \in Classes \cup {"none"}
BY SubmissionAssumption DEF TypeOK, Over, Attempts, Stages

LEMMA ProceedTyped ==
  ASSUME NEW rest \in SUBSET (Requested \cup Awaited), Proceed(rest)
  PROVE  stage' \in Stages /\ need' \in SUBSET (Requested \cup Awaited)
BY DEF Proceed, Stages

LEMMA PairFacts ==
  ASSUME NEW A, NEW B, NEW p \in A \X B
  PROVE  p[1] \in A /\ p[2] \in B
OBVIOUS

(* A verdict that refuses for good does not keep the transaction.          *)
LEMMA VerdictFacts ==
  ASSUME NEW a, NEW verdict \in Verdicts(a)
  PROVE  /\ verdict[1] \in Classes /\ verdict[2] \in BOOLEAN
         /\ seq[a] < sequence \/ Expired(a, validated + 1) => verdict[2] = FALSE
         /\ verdict[1] = "tem" => verdict[2] = FALSE
<1>1. CASE seq[a] < sequence \/ Expired(a, validated + 1)
  <2>1. verdict \in {"tem", "tef", "tel"} \X {FALSE}
    BY <1>1 DEF Verdicts
  <2>2. verdict[1] \in {"tem", "tef", "tel"} /\ verdict[2] \in {FALSE}
    BY <2>1, PairFacts
  <2>3. QED
    BY <1>1, <2>2 DEF Classes
<1>2. CASE ~(seq[a] < sequence \/ Expired(a, validated + 1))
  <2> DEFINE Held == {"tel", "tef", IF seq[a] > sequence THEN "ter" ELSE "tel"}
  <2>1. \/ verdict = <<"tem", FALSE>>
        \/ verdict \in Held \X BOOLEAN
        \/ verdict \in {"tes", "tec"} \X {TRUE}
    BY <1>2 DEF Verdicts
  <2>2. CASE verdict = <<"tem", FALSE>>
    BY <1>2, <2>2 DEF Classes
  <2>3. CASE verdict \in Held \X BOOLEAN
    <3>1. verdict[1] \in Held /\ verdict[2] \in BOOLEAN
      BY <2>3, PairFacts
    <3>2. QED
      BY <1>2, <3>1 DEF Classes
  <2>4. CASE verdict \in {"tes", "tec"} \X {TRUE}
    <3>1. verdict[1] \in {"tes", "tec"} /\ verdict[2] \in {TRUE}
      BY <2>4, PairFacts
    <3>2. QED
      BY <1>2, <3>1 DEF Classes
  <2>5. QED
    BY <2>1, <2>2, <2>3, <2>4
<1>3. QED
  BY <1>1, <1>2

(* ---------------------------- The network ------------------------------ *)

LEMMA LedgerClosesStep == Inv /\ LedgerCloses => Inv'
<1> SUFFICES ASSUME Inv, LedgerCloses PROVE Inv'
  OBVIOUS
<1> USE SubmissionAssumption
<1>1. /\ TypeOK /\ validated' = validated + 1 /\ validated' \in Versions
      /\ UNCHANGED <<phase, ready, pool, flying, lastLedger, seq, version, attempt,
                     stage, need, sent, read, answer, misled>>
  BY DEF Inv, TypeOK, LedgerCloses, Versions, link, txVars, prepareVars
<1>2. \/ UNCHANGED applied
      \/ \E a \in pool : /\ ~Expired(a, validated')
                         /\ applied' = [applied EXCEPT ![a] = validated']
  BY DEF LedgerCloses, accountVars
<1>3. sequence' \in Sequences
  BY <1>1 DEF LedgerCloses, accountVars, TypeOK, Sequences
<1>4. applied' \in [Attempts -> 0 .. MaxVersion]
  BY <1>1, <1>2 DEF TypeOK, Versions
<1>5. TypeOK'
  BY <1>1, <1>3, <1>4 DEF TypeOK, LinkType
<1>6. ReadBound' /\ (version <= validated)'
  BY <1>1 DEF Inv, ReadBound, TypeOK, Versions
<1>7. PoolFirst'
  BY <1>1, <1>2 DEF Inv, PoolFirst, TypeOK
<1>8. ASSUME NEW a \in Attempts, Given(a) PROVE Given(a)'
  <2>1. CASE Out(a) \/ a \in misled
    BY <1>1, <2>1 DEF Given, Dead, Out
  <2>2. CASE applied[a] = 0 /\ lastLedger[a] # 0 /\ lastLedger[a] <= validated
    <3>1. lastLedger[a] < validated' /\ lastLedger[a] \in Nat /\ validated' \in Nat
      BY <1>1, <2>2 DEF TypeOK, Versions
    <3>2. Expired(a, validated')
      BY <2>2, <3>1 DEF Expired
    <3>3. applied'[a] = 0
      BY <1>1, <1>2, <2>2, <3>2 DEF TypeOK
    <3>4. QED
      BY <1>1, <2>2, <3>1, <3>3 DEF Given, Dead
  <2>3. QED
    BY <1>8, <2>1, <2>2 DEF Given, Dead
<1>8a. PastDead'
  BY <1>1, <1>8 DEF Inv, PastDead
<1>8b. InTime'
  <2>1. SUFFICES ASSUME NEW a \in Attempts, applied'[a] # 0, lastLedger'[a] # 0
                 PROVE  applied'[a] <= lastLedger'[a]
    BY DEF InTime
  <2>2. CASE applied'[a] = applied[a]
    BY <1>1, <2>1, <2>2 DEF Inv, InTime
  <2>3. CASE applied'[a] # applied[a]
    <3>1. applied'[a] = validated' /\ ~Expired(a, validated')
      BY <1>1, <1>2, <2>3 DEF TypeOK
    <3>2. lastLedger[a] \in Nat /\ validated' \in Nat
      BY <1>1 DEF TypeOK, Versions
    <3>3. QED
      BY <1>1, <2>1, <3>1, <3>2 DEF Expired
  <2>4. QED
    BY <2>2, <2>3
<1>8c. Seen'
  <2>1. ASSUME stage = "missing" PROVE applied'[attempt] \notin 1 .. version
    <3>1. attempt \in Attempts /\ applied[attempt] \notin 1 .. version
      BY <2>1 DEF Inv, RejectedOut, Seen
    <3>2. applied'[attempt] = applied[attempt] \/ applied'[attempt] = validated'
      BY <1>1, <1>2, <3>1 DEF TypeOK
    <3>3. validated' > version
      BY <1>1 DEF Inv, TypeOK, Versions
    <3>4. QED
      BY <1>1, <3>1, <3>2, <3>3 DEF TypeOK, Versions
  <2>2. ASSUME stage = "refused" PROVE Given(attempt)'
    BY <1>1, <1>8, <2>2 DEF Inv, Seen, RejectedOut, Given, Dead, Out
  <2>3. QED
    BY <1>1, <2>1, <2>2 DEF Seen
<1>9. Unsent' /\ RejectedOut'
  BY <1>1 DEF Inv, Unsent, RejectedOut, Out
<1>10. QED
  BY <1>5, <1>6, <1>7, <1>8a, <1>8b, <1>8c, <1>9 DEF Inv

(* A submit that reaches the server late does not revive a dead attempt:   *)
(* the server sees that its last ledger is over.                           *)
LEMMA TakesStep == \A a \in Attempts : Inv /\ Takes(a) => Inv'
<1> SUFFICES ASSUME NEW a \in Attempts, Inv, Takes(a) PROVE Inv'
  OBVIOUS
<1>1. /\ TypeOK /\ a \in flying /\ flying' = flying \ {a}
      /\ UNCHANGED <<phase, ready, validated, sequence, applied, lastLedger, seq,
                     version, attempt, stage, need, sent, read, misled>>
  BY DEF Inv, Takes, link, accountVars, txVars, prepareVars
<1>2. PICK verdict \in Verdicts(a) :
        /\ pool' = IF verdict[2] THEN pool \cup {a} ELSE pool
        /\ answer' = IF a = attempt /\ stage = "submitting" THEN verdict[1]
                     ELSE answer
  BY DEF Takes
<1>3. /\ verdict[1] \in Classes /\ verdict[2] \in BOOLEAN
      /\ verdict[1] = "tem" => verdict[2] = FALSE
  BY VerdictFacts
<1>4. TypeOK'
  BY <1>1, <1>2, <1>3 DEF TypeOK, LinkType
<1>5. ReadBound' /\ (version <= validated)'
  BY <1>1 DEF Inv, ReadBound
<1>6. PoolFirst'
  BY <1>1, <1>2 DEF Inv, PoolFirst
<1>7. ASSUME NEW b \in Attempts, Given(b) PROVE Given(b)'
  <2>1. CASE Out(b) \/ b \in misled
    BY <1>1, <1>2, <2>1 DEF Given, Dead, Out
  <2>2. CASE applied[b] = 0 /\ lastLedger[b] # 0 /\ lastLedger[b] <= validated
    BY <1>1, <2>2 DEF Given, Dead
  <2>3. QED
    BY <1>7, <2>1, <2>2 DEF Given, Dead
<1>7a. PastDead' /\ InTime' /\ Seen'
  <2>1. PastDead' /\ InTime'
    BY <1>1, <1>7 DEF Inv, PastDead, InTime
  <2>2. stage = "refused" => Given(attempt)'
    <3>1. stage = "refused" => attempt \in Attempts /\ Given(attempt)
      BY DEF Inv, RejectedOut, Seen
    <3>2. QED
      BY <1>1, <1>7, <3>1 DEF Given, Dead, Out
  <2>3. QED
    BY <1>1, <2>1, <2>2 DEF Inv, Seen
<1>8. Unsent'
  BY <1>1, <1>2 DEF Inv, Unsent, Out
<1>9. RejectedOut'
  <2>1. CASE a = attempt /\ stage = "submitting"
    BY <1>1, <1>2, <1>3, <2>1 DEF Inv, RejectedOut, Out
  <2>2. CASE ~(a = attempt /\ stage = "submitting")
    BY <1>1, <1>2, <2>2 DEF Inv, RejectedOut, Out
  <2>3. QED
    BY <2>1, <2>2
<1>10. QED
  BY <1>4, <1>5, <1>6, <1>7a, <1>8, <1>9 DEF Inv

(* ------------------------------ Attempts ------------------------------- *)

(* Giving up the present attempt is right when it is dead.                 *)
LEMMA GiveUp ==
  ASSUME Inv, attempt \in Attempts, Over,
         UNCHANGED <<applied, pool, validated>>, version' <= validated,
         flying' \subseteq flying, misled \subseteq misled',
         \/ /\ Out(attempt)
            /\ \A a \in Attempts \ {attempt} : lastLedger'[a] = lastLedger[a]
         \/ (Dead(attempt) \/ attempt \in misled') /\ UNCHANGED lastLedger
  PROVE  /\ ReadBound' /\ (version <= validated)' /\ InTime' /\ Seen'
         /\ PoolFirst' /\ PastDead' /\ Unsent' /\ RejectedOut'
<1>1. attempt' = attempt + 1 /\ stage' = "new" /\ need' = {} /\ answer' = "none"
  BY DEF Over
<1>2. attempt \in Nat /\ \A a \in Attempts : a \in Nat
  BY SubmissionAssumption DEF Attempts
<1>3. /\ ReadBound' /\ (version <= validated)' /\ PoolFirst' /\ RejectedOut'
      /\ Seen'
  BY <1>1 DEF Inv, ReadBound, PoolFirst, RejectedOut, Seen
<1>3a. InTime'
  <2>1. Out(attempt) => applied[attempt] = 0
    BY DEF Inv, PoolFirst, Out
  <2>2. QED
    BY <2>1 DEF Inv, InTime
<1>4. PastDead'
  <2>1. SUFFICES ASSUME NEW a \in Attempts, a < attempt' PROVE Given(a)'
    BY DEF PastDead
  <2>2. a = attempt \/ (a # attempt /\ a < attempt)
    BY <1>1, <1>2, <2>1
  <2>3. CASE a = attempt
    BY <2>3 DEF Given, Dead, Out
  <2>4. CASE a # attempt /\ a < attempt
    <3>1. Given(a) /\ lastLedger'[a] = lastLedger[a]
      BY <2>4 DEF Inv, PastDead
    <3>2. QED
      BY <3>1 DEF Given, Dead, Out
  <2>5. QED
    BY <2>2, <2>3, <2>4
<1>5. Unsent'
  <2>1. \A a \in Attempts : a > attempt' \/ a = attempt' => a > attempt
    BY <1>1, <1>2
  <2>2. QED
    BY <2>1 DEF Inv, Unsent, Out
<1>6. QED
  BY <1>3, <1>3a, <1>4, <1>5

(* An attempt that goes on, with messages lost at most.                    *)
LEMMA GoOn ==
  ASSUME Inv, UNCHANGED <<applied, pool, validated, attempt>>,
         flying' \subseteq flying, version' <= validated, misled \subseteq misled',
         \A a \in Attempts \ {attempt} : lastLedger'[a] = lastLedger[a],
         Out(attempt) \/ UNCHANGED lastLedger,
         stage' \in {"new", "preparing", "prepared"}
           => stage \in {"new", "preparing", "prepared"},
         stage' # "submitting" => answer' = "none",
         stage' = "submitting" => stage = "submitting" /\ answer' = answer,
         stage' # "new" => attempt \in Attempts
  PROVE  /\ (version <= validated)' /\ InTime'
         /\ PoolFirst' /\ PastDead' /\ Unsent' /\ RejectedOut'
<1>1. (version <= validated)' /\ PoolFirst' /\ RejectedOut'
  BY DEF Inv, PoolFirst, RejectedOut, Out
<1>2. PastDead'
  <2>1. SUFFICES ASSUME NEW a \in Attempts, a < attempt PROVE Given(a)'
    BY DEF PastDead
  <2>2. attempt \in Nat /\ a \in Nat
    BY SubmissionAssumption DEF Inv, TypeOK, Attempts
  <2>3. Given(a) /\ lastLedger'[a] = lastLedger[a]
    BY <2>1, <2>2 DEF Inv, PastDead
  <2>4. QED
    BY <2>3 DEF Given, Dead, Out
<1>3. Unsent'
  BY DEF Inv, Unsent, Out
<1>4. InTime'
  <2>1. attempt \in Attempts /\ Out(attempt) => applied[attempt] = 0
    BY DEF Inv, PoolFirst, Out
  <2>2. QED
    BY <2>1 DEF Inv, InTime
<1>5. QED
  BY <1>1, <1>2, <1>3, <1>4

(* ------------------------------- Prepare ------------------------------- *)

LEMMA PrepareStep == Inv /\ Prepare => Inv'
<1> SUFFICES ASSUME Inv, Prepare PROVE Inv'
  OBVIOUS
<1> USE SubmissionAssumption
<1>1. /\ TypeOK /\ stage = "new" /\ attempt \in Attempts
      /\ version + Offset <= MaxVersion
      /\ sent' = (phase = "open")
      /\ UNCHANGED <<phase, ready, validated, sequence, applied, pool, flying,
                     version, attempt, answer, misled>>
  BY DEF Inv, Prepare, link, networkVars, accountVars
<1>2. PICK given \in SUBSET Requested, limit \in -1 .. MaxVersion :
        LET wanted == (Requested \ given) \cup (IF limit = -1 THEN {"version"} ELSE {})
        IN  /\ Proceed(IF Ready THEN wanted \ Awaited ELSE wanted)
            /\ IF limit # -1 THEN SetLastLedger(limit)
               ELSE IF Ready THEN SetLastLedger(LastLedgerSequence(version))
               ELSE UNCHANGED lastLedger
            /\ read' = IF limit = -1 /\ ~Ready THEN version ELSE 0
            /\ \E s \in IF "sequence" \in given THEN Sequences ELSE {0} :
                 seq' = [seq EXCEPT ![attempt] = s]
  BY DEF Prepare
<1> DEFINE wanted == (Requested \ given) \cup (IF limit = -1 THEN {"version"} ELSE {})
           rest == IF Ready THEN wanted \ Awaited ELSE wanted
<1>3. rest \in SUBSET (Requested \cup Awaited) /\ Proceed(rest)
  BY <1>2 DEF Awaited
<1>4. stage' \in {"preparing", "prepared"}
      /\ need' \in SUBSET (Requested \cup Awaited) /\ need' = rest
  BY <1>3 DEF Proceed
<1>5. /\ lastLedger' \in [Attempts -> 0 .. MaxVersion]
      /\ \A a \in Attempts \ {attempt} : lastLedger'[a] = lastLedger[a]
  <2>1. CASE limit # -1
    BY <1>1, <1>2, <2>1 DEF TypeOK, SetLastLedger
  <2>2. CASE limit = -1 /\ Ready
    <3>1. LastLedgerSequence(version) \in 0 .. MaxVersion
      BY <1>1 DEF TypeOK, LastLedgerSequence
    <3>2. SetLastLedger(LastLedgerSequence(version))
      BY <1>2, <2>2
    <3>3. QED
      BY <1>1, <3>1, <3>2 DEF TypeOK, SetLastLedger
  <2>3. CASE limit = -1 /\ ~Ready
    BY <1>1, <1>2, <2>3 DEF TypeOK
  <2>4. QED
    BY <2>1, <2>2, <2>3
<1>6. read' \in 0 .. MaxVersion
  BY <1>1, <1>2 DEF TypeOK
<1>7. seq' \in [Attempts -> 0 .. MaxSequence]
  BY <1>1, <1>2 DEF TypeOK, Sequences
<1>8. TypeOK'
  BY <1>1, <1>4, <1>5, <1>6, <1>7 DEF TypeOK, LinkType, Stages
<1>9. ReadBound'
  <2>1. SUFFICES ASSUME "version" \in need' PROVE read' + Offset <= MaxVersion
    BY <1>1 DEF ReadBound
  <2>2. limit = -1 /\ ~Ready
    BY <1>4, <2>1 DEF Awaited, Requested
  <2>3. QED
    BY <1>1, <1>2, <2>2
<1>10. /\ (version <= validated)' /\ PoolFirst' /\ PastDead' /\ Unsent'
       /\ RejectedOut' /\ InTime' /\ Seen'
  <2>1. version' <= validated /\ answer' = "none" /\ Out(attempt)
    BY <1>1 DEF Inv, RejectedOut, Unsent
  <2>2. Seen'
    BY <1>4 DEF Seen
  <2>3. QED
    BY <1>1, <1>4, <1>5, <2>1, <2>2, GoOn
<1>11. QED
  BY <1>8, <1>9, <1>10 DEF Inv

LEMMA AnsweredStep == \A what \in Requested : Inv /\ Answered(what) => Inv'
<1> SUFFICES ASSUME NEW what \in Requested, Inv, Answered(what) PROVE Inv'
  OBVIOUS
<1> DEFINE rest == (need \ {what})
                     \cup (IF what = "fee" /\ ~Ready THEN {"feeRef"} ELSE {})
<1>1. /\ TypeOK /\ stage = "preparing" /\ Proceed(rest)
      /\ attempt \in Attempts /\ answer = "none"
      /\ UNCHANGED <<phase, ready, validated, sequence, applied, pool, flying,
                     lastLedger, version, attempt, sent, read, answer, misled>>
  BY DEF Inv, RejectedOut, Answered, link, networkVars, accountVars
<1>2. rest \in SUBSET (Requested \cup Awaited)
  BY <1>1 DEF TypeOK, Awaited
<1>3. /\ stage' \in {"preparing", "prepared"}
      /\ need' \in SUBSET (Requested \cup Awaited) /\ need' = rest
  BY <1>1, <1>2 DEF Proceed
<1>4. seq' \in [Attempts -> 0 .. MaxSequence]
  BY <1>1 DEF TypeOK, Answered, Sequences
<1>5. TypeOK'
  BY <1>1, <1>3, <1>4 DEF TypeOK, LinkType, Stages
<1>6. ReadBound'
  BY <1>1, <1>3 DEF Inv, ReadBound
<1>7. /\ (version <= validated)' /\ PoolFirst' /\ PastDead' /\ Unsent'
      /\ RejectedOut' /\ InTime' /\ Seen'
  <2>1. version' <= validated
    BY <1>1 DEF Inv
  <2>2. Seen'
    BY <1>3 DEF Seen
  <2>3. QED
    BY <1>1, <1>3, <2>1, <2>2, GoOn
<1>8. QED
  BY <1>5, <1>6, <1>7 DEF Inv

LEMMA PrepareFailsStep == Inv /\ PrepareFails => Inv'
<1> SUFFICES ASSUME Inv, PrepareFails PROVE Inv'
  OBVIOUS
<1>1. /\ TypeOK /\ stage = "preparing" /\ Over /\ attempt \in Attempts
      /\ UNCHANGED <<phase, ready, validated, sequence, applied, pool, flying,
                     lastLedger, seq, version, sent, read, misled>>
  BY DEF Inv, RejectedOut, PrepareFails, link, networkVars, accountVars, txVars
<1>2. TypeOK'
  BY <1>1, OverTyped DEF TypeOK, LinkType
<1>3. Out(attempt)
  BY <1>1 DEF Inv, Unsent
<1>4. QED
  BY <1>1, <1>2, <1>3, GiveUp DEF Inv

(* -------------------------- Submit and verify -------------------------- *)

LEMMA SubmitStep == Inv /\ Submit => Inv'
<1> SUFFICES ASSUME Inv, Submit PROVE Inv'
  OBVIOUS
<1>1. /\ TypeOK /\ stage = "prepared" /\ stage' = "submitting"
      /\ flying' = flying \cup {attempt} /\ attempt \in Attempts
      /\ answer = "none" /\ Out(attempt)
      /\ UNCHANGED <<phase, ready, validated, sequence, applied, pool, lastLedger,
                     seq, version, attempt, need, sent, read, answer, misled>>
  BY DEF Inv, RejectedOut, Unsent, Submit, link, accountVars, txVars, prepareVars
<1>2. TypeOK'
  BY <1>1 DEF TypeOK, LinkType, Stages
<1>3. /\ ReadBound' /\ (version <= validated)' /\ PoolFirst' /\ RejectedOut'
      /\ InTime' /\ Seen'
  BY <1>1 DEF Inv, ReadBound, PoolFirst, RejectedOut, Out, InTime, Seen
<1>4. PastDead'
  <2>1. SUFFICES ASSUME NEW a \in Attempts, a < attempt PROVE Given(a)'
    BY <1>1 DEF PastDead
  <2>2. Given(a) /\ a # attempt
    BY <1>1, <2>1, SubmissionAssumption DEF Inv, PastDead, Attempts
  <2>3. QED
    BY <1>1, <2>2 DEF Given, Dead, Out
<1>5. Unsent'
  <2>1. SUFFICES ASSUME NEW a \in Attempts, a > attempt PROVE Out(a)'
    BY <1>1 DEF Unsent
  <2>2. Out(a) /\ a # attempt
    BY <1>1, <2>1, SubmissionAssumption DEF Inv, Unsent, Attempts
  <2>3. QED
    BY <1>1, <2>2 DEF Out
<1>6. QED
  BY <1>2, <1>3, <1>4, <1>5 DEF Inv

LEMMA SubmitAnsweredStep == Inv /\ SubmitAnswered => Inv'
<1> SUFFICES ASSUME Inv, SubmitAnswered PROVE Inv'
  OBVIOUS
<1>1. /\ TypeOK /\ stage = "submitting" /\ attempt \in Attempts
      /\ UNCHANGED <<phase, ready, validated, sequence, applied, pool, flying,
                     lastLedger, seq, version, sent, read, misled>>
  BY DEF Inv, RejectedOut, SubmitAnswered, link, networkVars, accountVars, txVars
<1>2. CASE isImmediateRejection(answer)
  <2>1. Over /\ Out(attempt)
    BY <1>2 DEF SubmitAnswered, isImmediateRejection, Inv, RejectedOut
  <2>2. TypeOK'
    BY <1>1, <2>1, OverTyped DEF TypeOK, LinkType
  <2>3. QED
    BY <1>1, <2>1, <2>2, GiveUp DEF Inv
<1>3. CASE ~isImmediateRejection(answer)
  <2>1. stage' = "submitted" /\ answer' = "none" /\ UNCHANGED <<attempt, need>>
    BY <1>3 DEF SubmitAnswered
  <2>2. TypeOK' /\ ReadBound' /\ Seen'
    BY <1>1, <2>1 DEF TypeOK, LinkType, Stages, ReadBound, Seen
  <2>3. version' <= validated
    BY <1>1 DEF Inv
  <2>4. QED
    BY <1>1, <2>1, <2>2, <2>3, GoOn DEF Inv
<1>4. QED
  BY <1>2, <1>3

LEMMA SubmitTimesOutStep == Inv /\ SubmitTimesOut => Inv'
<1> SUFFICES ASSUME Inv, SubmitTimesOut PROVE Inv'
  OBVIOUS
<1>1. /\ TypeOK /\ stage = "submitting" /\ attempt \in Attempts
      /\ stage' = "submitted" /\ answer' = "none" /\ version' <= validated
      /\ UNCHANGED <<phase, ready, validated, sequence, applied, pool, flying,
                     lastLedger, seq, version, attempt, need, sent, read, misled>>
  BY DEF Inv, RejectedOut, SubmitTimesOut, link, networkVars, accountVars, txVars,
         prepareVars
<1>2. TypeOK' /\ ReadBound' /\ Seen'
  BY <1>1 DEF TypeOK, LinkType, Stages, ReadBound, Seen
<1>3. QED
  BY <1>1, <1>2, GoOn DEF Inv

(* The lookup of an attempt that goes on: what the server answers.         *)
LEMMA LookupStep ==
  Inv /\ (Lookup \/ LookupAnswered \/ LookupFails \/ DatingAnswered) => Inv'
<1> SUFFICES ASSUME Inv, Lookup \/ LookupAnswered \/ LookupFails \/ DatingAnswered
             PROVE  Inv'
  OBVIOUS
<1>1. /\ TypeOK /\ stage \in {"submitted", "looking", "dating"}
      /\ attempt \in Attempts /\ answer = "none" /\ version' <= validated
      /\ UNCHANGED <<phase, ready, validated, sequence, applied, pool, flying,
                     lastLedger, seq, version, attempt, need, read, answer, misled>>
  BY DEF Inv, RejectedOut, Lookup, LookupAnswered, LookupFails, DatingAnswered, link,
         networkVars, accountVars, txVars, prepareVars
<1>2. /\ stage' \in {"submitted", "looking", "dating", "found", "doubtful", "missing"}
      /\ sent' \in BOOLEAN
      /\ stage' = "missing" => applied[attempt] \notin 1 .. version
  BY <1>1 DEF Lookup, LookupAnswered, LookupFails, DatingAnswered, prepareVars, TypeOK
<1>3. TypeOK' /\ ReadBound' /\ Seen'
  BY <1>1, <1>2 DEF TypeOK, LinkType, Stages, ReadBound, Seen
<1>4. QED
  BY <1>1, <1>2, <1>3, GoOn DEF Inv

(* A final NotFoundError: the last ledger of the attempt is one that the   *)
(* connection knows, so one that the server has closed.  It was closed     *)
(* when the server answered, unless the application is misled.             *)
LEMMA ConcludesStep == Inv /\ Concludes => Inv'
<1> SUFFICES ASSUME Inv, Concludes PROVE Inv'
  OBVIOUS
<1>1. /\ TypeOK /\ stage \in {"missing", "doubtful"} /\ attempt \in Attempts
      /\ answer = "none" /\ version' <= validated
      /\ UNCHANGED <<phase, ready, validated, sequence, applied, pool, flying,
                     lastLedger, seq, version, sent, read>>
  BY DEF Inv, RejectedOut, Concludes, link, networkVars, accountVars, txVars
<1>2. CASE stage' = "submitted" /\ UNCHANGED <<attempt, need, answer, misled>>
  <2>1. TypeOK' /\ ReadBound' /\ Seen'
    BY <1>1, <1>2 DEF TypeOK, LinkType, Stages, ReadBound, Seen
  <2>2. QED
    BY <1>1, <1>2, <2>1, GoOn DEF Inv
<1>3. CASE /\ lastLedger[attempt] # 0 /\ hasCompleteLedgerRange
           /\ misled' = IF stage = "doubtful" THEN misled \cup {attempt} ELSE misled
           /\ IF Ready THEN Over
              ELSE stage' = "refused" /\ UNCHANGED <<attempt, need, answer>>
  <2>1. /\ misled \subseteq misled' /\ misled' \in SUBSET Attempts
        /\ stage = "doubtful" => attempt \in misled'
    BY <1>1, <1>3 DEF TypeOK
  <2>2. stage = "missing" => Dead(attempt)
    <3>1. SUFFICES ASSUME stage = "missing"
                   PROVE  applied[attempt] = 0 /\ lastLedger[attempt] <= validated
      BY <1>3 DEF Dead
    <3>2. /\ lastLedger[attempt] \in Nat /\ version \in Nat /\ validated \in Nat
          /\ applied[attempt] \in Nat /\ lastLedger[attempt] <= version
          /\ version <= validated
      BY <1>1, <1>3, SubmissionAssumption DEF TypeOK, Versions, hasCompleteLedgerRange
    <3>3. applied[attempt] # 0 => applied[attempt] <= lastLedger[attempt]
      BY <1>1, <1>3 DEF Inv, InTime
    <3>4. applied[attempt] \notin 1 .. version
      BY <3>1 DEF Inv, Seen
    <3>5. QED
      BY <3>2, <3>3, <3>4
  <2>3. CASE Ready
    <3>1. Over
      BY <1>3, <2>3
    <3>2. TypeOK'
      BY <1>1, <2>1, <3>1, OverTyped DEF TypeOK, LinkType
    <3>3. QED
      BY <1>1, <2>1, <2>2, <3>1, <3>2, GiveUp DEF Inv
  <2>4. CASE ~Ready
    <3>1. stage' = "refused" /\ UNCHANGED <<attempt, need, answer>>
      BY <1>3, <2>4
    <3>2. TypeOK' /\ ReadBound'
      BY <1>1, <2>1, <3>1 DEF TypeOK, LinkType, Stages, ReadBound
    <3>3. Seen'
      BY <1>1, <2>1, <2>2, <3>1 DEF Seen, Given, Dead, Out
    <3>4. QED
      BY <1>1, <2>1, <3>1, <3>2, <3>3, GoOn DEF Inv
  <2>5. QED
    BY <2>3, <2>4
<1>4. QED
  BY <1>2, <1>3 DEF Concludes

(* ---------------------------- The connection --------------------------- *)

LEMMA LinkMovesStep == Inv /\ LinkMoves => Inv'
<1> SUFFICES ASSUME Inv, LinkMoves PROVE Inv'
  OBVIOUS
<1>1. /\ TypeOK
      /\ UNCHANGED <<validated, sequence, applied, pool, flying, lastLedger, seq,
                     version, attempt, stage, need, sent, read, answer, misled>>
  BY DEF Inv, LinkMoves, networkVars, accountVars, txVars, prepareVars
<1>2. LinkType'
  BY <1>1, LinkTyped DEF LinkMoves, TypeOK
<1>3. TypeOK'
  BY <1>1, <1>2 DEF TypeOK
<1>4. QED
  BY <1>1, <1>3 DEF Inv, ReadBound, PoolFirst, PastDead, Given, Dead, Unsent,
                    RejectedOut, Out, InTime, Seen

LEMMA HearsStep == Inv /\ Hears => Inv'
<1> SUFFICES ASSUME Inv, Hears PROVE Inv'
  OBVIOUS
<1>1. /\ TypeOK /\ version < validated /\ version' = version + 1
      /\ stage' = IF stage = "missing" THEN "doubtful" ELSE stage
      /\ UNCHANGED <<phase, ready, validated, sequence, applied, pool, flying,
                     lastLedger, seq, attempt, need, sent, read, answer, misled>>
  BY DEF Inv, Hears, link, networkVars, accountVars, txVars, prepareVars
<1>2. version' \in 0 .. MaxVersion /\ version' <= validated
  BY <1>1, SubmissionAssumption DEF TypeOK, Versions
<1>3. TypeOK'
  BY <1>1, <1>2 DEF TypeOK, LinkType, Stages
<1>4. Seen'
  BY <1>1 DEF Inv, Seen, Given, Dead, Out
<1>5. QED
  BY <1>1, <1>2, <1>3, <1>4 DEF Inv, ReadBound, PoolFirst, PastDead, Given, Dead, Unsent,
                                RejectedOut, Out, InTime

LEMMA ConnectedStep == Inv /\ Connected => Inv'
<1> SUFFICES ASSUME Inv, Connected PROVE Inv'
  OBVIOUS
<1>1. /\ TypeOK /\ version' \in Versions /\ version' <= validated
      /\ UNCHANGED <<validated, sequence, applied, pool, flying, seq, sent, read, misled>>
  BY DEF Inv, Connected, networkVars, accountVars
<1>2. LinkType'
  BY <1>1, LinkTyped DEF Connected, TypeOK
<1>3. stage # "new" => attempt \in Attempts
  BY DEF Inv, RejectedOut
<1>4. /\ lastLedger' \in [Attempts -> 0 .. MaxVersion]
      /\ \A a \in Attempts \ {attempt} : lastLedger'[a] = lastLedger[a]
      /\ stage # "preparing" => UNCHANGED lastLedger
  <2>1. CASE stage = "preparing" /\ "version" \in need
    <3>1. LastLedgerSequence(read) \in 0 .. MaxVersion
      BY <1>1, <2>1, SubmissionAssumption
      DEF Inv, ReadBound, TypeOK, LastLedgerSequence
    <3>2. SetLastLedger(LastLedgerSequence(read))
      BY <2>1 DEF Connected
    <3>3. QED
      BY <1>1, <2>1, <3>1, <3>2 DEF TypeOK, SetLastLedger
  <2>2. CASE ~(stage = "preparing" /\ "version" \in need)
    BY <1>1, <2>2 DEF Connected, TypeOK
  <2>3. QED
    BY <2>1, <2>2
<1>5. version' \in 0 .. MaxVersion
  BY <1>1, SubmissionAssumption DEF Versions
<1>6. CASE stage \notin {"preparing", "refused"}
  <2>1. UNCHANGED <<attempt, stage, need, answer, lastLedger>> /\ stage # "missing"
    BY <1>4, <1>6 DEF Connected, Reacting
  <2>2. TypeOK'
    BY <1>1, <1>2, <1>5, <2>1 DEF TypeOK
  <2>3. QED
    BY <1>1, <1>6, <2>1, <2>2 DEF Inv, ReadBound, PoolFirst, PastDead, Given, Dead,
                                  Unsent, RejectedOut, Out, InTime, Seen
<1>7. CASE stage = "preparing" /\ ~sent /\ need \cap Requested # {}
  <2>1. Over /\ attempt \in Attempts /\ Out(attempt)
    BY <1>3, <1>7 DEF Connected, Inv, Unsent
  <2>2. /\ ReadBound' /\ PoolFirst' /\ PastDead' /\ Unsent' /\ RejectedOut'
        /\ InTime' /\ Seen'
    BY <1>1, <1>4, <2>1, GiveUp
  <2>3. TypeOK'
    BY <1>1, <1>2, <1>4, <1>5, <2>1, OverTyped DEF TypeOK
  <2>4. QED
    BY <1>1, <2>2, <2>3 DEF Inv
<1>7a. CASE stage = "refused"
  <2>1. Over /\ attempt \in Attempts /\ (Dead(attempt) \/ attempt \in misled)
        /\ UNCHANGED lastLedger
    BY <1>3, <1>4, <1>7a DEF Connected, Inv, Seen, Given
  <2>2. /\ ReadBound' /\ PoolFirst' /\ PastDead' /\ Unsent' /\ RejectedOut'
        /\ InTime' /\ Seen'
    BY <1>1, <2>1, GiveUp
  <2>3. TypeOK'
    BY <1>1, <1>2, <1>4, <1>5, <2>1, OverTyped DEF TypeOK
  <2>4. QED
    BY <1>1, <2>2, <2>3 DEF Inv
<1>8. CASE stage = "preparing" /\ ~(~sent /\ need \cap Requested # {})
  <2>1. Proceed(need \ Awaited) /\ UNCHANGED <<attempt, answer>>
    BY <1>8 DEF Connected
  <2>2. /\ stage' \in {"preparing", "prepared"}
        /\ need' \in SUBSET (Requested \cup Awaited) /\ need' = need \ Awaited
    BY <1>1, <2>1 DEF Proceed, TypeOK
  <2>3. TypeOK'
    BY <1>1, <1>2, <1>4, <1>5, <2>1, <2>2 DEF TypeOK, Stages
  <2>4. ReadBound' /\ Seen'
    BY <2>2 DEF ReadBound, Awaited, Seen
  <2>5. answer' = "none" /\ Out(attempt)
    BY <1>3, <1>8, <2>1 DEF Inv, RejectedOut, Unsent
  <2>6. PoolFirst' /\ PastDead' /\ Unsent' /\ RejectedOut' /\ InTime'
    BY <1>1, <1>3, <1>4, <1>8, <2>1, <2>2, <2>5, GoOn
  <2>7. QED
    BY <1>1, <2>3, <2>4, <2>6 DEF Inv
<1>9. QED
  BY <1>6, <1>7, <1>7a, <1>8

LEMMA ClosedStep == Inv /\ Closed => Inv'
<1> SUFFICES ASSUME Inv, Closed PROVE Inv'
  OBVIOUS
<1>1. /\ TypeOK /\ flying' \subseteq flying
      /\ UNCHANGED <<validated, sequence, applied, pool, lastLedger, seq, version,
                     sent, read, misled>>
  BY DEF Inv, Closed, accountVars, txVars
<1>2. LinkType'
  BY <1>1, LinkTyped DEF Closed, TypeOK
<1>3. stage # "new" => attempt \in Attempts
  BY DEF Inv, RejectedOut
<1>4. CASE stage = "preparing" /\ need \cap Requested # {}
  <2>1. Over /\ attempt \in Attempts /\ Out(attempt)
    BY <1>3, <1>4 DEF Closed, Inv, Unsent
  <2>2. TypeOK'
    BY <1>1, <1>2, <2>1, OverTyped DEF TypeOK
  <2>3. QED
    BY <1>1, <2>1, <2>2, GiveUp DEF Inv
<1>5. CASE ~(stage = "preparing" /\ need \cap Requested # {})
  <2>1. /\ stage \in Stages /\ stage \notin {"missing", "doubtful"}
        /\ stage' = AfterClose /\ answer' = "none" /\ UNCHANGED <<attempt, need>>
    BY <1>1, <1>5 DEF Closed, Reacting, TypeOK
  <2>1a. \/ stage \in {"submitting", "looking"} /\ stage' = "submitted"
         \/ stage = "dating" /\ stage' = "doubtful"
         \/ stage \notin {"submitting", "looking", "dating"} /\ stage' = stage
    BY <2>1 DEF AfterClose
  <2>2. TypeOK' /\ ReadBound' /\ Seen'
    BY <1>1, <1>2, <1>3, <2>1, <2>1a
    DEF TypeOK, Stages, Inv, ReadBound, Seen, Given, Dead, Out
  <2>3. version' <= validated
    BY <1>1 DEF Inv
  <2>4. QED
    BY <1>1, <1>3, <2>1, <2>1a, <2>2, <2>3, GoOn DEF Inv
<1>6. QED
  BY <1>4, <1>5

(* ------------------------------- Theorems ------------------------------ *)

LEMMA InvInit == Init => Inv
<1> SUFFICES ASSUME Init PROVE Inv
  OBVIOUS
<1>1. TypeOK
  <2>1. LinkType
    BY DEF Init, LinkInit, LinkType
  <2>2. validated \in Versions /\ sequence \in Sequences /\ version \in 0 .. MaxVersion
        /\ read \in 0 .. MaxVersion /\ attempt \in 1 .. MaxAttempts + 1
    BY SubmissionAssumption DEF Init, Versions, Sequences
  <2>3. /\ applied \in [Attempts -> 0 .. MaxVersion]
        /\ lastLedger \in [Attempts -> 0 .. MaxVersion]
        /\ seq \in [Attempts -> 0 .. MaxSequence]
    BY SubmissionAssumption DEF Init
  <2>4. QED
    BY <2>1, <2>2, <2>3 DEF Init, TypeOK, Stages
<1>2. PoolFirst
  BY DEF Init, PoolFirst
<1>3. PastDead /\ Unsent
  <2>1. \A a \in Attempts : ~(a < attempt) /\ Out(a)
    BY SubmissionAssumption DEF Init, Attempts, Out
  <2>2. QED
    BY <2>1 DEF PastDead, Unsent
<1>4. ReadBound /\ version <= validated /\ RejectedOut /\ InTime /\ Seen
  BY DEF Init, ReadBound, RejectedOut, InTime, Seen
<1>5. QED
  BY <1>1, <1>2, <1>3, <1>4 DEF Inv

LEMMA InvStep == Inv /\ [Next]_vars => Inv'
<1> SUFFICES ASSUME Inv, [Next]_vars PROVE Inv'
  OBVIOUS
<1>1. CASE UNCHANGED vars
  <2>1. UNCHANGED <<phase, ready, validated, sequence, applied, pool, flying,
                    lastLedger, seq, version, attempt, stage, need, sent, read,
                    answer, misled>>
    BY <1>1 DEF vars, link, networkVars, accountVars, txVars, prepareVars
  <2>2. QED
    BY <2>1 DEF Inv, TypeOK, LinkType, ReadBound, PoolFirst, PastDead, Given, Dead,
                Unsent, RejectedOut, Out, InTime, Seen
<1>2. QED
  BY <1>1, LedgerClosesStep, TakesStep, PrepareStep, AnsweredStep, PrepareFailsStep,
     SubmitStep, SubmitAnsweredStep, SubmitTimesOutStep, LookupStep, ConcludesStep,
     LinkMovesStep, HearsStep, ConnectedStep, ClosedStep
  DEF Next

LEMMA InvHolds == Spec => []Inv
BY InvInit, InvStep, PTL DEF Spec

(* The types of the state, over every behaviour.                           *)
THEOREM SubmissionTyped == Spec => []TypeOK
<1>1. Inv => TypeOK
  BY DEF Inv
<1>2. QED
  BY <1>1, InvHolds, PTL

(* However often the application prepares the payment again, after what    *)
(* submit and getTransaction have told it: an attempt that it has given up *)
(* is applied beside a later one only if a NotFoundError has misled it.    *)
THEOREM PaysOnce == Spec => []PaidOnce
<1>1. Inv => PaidOnce
  <2> SUFFICES ASSUME Inv, NEW a \in Attempts, NEW b \in Attempts, a < b,
                      applied[a] # 0, applied[b] # 0
               PROVE  a \in misled
    BY DEF PaidOnce
  <2>1. ~Dead(a) /\ ~Out(b)
    BY DEF Inv, PoolFirst, Dead, Out
  <2>2. ~(b > attempt)
    BY <2>1 DEF Inv, Unsent
  <2>3. a \in Nat /\ b \in Nat /\ attempt \in Nat
    BY SubmissionAssumption DEF Inv, TypeOK, Attempts
  <2>4. a < attempt
    BY <2>2, <2>3
  <2>5. QED
    BY <2>1, <2>4 DEF Inv, PastDead, Given
<1>2. QED
  BY <1>1, InvHolds, PTL

=============================================================================
