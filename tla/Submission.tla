------------------------------ MODULE Submission ------------------------------
(***************************************************************************)
(* One payment from prepare to verify: prepareTransaction, submit and what *)
(* getTransaction says of the result (src/src/transaction/utils.js,        *)
(* submit.js, src/src/ledger/transaction.js), over the connection of Link. *)
(*                                                                         *)
(* The application is that of docs/index.md, "Transaction Flow", and of    *)
(* test/integration/integration-test.js 25-72: it prepares, signs,         *)
(* submits, and asks for the transaction until the answer is final; when   *)
(* that is a failure, it prepares the payment again.  Meanwhile ledgers    *)
(* are validated, other clients use the account, and the connection is     *)
(* lost and made again.                                                    *)
(*                                                                         *)
(* The server has all of its ledgers here: TransactionLookup has a lookup  *)
(* with gaps in them, and with transactions that are only candidates.      *)
(***************************************************************************)
EXTENDS Link, Integers, FiniteSets

CONSTANTS
  MaxVersion,   \* bound: ledger versions of the server
  MaxSequence,  \* bound: sequence numbers of the account
  MaxAttempts,  \* bound: how often the payment is prepared
  Offset        \* instructions.maxLedgerVersionOffset, 3 by default

ASSUME SubmissionAssumption ==
  /\ MaxVersion \in Nat \ {0} /\ MaxSequence \in Nat \ {0}
  /\ MaxAttempts \in Nat /\ Offset \in Nat

VARIABLES
  validated,   \* the latest validated ledger of the server
  sequence,    \* the account's next sequence number there
  applied,     \* the ledger that has the transaction of each attempt, or 0
  pool,        \* the attempts that the network holds for the next ledgers
  flying,      \* the attempts whose submit has not reached the server
  lastLedger,  \* LastLedgerSequence of each attempt, 0 for undefined
  seq,         \* its Sequence, 0 while unknown
  version,     \* this._ledgerVersion, 0 for null
  attempt,     \* the present attempt
  stage,       \* how far it is
  need,        \* what its prepare still waits for
  sent,        \* its requests were sent: the socket was open
  read,        \* the version that its getLedgerVersion() waits with
  answer,      \* the class of the result that the server has answered, or none
  misled       \* history variable: the attempts given up upon a NotFoundError
               \* after a request that failed, or after a late ledgerClosed

accountVars == <<sequence, applied>>
networkVars == <<validated, accountVars, pool, flying>>
txVars == <<lastLedger, seq>>
prepareVars == <<need, sent, read>>
vars == <<link, networkVars, txVars, version, attempt, stage, prepareVars, answer,
          misled>>

Versions == 1 .. MaxVersion
Sequences == 1 .. MaxSequence
Attempts == 1 .. MaxAttempts
Classes == {"tes", "tec", "ter", "tef", "tel", "tem"}
Requested == {"fee", "sequence"}   \* server_info and account_info
Awaited == {"version", "feeRef"}   \* getLedgerVersion and getFeeRef
Stages == {"new", "preparing", "prepared", "submitting", "submitted",
           "looking",   \* for the answer to the request tx
           "dating",    \* for that of the ledger of the transaction
           "missing",   \* the server has answered txnNotFound just now,
           "doubtful",  \* or something came in between, or a request failed
           "refused",   \* NotFoundError, but that waits for a ready connection
           "found"}

TypeOK ==
  /\ LinkType
  /\ validated \in Versions
  /\ sequence \in Sequences
  /\ applied \in [Attempts -> 0 .. MaxVersion]
  /\ pool \in SUBSET Attempts
  /\ flying \in SUBSET Attempts
  /\ lastLedger \in [Attempts -> 0 .. MaxVersion]
  /\ seq \in [Attempts -> 0 .. MaxSequence]
  /\ version \in 0 .. MaxVersion
  /\ attempt \in 1 .. MaxAttempts + 1
  /\ stage \in Stages
  /\ need \in SUBSET (Requested \cup Awaited)
  /\ sent \in BOOLEAN
  /\ read \in 0 .. MaxVersion
  /\ answer \in Classes \cup {"none"}
  /\ misled \in SUBSET Attempts

Init ==
  /\ LinkInit
  /\ validated = 1
  /\ sequence = 1
  /\ applied = [a \in Attempts |-> 0]
  /\ pool = {}
  /\ flying = {}
  /\ lastLedger = [a \in Attempts |-> 0]
  /\ seq = [a \in Attempts |-> 0]
  /\ version = 0
  /\ attempt = 1
  /\ stage = "new"
  /\ need = {}
  /\ sent = FALSE
  /\ read = 0
  /\ answer = "none"
  /\ misled = {}

-----------------------------------------------------------------------------
(* The network of servers                                                  *)

Expired(a, v) == lastLedger[a] # 0 /\ v > lastLedger[a]

(* The next ledger: with nothing of the account, with a transaction of     *)
(* another client of it, or with the one of an attempt.                    *)
LedgerCloses ==
  /\ validated < MaxVersion
  /\ validated' = validated + 1
  /\ \/ UNCHANGED accountVars
     \/ /\ sequence < MaxSequence
        /\ sequence' = sequence + 1
        /\ \/ UNCHANGED applied
           \/ \E a \in pool :
                /\ seq[a] = sequence /\ ~Expired(a, validated')
                /\ applied' = [applied EXCEPT ![a] = validated']
  /\ UNCHANGED <<link, pool, flying, txVars, version, attempt, stage,
                 prepareVars, answer, misled>>

(* The classes of results a server may answer with, and whether it holds   *)
(* the transaction: even one that was refused for now (submit.js 8-13).    *)
Verdicts(a) ==
  IF seq[a] < sequence \/ Expired(a, validated + 1)
  THEN {"tem", "tef", "tel"} \X {FALSE}
  ELSE {<<"tem", FALSE>>}
         \cup ({"tel", "tef", IF seq[a] > sequence THEN "ter" ELSE "tel"} \X BOOLEAN)
         \cup ({"tes", "tec"} \X {TRUE})

(* The server receives a submit; it may answer on the socket of the call.  *)
Takes(a) ==
  /\ a \in flying
  /\ flying' = flying \ {a}
  /\ \E verdict \in Verdicts(a) :
       /\ pool' = IF verdict[2] THEN pool \cup {a} ELSE pool
       /\ answer' = IF a = attempt /\ stage = "submitting" THEN verdict[1]
                    ELSE answer
  /\ UNCHANGED <<link, validated, accountVars, txVars, version, attempt, stage,
                 prepareVars, misled>>

-----------------------------------------------------------------------------
(* prepareTransaction                                                      *)

Ready == phase = "open" /\ ready

(* The default of prepareMaxLedgerVersion.                                 *)
LastLedgerSequence(v) == v + Offset

SetLastLedger(v) == lastLedger' = [lastLedger EXCEPT ![attempt] = v]

(* Promise.all: an attempt that waits for nothing more is prepared.        *)
Proceed(rest) ==
  /\ need' = rest
  /\ stage' = IF rest = {} THEN "prepared" ELSE "preparing"

(* An attempt is over; the application prepares another one.               *)
Over ==
  /\ attempt' = attempt + 1
  /\ stage' = "new"
  /\ need' = {}
  /\ answer' = "none"

(* The three fetches start: each for an instruction that is not given.     *)
(* limit is maxLedgerVersion: -1 for undefined, 0 for null.  With no       *)
(* socket, or a dead one, the application connects first.                  *)
Prepare ==
  /\ stage = "new" /\ attempt \in Attempts
  /\ phase \notin {"none", "dead"}
  /\ version + Offset <= MaxVersion
  /\ \E given \in SUBSET Requested, limit \in -1 .. MaxVersion :
       LET wanted == (Requested \ given) \cup (IF limit = -1 THEN {"version"} ELSE {})
       IN
       /\ Proceed(IF Ready THEN wanted \ Awaited ELSE wanted)
       /\ IF limit # -1 THEN SetLastLedger(limit)
          ELSE IF Ready THEN SetLastLedger(LastLedgerSequence(version))
          ELSE UNCHANGED lastLedger
       /\ read' = IF limit = -1 /\ ~Ready THEN version ELSE 0
       /\ \E s \in IF "sequence" \in given THEN Sequences ELSE {0} :
            seq' = [seq EXCEPT ![attempt] = s]
  /\ sent' = (phase = "open")
  /\ UNCHANGED <<link, networkVars, version, attempt, answer, misled>>

(* The answer to server_info or to account_info.  The account's sequence   *)
(* is that of the open ledger, which may be ahead of the validated one.    *)
(* After server_info, getFeeRef() waits for a ready connection.            *)
Answered(what) ==
  /\ stage = "preparing"
  /\ what \in need /\ sent
  /\ phase \in {"open", "closing"}
  /\ Proceed((need \ {what}) \cup (IF what = "fee" /\ ~Ready THEN {"feeRef"} ELSE {}))
  /\ IF what = "sequence"
     THEN \E s \in {sequence, sequence + 1} \cap Sequences :
            seq' = [seq EXCEPT ![attempt] = s]
     ELSE UNCHANGED seq
  /\ UNCHANGED <<link, networkVars, lastLedger, version, attempt, sent, read,
                 answer, misled>>

(* A request that times out, or that the server refuses.                   *)
PrepareFails ==
  /\ stage = "preparing" /\ need \cap Requested # {}
  /\ Over
  /\ UNCHANGED <<link, networkVars, txVars, version, sent, read, misled>>

-----------------------------------------------------------------------------
(* sign and submit                                                         *)

Submit ==
  /\ stage = "prepared"
  /\ phase = "open"
  /\ stage' = "submitting"
  /\ flying' = flying \cup {attempt}
  /\ UNCHANGED <<link, validated, accountVars, pool, txVars, version, attempt,
                 prepareVars, answer, misled>>

(* The class of results that end a submit.                                *)
isImmediateRejection(class) == class = "tem"

(* formatSubmitResponse: an immediate rejection ends the attempt.          *)
SubmitAnswered ==
  /\ stage = "submitting" /\ answer # "none"
  /\ phase \in {"open", "closing"}
  /\ IF isImmediateRejection(answer) THEN Over
     ELSE stage' = "submitted" /\ answer' = "none" /\ UNCHANGED <<attempt, need>>
  /\ UNCHANGED <<link, networkVars, txVars, version, sent, read, misled>>

(* A submit that has timed out may be under way all the same.              *)
SubmitTimesOut ==
  /\ stage = "submitting"
  /\ stage' = "submitted"
  /\ answer' = "none"
  /\ UNCHANGED <<link, networkVars, txVars, version, attempt, prepareVars, misled>>

-----------------------------------------------------------------------------
(* getTransaction with the prepared maxLedgerVersion                       *)

(* The request tx, once getLedgerVersion() has seen a ready connection.    *)
Lookup ==
  /\ stage = "submitted"
  /\ Ready
  /\ stage' = "looking"
  /\ UNCHANGED <<link, networkVars, txVars, version, attempt, prepareVars, answer,
                 misled>>

(* The server answers in the order of its ledgerClosed messages, so for    *)
(* the ledgers up to the version.  An answer without a date makes          *)
(* attachTransactionDate ask for the ledger.                               *)
LookupAnswered ==
  /\ stage = "looking"
  /\ phase \in {"open", "closing"}
  /\ stage' \in IF applied[attempt] \in 1 .. version THEN {"found", "dating"}
                ELSE {"missing"}
  /\ sent' = (phase = "open")
  /\ UNCHANGED <<link, networkVars, txVars, version, attempt, need, read, answer,
                 misled>>

(* A timeout, or another error of the server: the application asks again.  *)
LookupFails ==
  /\ stage = "looking"
  /\ stage' = "submitted"
  /\ UNCHANGED <<link, networkVars, txVars, version, attempt, prepareVars, answer,
                 misled>>

(* A request of the ledger that fails becomes a NotFoundError.             *)
DatingAnswered ==
  /\ stage = "dating" /\ sent
  /\ phase \in {"open", "closing"}
  /\ stage' \in {"found", "doubtful"}
  /\ UNCHANGED <<link, networkVars, txVars, version, attempt, prepareVars, answer,
                 misled>>

(* Of a server with all of its ledgers, the ranges end at the version.     *)
(* Mutant: it counts the ledger that is about to close.                    *)
hasNextLedgerRange == lastLedger[attempt] <= version + 1
hasCompleteLedgerRange == lastLedger[attempt] <= version

(* convertError of a NotFoundError.  That is final when a maxLedgerVersion *)
(* was given and the ledgers up to it are there; the check waits for a     *)
(* ready connection, but looks at the ledgers before it waits.             *)
Concludes ==
  /\ stage \in {"missing", "doubtful"}
  /\ IF phase # "none" /\ lastLedger[attempt] # 0 /\ hasCompleteLedgerRange
     THEN /\ misled' = IF stage = "doubtful" THEN misled \cup {attempt} ELSE misled
          /\ IF Ready THEN Over
             ELSE stage' = "refused" /\ UNCHANGED <<attempt, need, answer>>
     ELSE stage' = "submitted" /\ UNCHANGED <<attempt, need, answer, misled>>
  /\ UNCHANGED <<link, networkVars, txVars, version, sent, read>>

-----------------------------------------------------------------------------
(* The connection                                                          *)

(* Until the reactions to an answer have run, nothing but messages of its  *)
(* read comes in between: a close frame, or that of Hears.                 *)
Reacting == stage \in {"missing", "doubtful"}

LinkMoves ==
  /\ \/ (Create \/ Open) /\ ~Reacting
     \/ BeginClose
  /\ UNCHANGED <<networkVars, txVars, version, attempt, stage, prepareVars, answer,
                 misled>>

(* A ledgerClosed message.                                                 *)
Hears ==
  /\ ready /\ phase \in {"open", "closing"}
  /\ version < validated
  /\ version' = version + 1
  /\ stage' = IF stage = "missing" THEN "doubtful" ELSE stage
  /\ UNCHANGED <<link, networkVars, txVars, attempt, prepareVars, answer, misled>>

(* The subscribe answer tells a version, and the event connected releases  *)
(* who waits for it: with what was read at the call.  A request that no    *)
(* open socket took is rejected.                                           *)
Connected ==
  /\ ~ready /\ BecomeReady /\ ~Reacting
  /\ version' \in {v \in Versions : version <= v /\ v <= validated}
  /\ IF stage = "preparing" /\ "version" \in need
     THEN SetLastLedger(LastLedgerSequence(read)) ELSE UNCHANGED lastLedger
  /\ IF \/ stage = "preparing" /\ ~sent /\ need \cap Requested # {}
        \/ stage = "refused"
     THEN Over
     ELSE /\ IF stage = "preparing" THEN Proceed(need \ Awaited)
             ELSE UNCHANGED <<stage, need>>
          /\ UNCHANGED <<attempt, answer>>
  /\ UNCHANGED <<networkVars, seq, sent, read, misled>>

(* The close event rejects the requests of the socket.  A message on it    *)
(* reaches the server or is lost, its answer is lost.                      *)
AfterClose ==
  CASE stage \in {"submitting", "looking"} -> "submitted"
    [] stage = "dating" -> "doubtful"
    [] OTHER -> stage

Closed ==
  /\ Recreate \/ Gone \/ Fail
  /\ ~Reacting
  /\ flying' \in SUBSET flying
  /\ IF stage = "preparing" /\ need \cap Requested # {} THEN Over
     ELSE stage' = AfterClose /\ answer' = "none" /\ UNCHANGED <<attempt, need>>
  /\ UNCHANGED <<validated, accountVars, pool, txVars, version, sent, read, misled>>

Next ==
  \/ LedgerCloses \/ (\E a \in Attempts : Takes(a))
  \/ Prepare \/ (\E what \in Requested : Answered(what)) \/ PrepareFails
  \/ Submit \/ SubmitAnswered \/ SubmitTimesOut
  \/ Lookup \/ LookupAnswered \/ LookupFails \/ DatingAnswered \/ Concludes
  \/ LinkMoves \/ Hears \/ Connected \/ Closed

Spec == Init /\ [][Next]_vars

-----------------------------------------------------------------------------
(* Properties                                                              *)

(* An attempt that was given up is applied, beside a later one, only if a  *)
(* NotFoundError has misled the application: no rejected submit (submit.js *)
(* 8-13) and no NotFoundError whose answer the check of the ledgers has    *)
(* seen unchanged (transaction.js 55-65) is of a transaction that is       *)
(* applied later, however often the payment is prepared again.             *)
PaidOnce ==
  \A a, b \in Attempts : a < b /\ applied[a] # 0 /\ applied[b] # 0 => a \in misled

(* The payment is made at most once, by an application that prepares it    *)
(* again only when the documentation tells it that the transaction will    *)
(* never succeed (docs/index.md 285, 306).                                 *)
PaidOnceOnly ==
  \A a, b \in Attempts : applied[a] # 0 /\ applied[b] # 0 => a = b

(* A maxLedgerVersion by default is the current validated ledger version   *)
(* plus the offset (docs/index.md 301): that of the connection that the    *)
(* getLedgerVersion() of a prepare has waited for.                         *)
DefaultIsCurrent ==
  [][stage = "preparing" /\ "version" \in need \ need' /\ attempt' = attempt
       => lastLedger'[attempt] = version' + Offset]_vars

=============================================================================
