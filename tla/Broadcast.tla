------------------------------ MODULE Broadcast ------------------------------
(***************************************************************************)
(* RippleAPIBroadcast: one api for each of several servers, whose ledger   *)
(* events become one stream, and whose answers to a call race              *)
(* (src/src/broadcast.js, src/src/api.js 89-115).  The call is one that    *)
(* needs several requests of each server, getBalances, or one that needs   *)
(* one, getBalanceSheet or getAccountInfo (src/src/ledger/balances.js,     *)
(* trustlines.js, balance-sheet.js, accountinfo.js and utils.js).          *)
(*                                                                         *)
(* A balance is the version of the ledger that it was read in; a server is *)
(* ahead of another or behind it.  Connections are those of Connection,    *)
(* as far as requests tell their sockets apart; the time that a socket     *)
(* takes to close is left out.                                             *)
(***************************************************************************)
EXTENDS Integers, SequencesExt, Sorting

CONSTANTS
  Servers,
  PageSize,    \* bound: lines in an answer
  MaxVersion,  \* bound: ledger versions
  Losses       \* bound: how often a connection is lost

ASSUME BroadcastAssumption ==
  /\ Servers # {} /\ PageSize \in Nat \ {0} /\ MaxVersion \in Nat \ {0, 1}
  /\ Losses \in Nat

VARIABLES
  server,         \* the last ledger that each server has validated
  link,           \* the socket of the api of each server
  heard,          \* _ledgerVersion of its connection, or 0 for null
  wire,           \* the ledgerClosed messages under way to it
  losses,
  ledgerVersion,  \* of the broadcast: the last that it emitted
  emitted,        \* what it emitted, and
  told,           \* the ledgers that the apis emitted
  call,           \* the call: method, options, what was so then; or None
  job,            \* what each api has done for it
  race            \* the promise of the call: None until it is settled

vars == <<server, link, heard, wire, losses, ledgerVersion, emitted, told, call, job, race>>
links == <<server, link, heard, wire, losses>>
events == <<ledgerVersion, emitted, told>>

None == [none |-> TRUE]
Error(name) == [error |-> name]
LedgerVersionError == Error("LedgerVersionError")
TimeoutError == Error("TimeoutError")
DisconnectedError == Error("DisconnectedError")
NotConnectedError == Error("NotConnectedError")
RippledError == Error("RippledError")
IsError(result) == "error" \in DOMAIN result

Methods == {"getBalances", "getBalanceSheet", "getAccountInfo"}
Versions == 1 .. MaxVersion
VALIDATED == -1   \* ledger_index: 'validated'

(* _ws is null; or it is connecting; or an error ended that, and it stays  *)
(* until there is another; or it is open, and subscribe is not answered;   *)
(* or the connection is ready.                                             *)
Sockets == {"none", "connecting", "dead", "open", "ready"}

(* Bound: the trust lines of the account.                                  *)
Lines == <<[currency |-> "USD", counterparty |-> "gate"],
           [currency |-> "EUR", counterparty |-> "gate"],
           [currency |-> "USD", counterparty |-> "way"]>>

-----------------------------------------------------------------------------
(* The stream of ledgers                                                   *)

(* Mutant of onLedgerEvent: a ledger is emitted again.                     *)
onEveryLedgerEvent(version) ==
  /\ ledgerVersion' = version
  /\ emitted' = IF version >= ledgerVersion THEN Append(emitted, version) ELSE emitted
onLedgerEvent(version) ==
  IF version > ledgerVersion
  THEN /\ ledgerVersion' = version
       /\ emitted' = Append(emitted, version)
  ELSE UNCHANGED <<ledgerVersion, emitted>>

(* The api emits what its connection heard, and the broadcast listens.     *)
Hears(s) ==
  /\ wire[s] # <<>>
  /\ LET version == Head(wire[s])
     IN /\ heard' = [heard EXCEPT ![s] = version]
        /\ wire' = [wire EXCEPT ![s] = Tail(@)]
        /\ told' = told \cup {version}
        /\ onLedgerEvent(version)
  /\ UNCHANGED <<server, link, losses, call, job, race>>

-----------------------------------------------------------------------------
(* The parts of a call: the balance of XRP, the pages of trust lines, the  *)
(* balance sheet and the account                                           *)

Part(status) == [status |-> status, version |-> 0, answer |-> None]
Idle == [xrp |-> Part("idle"), lines |-> Part("idle"), got |-> <<>>]

currencyFilter(currency, l) == currency \in {"", l.currency}
peerFilter(peer, l) == peer \in {"", l.counterparty}

LinesOf(options) == Kept(Lines, {l \in ToSet(Lines) : peerFilter(options.counterparty, l)})

(* One page of account_lines, what passes the filter of it.                *)
Page(options, from, version) ==
  LET all == LinesOf(options)
      page == SubSeq(all, from, IF from + PageSize > Len(all) THEN Len(all) ELSE from + PageSize - 1)
      kept == Kept(page, {l \in ToSet(Lines) : currencyFilter(options.currency, l)})
  IN [i \in DOMAIN kept |->
        [currency |-> kept[i].currency, counterparty |-> kept[i].counterparty,
         value |-> version]]

Limited(limit, n) == IF limit = 0 \/ n < limit THEN n ELSE limit

(* Mutant of formatBalances: the limit is that of the trust lines.         *)
formatAllBalances(options, xrp, trustlines) ==
  LET shown == options.counterparty = "" /\ options.currency \in {"", "XRP"}
  IN (IF shown THEN <<[currency |-> "XRP", counterparty |-> "", value |-> xrp]>> ELSE <<>>)
       \o trustlines
formatBalances(options, xrp, trustlines) ==
  LET shown == options.counterparty = "" /\ options.currency \in {"", "XRP"}
      result == (IF shown THEN <<[currency |-> "XRP", counterparty |-> "", value |-> xrp]>>
                 ELSE <<>>) \o trustlines
  IN SubSeq(result, 1, Limited(options.limit, Len(result)))

(* The version that an api asks for: the one given, or the last it heard   *)
(* when it was called, even if it is answered after it has reconnected.    *)
ensureLedgerVersion(options, s) ==
  IF options.ledgerVersion # 0 THEN options.ledgerVersion ELSE heard[s]
VersionFor(method, options, s) ==
  IF method = "getAccountInfo" /\ options.ledgerVersion = 0 THEN VALIDATED
  ELSE ensureLedgerVersion(options, s)

(* RestrictedConnection.request, of null and of versions not heard of.     *)
Permitted(version, latest) == version = VALIDATED \/ (version # 0 /\ version <= latest)

Begun(status, version) == [status |-> status, version |-> version, answer |-> None]
Denied(version, error) == [status |-> "failed", version |-> version, answer |-> error]

(* Connection.request.  One that is made before the socket is open cannot  *)
(* be sent, but is rejected when the connection is ready, or, unless the   *)
(* socket was dead already, when the socket closes.                        *)
Request(version, s) ==
  IF ~Permitted(version, heard[s]) THEN Denied(version, LedgerVersionError)
  ELSE IF link[s] = "none" THEN Denied(version, NotConnectedError)
  ELSE IF link[s] = "connecting" THEN Begun("doomed", version)
  ELSE IF link[s] = "dead" THEN Begun("stuck", version)
  ELSE Begun("sent", version)

(* _whenReady, of getLedgerVersion, and then the request.                  *)
WhenReady(version, s) ==
  IF link[s] = "none" THEN Denied(version, NotConnectedError)
  ELSE IF link[s] = "ready" THEN Request(version, s)
  ELSE Begun("waiting", version)

(* A given version is asked for at once by all but getTrustlines.          *)
Started(method, options, s) ==
  LET version == VersionFor(method, options, s)
  IN [xrp |-> IF options.ledgerVersion # 0 \/ method = "getAccountInfo"
              THEN Request(version, s) ELSE WhenReady(version, s),
      lines |-> IF method = "getBalances" THEN WhenReady(version, s) ELSE Part("idle"),
      got |-> <<>>]

(* Trust lines fail a few reactions before the balance does.               *)
Failure(j) ==
  IF j.lines.status = "failed" THEN j.lines.answer
  ELSE IF j.xrp.status = "failed" THEN j.xrp.answer ELSE None

(* The answer of the one request of getBalanceSheet and getAccountInfo.    *)
Sheet(j) == <<[currency |-> "XRP", counterparty |-> "", value |-> j.xrp.answer.value]>>

Outcome(method, options, j) ==
  IF Failure(j) # None THEN Failure(j)
  ELSE IF j.xrp.status = "done" /\ j.lines.status \in {"done", "idle"}
  THEN [value |-> IF method # "getBalances" THEN Sheet(j)
                  ELSE formatBalances(options, j.xrp.answer.value, j.got)]
  ELSE None

(* Promise.race: the first api whose promise is settled.  What the others  *)
(* still do changes nothing, and is forgotten.                             *)
Settle(s, j) ==
  LET result == Outcome(call.method, call.options, j)
  IN IF result = None THEN job' = [job EXCEPT ![s] = j] /\ UNCHANGED race
     ELSE /\ race' = [by |-> s, result |-> result]
          /\ job' = [api \in Servers |-> Idle]

(* All apis are called in one turn; one may fail at once.                  *)
Call(method, options) ==
  /\ call = None
  /\ call' = [method |-> method, options |-> options, since |-> heard,
              ready |-> \E s \in Servers : link[s] \in {"none", "ready"}]
  /\ LET started == [s \in Servers |-> Started(method, options, s)]
         over == {s \in Servers : Failure(started[s]) # None}
     IN IF over = {} THEN job' = started /\ UNCHANGED race
        ELSE /\ \E s \in over : race' = [by |-> s, result |-> Failure(started[s])]
             /\ job' = [s \in Servers |-> Idle]
  /\ UNCHANGED <<links, events>>

(* The server has the ledgers that it has validated, and tells its last.   *)
AnswersXrp(s) ==
  /\ link[s] \in {"open", "ready"} /\ job[s].xrp.status = "sent"
  /\ LET version == IF job[s].xrp.version = VALIDATED THEN server[s] ELSE job[s].xrp.version
     IN Settle(s, [job[s] EXCEPT !.xrp = [@ EXCEPT !.status = "done",
                                                   !.answer = [value |-> version]]])
  /\ UNCHANGED <<links, events, call>>

(* getRecursive: more pages while the limit is not reached.                *)
AnswersLines(s) ==
  /\ link[s] \in {"open", "ready"} /\ job[s].lines.status = "sent"
  /\ LET j == job[s]
         options == call.options
         from == IF j.lines.answer = None THEN 1 ELSE j.lines.answer.marker
         all == j.got \o Page(options, from, j.lines.version)
         more == /\ from + PageSize <= Len(LinesOf(options))
                 /\ options.limit = 0 \/ Len(all) < options.limit
     IN Settle(s, [j EXCEPT
                     !.got = SubSeq(all, 1, Limited(options.limit, Len(all))),
                     !.lines = IF more THEN [@ EXCEPT !.answer = [marker |-> from + PageSize]]
                               ELSE [@ EXCEPT !.status = "done"]])
  /\ UNCHANGED <<links, events, call>>

(* Mutant of Rejected: nobody is told.                                     *)
Unrejected(j, error, which) == j
Rejected(j, error, which) ==
  LET Fail(part) == IF part.status \in which
                    THEN [part EXCEPT !.status = "failed", !.answer = error] ELSE part
  IN [j EXCEPT !.xrp = Fail(@), !.lines = Fail(@)]

(* The timer of a request, which starts when the connection is ready.      *)
TimesOut(s) ==
  /\ link[s] = "ready"
  /\ "sent" \in {job[s].xrp.status, job[s].lines.status}
  /\ Settle(s, Rejected(job[s], TimeoutError, {"sent"}))
  /\ UNCHANGED <<links, events, call>>

-----------------------------------------------------------------------------
(* The connections                                                         *)

Validates(s) ==
  /\ server[s] < MaxVersion
  /\ server' = [server EXCEPT ![s] = @ + 1]
  /\ wire' = IF link[s] = "ready" THEN [wire EXCEPT ![s] = Append(@, server[s] + 1)] ELSE wire
  /\ UNCHANGED <<link, heard, losses, events, call, job, race>>

(* connect(), of the application or of the timer that connects again.      *)
Creates(s) ==
  /\ link[s] \in {"none", "dead"}
  /\ link' = [link EXCEPT ![s] = "connecting"]
  /\ UNCHANGED <<server, heard, wire, losses, events, call, job, race>>

Opens(s) ==
  /\ link[s] = "connecting"
  /\ link' = [link EXCEPT ![s] = "open"]
  /\ UNCHANGED <<server, heard, wire, losses, events, call, job, race>>

(* The answer of subscribe tells the version.  What waits for the event    *)
(* connected goes on: as a request, or to be rejected, being unsent.       *)
Connects(s) ==
  /\ link[s] = "open"
  /\ link' = [link EXCEPT ![s] = "ready"]
  /\ heard' = [heard EXCEPT ![s] = server[s]]
  /\ LET Resumed(part) ==
           IF part.status = "waiting" /\ Permitted(part.version, server[s])
           THEN [part EXCEPT !.status = "sent"]
           ELSE IF part.status = "waiting" THEN Denied(part.version, LedgerVersionError)
           ELSE IF part.status \in {"doomed", "stuck"}
           THEN Denied(part.version, DisconnectedError)
           ELSE part
     IN IF call = None \/ race # None THEN UNCHANGED <<job, race>>
        ELSE Settle(s, [job[s] EXCEPT !.xrp = Resumed(@), !.lines = Resumed(@)])
  /\ UNCHANGED <<server, wire, losses, events, call>>

(* A socket closes before the connection is ready, and connect makes       *)
(* another in its place; or an error ends its connecting; or a connection  *)
(* is lost, or given up by the application or for want of a ledger.  The   *)
(* requests of that socket are rejected; what waits for a version goes on  *)
(* waiting.                                                                *)
Loses(s) ==
  /\ losses < Losses
  /\ \E after \in Sockets :
       /\ \/ link[s] \in {"connecting", "open"} /\ after = "connecting"
          \/ link[s] = "connecting" /\ after = "dead"
          \/ link[s] \in {"open", "ready"} /\ after = "none"
       /\ link' = [link EXCEPT ![s] = after]
  /\ wire' = [wire EXCEPT ![s] = <<>>]
  /\ losses' = losses + 1
  /\ IF call = None \/ race # None THEN UNCHANGED <<job, race>>
     ELSE Settle(s, Rejected(job[s], DisconnectedError, {"sent", "doomed"}))
  /\ UNCHANGED <<server, heard, events, call>>

isConnected == \A s \in Servers : link[s] = "ready"

-----------------------------------------------------------------------------

Options ==
  [counterparty : {"", "gate"}, currency : {"", "XRP", "USD"}, limit : {0, 2},
   ledgerVersion : {0, 2}]

(* The other two have no options but the version.                          *)
OptionsOf(method) ==
  {o \in Options : method # "getBalances" =>
                     o.counterparty = "" /\ o.currency = "" /\ o.limit = 0}

Init ==
  /\ server \in [Servers -> 1 .. 2]
  /\ link = [s \in Servers |-> "none"]
  /\ heard = [s \in Servers |-> 0]
  /\ wire = [s \in Servers |-> <<>>]
  /\ losses = 0
  /\ ledgerVersion = 0 /\ emitted = <<>> /\ told = {}
  /\ call = None
  /\ job = [s \in Servers |-> Idle]
  /\ race = None

Calls == \E method \in Methods : \E options \in OptionsOf(method) : Call(method, options)

Next ==
  \/ Calls
  \/ \E s \in Servers :
       \/ Hears(s) \/ AnswersXrp(s) \/ AnswersLines(s) \/ TimesOut(s)
       \/ Validates(s) \/ Creates(s) \/ Opens(s) \/ Connects(s) \/ Loses(s)

(* Timers end; nothing is asked of the servers or of the network.          *)
Fairness == \A s \in Servers : WF_vars(TimesOut(s))

Spec == Init /\ [][Next]_vars /\ Fairness

-----------------------------------------------------------------------------
(* Properties                                                              *)

(* Of the ledgers that the apis emit, the broadcast emits those that are   *)
(* later than all before, at once: each once, none after a later one, and  *)
(* always the latest, however far servers are behind one another and       *)
(* whichever are lost and come back (broadcast.js 49;                      *)
(* src/test/broadcast-api-test.js, 'ledger').                              *)
EmittedOnce ==
  /\ \A i, k \in DOMAIN emitted : i < k => emitted[i] < emitted[k]
  /\ ToSet(emitted) \subseteq told
  /\ told # {} => emitted # <<>> /\ Last(emitted) = Max(told)

(* A call that is answered has the balances of one ledger of one server,   *)
(* although they are of several requests between which ledgers are         *)
(* validated: the one that was asked for, or one that is no older than     *)
(* what that server's api had heard when it was called.  They are the ones *)
(* that the options select, XRP first, and at most as many as their limit  *)
(* (docs/index.md 1396-1399).                                              *)
AnswerIsOfOneLedger ==
  race # None /\ ~IsError(race.result) =>
    LET options == call.options
        answer == race.result.value
        lines == Kept(Lines, {l \in ToSet(Lines) : peerFilter(options.counterparty, l)
                                                     /\ currencyFilter(options.currency, l)})
        xrp == options.counterparty = "" /\ options.currency \in {"", "XRP"}
        wanted == (IF xrp THEN <<[currency |-> "XRP", counterparty |-> ""]>> ELSE <<>>)
                    \o IF call.method = "getBalances" THEN lines ELSE <<>>
    IN /\ [i \in DOMAIN answer |-> [currency |-> answer[i].currency,
                                    counterparty |-> answer[i].counterparty]]
            = SubSeq(wanted, 1, Limited(options.limit, Len(wanted)))
       /\ \E v \in Versions :
            /\ \A i \in DOMAIN answer : answer[i].value = v
            /\ v <= server[race.by]
            /\ IF options.ledgerVersion # 0 THEN v = options.ledgerVersion
               ELSE v >= call.since[race.by]

(* A call that is made when one of the apis is ready is settled in the     *)
(* end, whichever servers answer, are lost or say nothing, and so is one   *)
(* that is made when an api has no socket, which fails at once             *)
(* (connection.js 342, 391, 441-443).  Nothing need settle a call whose    *)
(* apis are all connecting to servers that say nothing, not even a timer.  *)
RaceSettles == call # None /\ call.ready ~> race # None

=============================================================================
