--------------------------- MODULE RequestsProofs ---------------------------
(***************************************************************************)
(* Theorems about Requests for every number of requests, every behaviour   *)
(* of the server and every life of the socket that Link allows.            *)
(***************************************************************************)
EXTENDS Requests, TLAPS

(* Requests are numbered as their ids are, and no two share one: so the    *)
(* event of a response is listened to by its own request only.             *)
Numbered ==
  /\ nextID = made + 1
  /\ \A r \in Made : id[r] = r
  /\ \A l \in events : l.id = l.r

(* The numbers that are not in use.                                        *)
UnmadeFresh ==
  \A r \in Requests : r > made => outcome[r] = "pending" /\ result[r] = 0

RInv ==
  /\ TypeOK
  /\ Numbered
  /\ UnmadeFresh
  /\ OwnAnswer
  /\ PendingIsHeard
  /\ SettledIsSilent
  /\ NoneOutlives

(* RInv holds initially.                                                   *)
LEMMA Initially == Init => RInv
<1> SUFFICES ASSUME Init PROVE RInv
  OBVIOUS
<1> USE DEF Init
<1>1. LinkType
  BY DEF LinkInit, LinkType
<1>2. TypeOK
  BY <1>1, RequestsAssumption DEF TypeOK, Outcomes, Requests, Made
<1>3. Made = {}
  BY DEF Made
<1> QED
  BY <1>2, <1>3 DEF RInv, Numbered, UnmadeFresh, OwnAnswer, PendingIsHeard,
                    SettledIsSilent, NoneOutlives, Pending

(* Numbers, and what removing the events of some of them leaves.           *)
LEMMA MadeFacts ==
  ASSUME RInv
  PROVE  /\ made \in Nat
         /\ Made \subseteq Requests
         /\ \A r \in Requests : r \in Made <=> r <= made
BY RequestsAssumption DEF RInv, TypeOK, Made, Requests

(* The listeners that WithoutEvents leaves.                                *)
LEMMA WithoutEventsFacts ==
  ASSUME RInv, NEW qs \in SUBSET Made
  PROVE  /\ WithoutEvents(Ids(qs)) \subseteq events
         /\ \A l \in events : l \in WithoutEvents(Ids(qs)) <=> l.r \notin qs
<1>1. \A l \in events : l.r \in Made /\ l.id = l.r
  BY DEF RInv, TypeOK, Numbered
<1>2. \A v : v \in Ids(qs) <=> v \in qs
  BY DEF Ids, RInv, Numbered
<1> QED
  BY <1>1, <1>2 DEF WithoutEvents

(* Settling the requests qs and cleaning up after them, whatever else the  *)
(* step does to the sending of requests.                                   *)
LEMMA SettleKeeps ==
  ASSUME RInv, NEW qs \in SUBSET Made, NEW how \in Outcomes,
         how \notin {"pending", "notConnected"},
         Settle(qs, how),
         timers' \subseteq timers, hears' = hears \ qs,
         events' = WithoutEvents(Ids(qs)),
         UNCHANGED <<made, nextID, id, sent>>
  PROVE  /\ outcome' \in [Requests -> Outcomes]
         /\ events' \in SUBSET [id : Requests, r : Made]
         /\ Pending' = Pending \ qs
         /\ Numbered'
         /\ PendingIsHeard'
         /\ SettledIsSilent'
         /\ \A r \in Requests : r > made => outcome'[r] = "pending"
<1>1. outcome' \in [Requests -> Outcomes]
  BY DEF Settle, RInv, TypeOK
<1>2. Made' = Made
  BY DEF Made
<1>3. \A r \in Requests : outcome'[r] = IF r \in qs /\ outcome[r] = "pending"
                                        THEN how ELSE outcome[r]
  BY DEF Settle
<1>4. Pending' = Pending \ qs
  BY <1>2, <1>3, MadeFacts DEF Pending
<1>5. \A l \in events : l \in events' <=> l.r \notin qs
  BY WithoutEventsFacts
<1>6. events' \subseteq events
  BY WithoutEventsFacts
<1>7. events' \in SUBSET [id : Requests, r : Made]
  BY <1>6 DEF RInv, TypeOK
<1>8. Numbered'
  BY <1>2, <1>6 DEF RInv, Numbered
<1>9. PendingIsHeard'
  <2> SUFFICES ASSUME NEW r \in Pending' \cap sent
               PROVE  r \in hears' /\ [id |-> id[r], r |-> r] \in events'
    BY DEF PendingIsHeard
  <2>1. r \in Pending /\ r \notin qs
    BY <1>4
  <2>2. r \in hears /\ [id |-> id[r], r |-> r] \in events
    BY <2>1 DEF RInv, PendingIsHeard
  <2> QED
    BY <1>5, <2>1, <2>2
<1>10. SettledIsSilent'
  <2> SUFFICES ASSUME NEW r \in Made, r \notin Pending'
               PROVE  /\ r \notin hears'
                      /\ outcome'[r] # "notConnected" => \A l \in events' : l.r # r
    BY <1>2 DEF SettledIsSilent
  <2>1. CASE r \in qs
    BY <1>5, <1>6, <2>1
  <2>2. CASE r \notin qs
    <3>1. r \notin Pending /\ outcome'[r] = outcome[r]
      BY <1>3, <1>4, <2>2, MadeFacts
    <3> QED
      BY <1>6, <3>1 DEF RInv, SettledIsSilent
  <2> QED
    BY <2>1, <2>2
<1>11. \A r \in Requests : r > made => outcome'[r] = "pending"
  BY <1>3, MadeFacts DEF RInv, UnmadeFresh, Requests
<1> QED
  BY <1>1, <1>4, <1>7, <1>8, <1>9, <1>10, <1>11

-----------------------------------------------------------------------------
(* One lemma per action                                                    *)

(* MakeRequest takes the next number; a message goes to an open socket.    *)
LEMMA MakeRequestKeeps ==
  ASSUME RInv, NEW r \in Requests, NEW at, MakeRequest(r, at),
         LinkType', at = "open" => phase' = "open",
         phase' = phase \/ (phase = "connecting" /\ phase' = "open"),
         UNCHANGED <<result, timers>>, sub' \in {sub, r}
  PROVE  RInv'
<1> USE DEF MakeRequest
<1>1. /\ made' = made + 1 /\ r = made + 1 /\ Made' = Made \cup {r} /\ r \notin Made
      /\ made' \in 0 .. MaxRequests /\ nextID = r
  BY MadeFacts, RequestsAssumption DEF RInv, TypeOK, Numbered, Made, Requests
<1>2. /\ id' = [id EXCEPT ![r] = r]
      /\ events' = events \cup {[id |-> r, r |-> r]}
  BY <1>1
<1>3. \A q \in Made : id'[q] = id[q] /\ outcome'[q] = outcome[q] /\ q # r
  BY <1>1, <1>2, MadeFacts DEF RInv, TypeOK
<1>4. /\ id' \in [Requests -> 0 .. MaxRequests] /\ id'[r] = r
      /\ nextID' = nextID + 1 /\ nextID' \in 1 .. MaxRequests + 1
  BY <1>1, <1>2, RequestsAssumption DEF RInv, TypeOK, NextID, Requests
<1>5. outcome' \in [Requests -> Outcomes] /\ result' \in [Requests -> 0 .. MaxRequests]
  BY DEF RInv, TypeOK, Outcomes
<1>6. chain' \in [Requests -> {"none", "waiting", "sending", "done"}]
  BY DEF RInv, TypeOK
<1>7. /\ sent' \in SUBSET (sent \cup {r}) /\ atServer' \in SUBSET (atServer \cup {r})
      /\ hears' \in SUBSET (hears \cup {r}) /\ hears \subseteq hears'
      /\ sent' \ sent = atServer' \ atServer /\ atServer \subseteq atServer'
      /\ sent \subseteq sent'
  BY <1>1 DEF RInv, TypeOK
<1>8. TypeOK'
  <2>1. events' \in SUBSET [id : Requests, r : Made']
    BY <1>1, <1>2 DEF RInv, TypeOK
  <2>2. sub' \in 0 .. made'
    BY <1>1, RequestsAssumption DEF RInv, TypeOK
  <2>3. atServer' \in SUBSET sent'
    BY <1>7 DEF RInv, TypeOK
  <2>4. sent' \in SUBSET Made' /\ hears' \in SUBSET Made' /\ timers' \in SUBSET Made'
    BY <1>1, <1>7 DEF RInv, TypeOK
  <2> QED
    BY <1>1, <1>4, <1>5, <1>6, <2>1, <2>2, <2>3, <2>4 DEF TypeOK
<1>9. Numbered'
  BY <1>1, <1>2, <1>3, <1>4 DEF RInv, Numbered, TypeOK
<1>10. UnmadeFresh'
  <2> SUFFICES ASSUME NEW q \in Requests, q > made'
               PROVE  outcome'[q] = "pending" /\ result'[q] = 0
    BY DEF UnmadeFresh
  <2>1. q # r /\ q > made
    BY <1>1, MadeFacts DEF Requests
  <2>2. outcome'[q] = outcome[q]
    BY <2>1 DEF RInv, TypeOK
  <2> QED
    BY <2>1, <2>2 DEF RInv, UnmadeFresh
<1>11. OwnAnswer'
  BY <1>1, <1>3, MadeFacts DEF RInv, OwnAnswer, UnmadeFresh, Requests
<1>12. \A q \in Made : q \in Pending' <=> q \in Pending
  BY <1>1, <1>3 DEF Pending
<1>13. r \in Pending' <=> at # "none"
  <2>1. outcome[r] = "pending"
    BY <1>1, MadeFacts DEF RInv, UnmadeFresh
  <2>2. outcome'[r] = "pending" <=> at # "none"
    BY <2>1 DEF RInv, TypeOK
  <2> QED
    BY <1>1, <2>2 DEF Pending
<1>14. PendingIsHeard'
  <2> SUFFICES ASSUME NEW q \in Pending' \cap sent'
               PROVE  q \in hears' /\ [id |-> id'[q], r |-> q] \in events'
    BY DEF PendingIsHeard
  <2>1. CASE q = r
    BY <1>2, <1>4, <1>13, <2>1
  <2>2. CASE q # r
    BY <1>1, <1>2, <1>3, <1>7, <1>12, <2>2 DEF RInv, PendingIsHeard, Pending
  <2> QED
    BY <2>1, <2>2
<1>15. SettledIsSilent'
  <2> SUFFICES ASSUME NEW q \in Made', q \notin Pending'
               PROVE  /\ q \notin hears'
                      /\ outcome'[q] # "notConnected" => \A l \in events' : l.r # q
    BY DEF SettledIsSilent
  <2>1. CASE q = r
    BY <1>1, <1>13, <2>1 DEF RInv, TypeOK
  <2>2. CASE q # r
    <3>1. q \in Made /\ q \notin Pending /\ outcome'[q] = outcome[q]
      BY <1>1, <1>3, <1>12, <2>2
    <3> QED
      BY <1>2, <1>7, <2>2, <3>1 DEF RInv, SettledIsSilent
  <2> QED
    BY <2>1, <2>2
<1>16. NoneOutlives'
  <2> SUFFICES ASSUME NEW q \in Pending' \cap sent'
               PROVE  phase' \in {"open", "closing"} /\ q \in atServer'
    BY DEF NoneOutlives
  <2>1. CASE q = r
    <3>1. q \notin sent
      BY <1>1, <2>1 DEF RInv, TypeOK
    <3> QED
      BY <1>7, <2>1, <3>1
  <2>2. CASE q # r
    BY <1>1, <1>7, <1>12, <2>2 DEF RInv, NoneOutlives, Pending
  <2> QED
    BY <2>1, <2>2
<1> QED
  BY <1>8, <1>9, <1>10, <1>11, <1>14, <1>15, <1>16 DEF RInv

(* A step that settles nothing and only moves the chains, the timeouts or  *)
(* the phase of a socket, out of which no sent request is pending.         *)
LEMMA QuietKeeps ==
  ASSUME RInv, LinkType',
         \/ phase' = phase
         \/ phase = "open" /\ phase' = "closing"
         \/ phase \in {"none", "dead", "connecting"},
         chain' \in [Requests -> {"none", "waiting", "sending", "done"}],
         timers' \in SUBSET Made,
         hears' = hears \/ (hears' = {} /\ phase \in {"none", "dead"}),
         UNCHANGED <<settleVars, made, nextID, id, sent, atServer, events, sub>>
  PROVE  RInv'
<1> USE DEF settleVars
<1>1. Made' = Made /\ Pending' = Pending
  BY DEF Made, Pending
<1>2. hears' \in SUBSET Made
  BY DEF RInv, TypeOK
<1>3. TypeOK'
  BY <1>1, <1>2 DEF RInv, TypeOK
<1>4. Numbered' /\ UnmadeFresh' /\ OwnAnswer'
  BY <1>1 DEF RInv, Numbered, UnmadeFresh, OwnAnswer
<1>5. phase \notin {"open", "closing"} => Pending \cap sent = {}
  BY DEF RInv, NoneOutlives
<1>6. PendingIsHeard'
  BY <1>1, <1>5 DEF RInv, PendingIsHeard
<1>7. SettledIsSilent'
  BY <1>1 DEF RInv, SettledIsSilent
<1>8. NoneOutlives'
  BY <1>1, <1>5 DEF RInv, NoneOutlives
<1> QED
  BY <1>3, <1>4, <1>6, <1>7, <1>8 DEF RInv

(* A request that is sent keeps RInv.                                      *)
LEMMA SendSucceedsKeeps ==
  ASSUME RInv, NEW r \in Made, SendSucceeds(r) PROVE RInv'
<1>1. chain' \in [Requests -> {"none", "waiting", "sending", "done"}]
  BY DEF RInv, TypeOK, SendSucceeds
<1>2. timers' \in SUBSET Made
  BY DEF RInv, TypeOK, SendSucceeds, StartTimeout
<1>3. LinkType' /\ phase' = phase
  BY DEF RInv, TypeOK, LinkType, SendSucceeds, link
<1> QED
  BY <1>1, <1>2, <1>3, QuietKeeps DEF SendSucceeds

(* The rejections of one request, by its chain or by its timeout.          *)
LEMMA RejectKeeps ==
  ASSUME RInv, NEW r \in Made, NEW how \in {"timeout", "disconnected"},
         Settle({r}, how), Cleanup({r}),
         chain' \in [Requests -> {"none", "waiting", "sending", "done"}],
         UNCHANGED <<link, result, made, nextID, id, sent, atServer, sub>>
  PROVE  RInv'
<1>1. Made' = Made /\ {r} \in SUBSET Made /\ how \in Outcomes
  BY DEF Made, Outcomes
<1>2. /\ outcome' \in [Requests -> Outcomes]
      /\ events' \in SUBSET [id : Requests, r : Made]
      /\ Pending' = Pending \ {r}
      /\ Numbered' /\ PendingIsHeard' /\ SettledIsSilent'
      /\ \A q \in Requests : q > made => outcome'[q] = "pending"
  BY <1>1, SettleKeeps DEF Cleanup
<1>3. hears' \in SUBSET Made /\ timers' \in SUBSET Made
  BY DEF RInv, TypeOK, Cleanup
<1>4. TypeOK'
  BY <1>1, <1>2, <1>3 DEF RInv, TypeOK, LinkType, link
<1>5. UnmadeFresh' /\ OwnAnswer'
  BY <1>1, <1>2 DEF RInv, UnmadeFresh, OwnAnswer
<1>6. NoneOutlives'
  BY <1>2 DEF RInv, NoneOutlives, link
<1> QED
  BY <1>2, <1>4, <1>5, <1>6 DEF RInv

(* A response is heard by the request whose message it answers, if at all. *)
LEMMA AnswerKeeps ==
  ASSUME RInv, NEW r \in atServer, NEW how \in {"answered", "refused"},
         Answer(r, how)
  PROVE  RInv'
<1> DEFINE heard == {l.r : l \in {x \in events : x.id = id[r]}}
<1>1. Made' = Made /\ how \in Outcomes /\ r \in Made
  BY DEF Made, Outcomes, Answer, sendVars, RInv, TypeOK
<1>2. heard \subseteq {r}
  BY <1>1 DEF RInv, Numbered
<1>3. /\ heard \in SUBSET Made
      /\ Settle(heard, how) /\ Cleanup(heard)
      /\ atServer' = atServer \ {r}
      /\ result' = [q \in Requests |->
                      IF q \in heard /\ outcome[q] = "pending" THEN r ELSE result[q]]
      /\ UNCHANGED <<link, sendVars, sub>>
  BY <1>1, <1>2 DEF Answer
<1>4. r \in Pending => r \in heard
  <2>1. ASSUME r \in Pending PROVE [id |-> id[r], r |-> r] \in events
    BY <2>1 DEF RInv, TypeOK, PendingIsHeard
  <2> QED
    BY <2>1
<1> HIDE DEF heard
<1>5. /\ outcome' \in [Requests -> Outcomes]
      /\ events' \in SUBSET [id : Requests, r : Made]
      /\ Pending' = Pending \ heard
      /\ Numbered' /\ PendingIsHeard' /\ SettledIsSilent'
      /\ \A q \in Requests : q > made => outcome'[q] = "pending"
  BY <1>1, <1>3, SettleKeeps DEF Cleanup, sendVars
<1>6. hears' \in SUBSET Made /\ timers' \in SUBSET Made /\ atServer' \in SUBSET sent
  BY <1>3 DEF RInv, TypeOK, Cleanup
<1>7. result' \in [Requests -> 0 .. MaxRequests]
  BY <1>1, <1>3, MadeFacts DEF RInv, TypeOK, Requests
<1>8. TypeOK'
  BY <1>1, <1>3, <1>5, <1>6, <1>7 DEF RInv, TypeOK, LinkType, link, sendVars
<1>9. OwnAnswer'
  BY <1>1, <1>2, <1>3, MadeFacts DEF RInv, OwnAnswer
<1>10. UnmadeFresh'
  <2>1. \A q \in Requests : q > made => q \notin heard
    BY <1>3, MadeFacts DEF Requests
  <2>2. made' = made
    BY <1>3 DEF sendVars
  <2> QED
    BY <1>3, <1>5, <2>1, <2>2 DEF RInv, UnmadeFresh
<1>11. NoneOutlives'
  BY <1>3, <1>4, <1>5 DEF RInv, NoneOutlives, link, sendVars
<1> QED
  BY <1>5, <1>8, <1>9, <1>10, <1>11 DEF RInv

(* A close event rejects every request that was sent on the socket.        *)
LEMMA SocketClosedKeeps == ASSUME RInv, SocketClosed PROVE RInv'
<1>1. /\ Settle(hears, "disconnected")
      /\ timers' = timers \ hears /\ hears' = {}
      /\ events' = WithoutEvents(Ids(hears))
      /\ atServer' = {} /\ sub' = 0
      /\ UNCHANGED <<result, made, nextID, id, chain, sent>>
  BY DEF SocketClosed, Disconnected, sendVars
<1>2. LinkType'
  BY DEF SocketClosed, Recreate, Gone, Fail, RInv, TypeOK, LinkType
<1>3. Made' = Made /\ hears \in SUBSET Made /\ "disconnected" \in Outcomes
  BY <1>1 DEF Made, Outcomes, RInv, TypeOK
<1>4. hears' = hears \ hears
  BY <1>1
<1>5. /\ outcome' \in [Requests -> Outcomes]
      /\ events' \in SUBSET [id : Requests, r : Made]
      /\ Pending' = Pending \ hears
      /\ Numbered' /\ PendingIsHeard' /\ SettledIsSilent'
      /\ \A q \in Requests : q > made => outcome'[q] = "pending"
  BY <1>1, <1>3, <1>4, SettleKeeps
<1>6. sub' \in 0 .. made' /\ timers' \in SUBSET Made
  BY <1>1, MadeFacts DEF RInv, TypeOK
<1>7. TypeOK'
  BY <1>1, <1>2, <1>3, <1>5, <1>6 DEF RInv, TypeOK
<1>8. UnmadeFresh' /\ OwnAnswer'
  BY <1>1, <1>3, <1>5 DEF RInv, UnmadeFresh, OwnAnswer
<1>9. NoneOutlives'
  <2>1. Pending' \cap sent' = {}
    BY <1>1, <1>5 DEF RInv, PendingIsHeard
  <2> QED
    BY <2>1 DEF NoneOutlives
<1> QED
  BY <1>5, <1>7, <1>8, <1>9 DEF RInv

-----------------------------------------------------------------------------
(* The theorems                                                            *)

(* RInv holds in every reachable state.                                    *)
LEMMA Inductive == Spec => []RInv
<1>1. RInv /\ [Next]_vars => RInv'
  <2> SUFFICES ASSUME RInv, [Next]_vars PROVE RInv'
    OBVIOUS
  <2> USE DEF RInv
  <2>1. ASSUME NEW r \in Requests, Request(r) PROVE RInv'
    <3>1. LinkType' /\ phase' = phase
      BY <2>1 DEF Request, TypeOK, LinkType, link
    <3> QED
      BY <2>1, <3>1, MakeRequestKeeps DEF Request
  <2>2. ASSUME NEW r \in Made, SendSucceeds(r) PROVE RInv'
    BY <2>2, SendSucceedsKeeps
  <2>3. ASSUME NEW r \in Made, SendFails(r) PROVE RInv'
    <3>1. chain' \in [Requests -> {"none", "waiting", "sending", "done"}]
      BY <2>3 DEF SendFails, TypeOK
    <3> QED
      BY <2>3, <3>1, RejectKeeps DEF SendFails
  <2>4. ASSUME NEW r \in Made, TimeoutFires(r) PROVE RInv'
    <3>1. chain' \in [Requests -> {"none", "waiting", "sending", "done"}]
      BY <2>4 DEF TimeoutFires, TypeOK, sendVars
    <3> QED
      BY <2>4, <3>1, RejectKeeps DEF TimeoutFires, sendVars
  <2>5. ASSUME NEW r \in atServer, NEW how \in {"answered", "refused"}, Answer(r, how)
        PROVE  RInv'
    BY <2>5, AnswerKeeps
  <2>6. ASSUME NEW r \in Requests, SocketOpened(r) PROVE RInv'
    <3>1. LinkType' /\ phase = "connecting" /\ phase' = "open"
      BY <2>6 DEF SocketOpened, Open, TypeOK, LinkType
    <3> QED
      BY <2>6, <3>1, MakeRequestKeeps DEF SocketOpened
  <2>7. CASE SocketCreated
    BY <2>7, QuietKeeps DEF SocketCreated, Create, TypeOK, LinkType, sendVars
  <2>8. CASE Connected
    <3>1. LinkType' /\ phase' = phase
      BY <2>8 DEF Connected, BecomeReady, TypeOK, LinkType
    <3>2. chain' \in [Requests -> {"none", "waiting", "sending", "done"}]
      BY <2>8 DEF Connected, Released, TypeOK
    <3>3. timers' \in SUBSET Made
      BY <2>8 DEF Connected, TypeOK
    <3> QED
      BY <2>8, <3>1, <3>2, <3>3, QuietKeeps DEF Connected
  <2>9. CASE SocketClosing
    BY <2>9, QuietKeeps DEF SocketClosing, BeginClose, TypeOK, LinkType, sendVars
  <2>10. CASE SocketClosed
    BY <2>10, SocketClosedKeeps
  <2>11. CASE UNCHANGED vars
    <3>1. LinkType' /\ phase' = phase
      BY <2>11 DEF vars, TypeOK, LinkType, link
    <3> QED
      BY <2>11, <3>1, QuietKeeps DEF vars, sendVars, TypeOK
  <2> QED
    BY <2>1, <2>2, <2>3, <2>4, <2>5, <2>6, <2>7, <2>8, <2>9, <2>10, <2>11 DEF Next
<1> QED
  BY <1>1, Initially, PTL DEF Spec

(* Every variable has its type.                                            *)
THEOREM RequestsTyped == Spec => []TypeOK
BY Inductive, PTL DEF RInv

(* A request is settled with the response to its own message, in whatever  *)
(* order, however late and on whatever socket responses come.              *)
THEOREM AnswersMatch == Spec => []OwnAnswer
BY Inductive, PTL DEF RInv

(* While a request that was sent is pending, its response and the end of   *)
(* its socket are listened to.                                             *)
THEOREM PendingListens == Spec => []PendingIsHeard
BY Inductive, PTL DEF RInv

(* A settled request has left no listener behind.                          *)
THEOREM SettledLeavesNothing == Spec => []SettledIsSilent
BY Inductive, PTL DEF RInv

(* No request that was sent is pending after its socket has closed.        *)
THEOREM RequestsEndWithSocket == Spec => []NoneOutlives
BY Inductive, PTL DEF RInv

=============================================================================
