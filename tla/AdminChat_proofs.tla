--------------------------- MODULE AdminChat_proofs ---------------------------
(***************************************************************************)
(* Theorems about the assistant of an administrator, for any number of     *)
(* requests, resets, expiries and failures.                                *)
(***************************************************************************)
EXTENDS AdminChat, TLAPS

\* From the moment a session was found or created, the request has its id.
Holding == {"messages", "rebuild", "rekey", "setkey", "ask", "gemini", "save"}
SessionHeld == \A q \in Requests : pc[q] \in Holding => session[q] \in Sessions

Typed == TypeOK /\ SessionHeld

-----------------------------------------------------------------------------
\* What a list of turns has after turns are added at its end.
LEMMA HasAppended ==
    ASSUME NEW turns \in Seq(Turn), NEW turn \in Turn, NEW t
    PROVE /\ Append(turns, turn) \in Seq(Turn)
          /\ Has(Append(turns, turn), t) <=> Has(turns, t) \/ t = turn
<1>1. /\ Append(turns, turn) \in Seq(Turn)
      /\ Len(Append(turns, turn)) = Len(turns) + 1
      /\ \A i \in 1 .. Len(turns) : Append(turns, turn)[i] = turns[i]
      /\ Append(turns, turn)[Len(turns) + 1] = turn
      /\ Len(turns) \in Nat
  OBVIOUS
<1>2. ASSUME Has(turns, t) PROVE Has(Append(turns, turn), t)
  BY <1>1, <1>2 DEF Has
<1>3. ASSUME t = turn PROVE Has(Append(turns, turn), t)
  BY <1>1, <1>3 DEF Has
<1>4. ASSUME Has(Append(turns, turn), t), t # turn PROVE Has(turns, t)
  <2>1. PICK i \in 1 .. Len(turns) + 1 : Append(turns, turn)[i] = t
    BY <1>1, <1>4 DEF Has
  <2>2. i \in 1 .. Len(turns)
    BY <1>1, <1>4, <2>1
  <2> QED
    BY <1>1, <2>1, <2>2 DEF Has
<1> QED
  BY <1>1, <1>2, <1>3, <1>4

LEMMA HasExchange ==
    ASSUME NEW turns \in Seq(Turn), NEW a \in Turn, NEW b \in Turn, NEW t
    PROVE /\ turns \o <<a, b>> \in Seq(Turn)
          /\ turns \o <<a, b>> # <<>>
          /\ Has(turns \o <<a, b>>, t) <=> Has(turns, t) \/ t = a \/ t = b
<1> DEFINE longer == turns \o <<a, b>>
<1>1. /\ longer \in Seq(Turn)
      /\ Len(longer) = Len(turns) + 2
      /\ \A i \in 1 .. Len(turns) : longer[i] = turns[i]
      /\ longer[Len(turns) + 1] = a
      /\ longer[Len(turns) + 2] = b
      /\ Len(turns) \in Nat
  OBVIOUS
<1> HIDE DEF longer
<1>2. longer # <<>>
  BY <1>1
<1>3. ASSUME Has(turns, t) \/ t = a \/ t = b PROVE Has(longer, t)
  BY <1>1, <1>3 DEF Has
<1>4. ASSUME Has(longer, t), t # a, t # b PROVE Has(turns, t)
  <2>1. PICK i \in 1 .. Len(turns) + 2 : longer[i] = t
    BY <1>1, <1>4 DEF Has
  <2>2. i \in 1 .. Len(turns)
    BY <1>1, <1>4, <2>1
  <2> QED
    BY <1>1, <2>1, <2>2 DEF Has
<1> QED
  BY <1>1, <1>2, <1>3, <1>4 DEF longer

LEMMA NothingInEmpty == \A t : ~ Has(<<>>, t)
BY DEF Has

LEMMA EmptyIsTurns == <<>> \in Seq(Turn)
OBVIOUS

LEMMA TurnsAreTurns ==
    ASSUME NEW q \in Requests, NEW role \in Roles
    PROVE TurnOf(role, q) \in Turn
BY DEF TurnOf, Turn

-----------------------------------------------------------------------------
\* The steps of one request, of one saver, and the rest.
OfRequest(q) == Begin(q) \/ SendMessage(q)
OfSaver(s) == SaveMessage(s) \/ SaveMessageFails(s)
Outside == ResetSessions \/ ResetKeys \/ HistExpires \/ KeyExpires

LEMMA NextSplits ==
    ASSUME [Next]_vars
    PROVE \/ \E q \in Requests : OfRequest(q)
          \/ \E s \in savers : OfSaver(s)
          \/ Outside
          \/ UNCHANGED vars
BY DEF Next, OfRequest, OfSaver, Outside, Terminated

LEMMA TypedInit == Init => Typed
<1> SUFFICES ASSUME Init PROVE Typed
  OBVIOUS
<1> USE DEF Init
<1>1. SessionHeld
  BY DEF SessionHeld, Holding
<1>2. /\ pc \in [Requests -> Locations] /\ session \in [Requests -> Sessions \union {NoSession}]
      /\ history \in [Requests -> Seq(Turn)] /\ rows \in [Sessions -> Seq(Turn)]
      /\ histKey \in Seq(Turn) /\ started \in Seq(Sessions)
  BY EmptyIsTurns DEF Locations
<1>3. /\ epoch \in [Requests -> Nat] /\ before \in [Requests -> SUBSET Requests]
  OBVIOUS
<1> QED
  BY <1>1, <1>2, <1>3 DEF Typed, TypeOK

\* What moving on does to the program counters and what was loaded.
LEMMA Moves ==
    ASSUME Typed, NEW q \in Requests, NEW from, NEW to \in Locations, Goto(q, from, to)
    PROVE /\ pc[q] = from /\ pc'[q] = to
          /\ \A r \in Requests \ {q} : pc'[r] = pc[r]
          /\ pc' \in [Requests -> Locations]
BY DEF Typed, TypeOK, Goto

LEMMA Answers ==
    ASSUME Typed, NEW q \in Requests, NEW from, NEW to \in Locations, Answer(q, from, to)
    PROVE /\ pc[q] = from /\ pc'[q] = to /\ history'[q] = <<>>
          /\ \A r \in Requests \ {q} : pc'[r] = pc[r] /\ history'[r] = history[r]
          /\ pc' \in [Requests -> Locations] /\ history' \in [Requests -> Seq(Turn)]
BY Moves, EmptyIsTurns DEF Typed, TypeOK, Answer

LEMMA LoadsEnd ==
    ASSUME Typed, NEW q \in Requests, NEW from, NEW to \in Locations, Loads(q, from, to)
    PROVE /\ pc[q] = from
          /\ \/ pc'[q] = to /\ history' = history
             \/ pc'[q] = "shown" /\ history'[q] = <<>>
          /\ \A r \in Requests \ {q} : pc'[r] = pc[r] /\ history'[r] = history[r]
          /\ pc' \in [Requests -> Locations] /\ history' \in [Requests -> Seq(Turn)]
<1>1. "shown" \in Locations
  BY DEF Locations
<1>2. CASE Goto(q, from, to) /\ UNCHANGED history
  <2>1. history \in [Requests -> Seq(Turn)]
    BY DEF Typed, TypeOK
  <2>2. /\ pc[q] = from /\ pc'[q] = to
        /\ \A r \in Requests \ {q} : pc'[r] = pc[r]
        /\ pc' \in [Requests -> Locations]
    BY <1>2, Moves
  <2> QED
    BY <1>2, <2>1, <2>2
<1>3. CASE Answer(q, from, "shown")
  BY <1>1, <1>3, Answers
<1> QED
  BY <1>2, <1>3 DEF Loads

\* A request keeps the types.
LEMMA TypedRequest ==
    ASSUME Typed, NEW q \in Requests, OfRequest(q)
    PROVE Typed'
<1>0. \A l \in Holding \union {"hist", "key", "find", "endall", "create", "done", "shown", "failed"} :
        l \in Locations
  BY DEF Holding, Locations
<1> USE DEF Typed, TypeOK, SessionHeld, requests, redis, database, env, ghosts
<1>1. CASE Begin(q)
  BY <1>1 DEF Begin, Active, Goto, Holding, Locations
<1>2. CASE GetHist(q)
  <2>1. \E to \in {"key", "find"} : Goto(q, "hist", to)
    BY <1>2 DEF GetHist
  <2>2. pc' \in [Requests -> Locations] /\ SessionHeld'
    BY <1>0, <1>2, <2>1, Moves DEF GetHist, Holding
  <2>3. history' \in [Requests -> Seq(Turn)]
    BY <1>2 DEF GetHist
  <2>4. faults' \in Nat /\ resets' \in Nat /\ expiries' \in Nat
    BY <1>2 DEF GetHist, Fault
  <2> QED
    BY <1>2, <2>2, <2>3, <2>4 DEF GetHist
<1>3. CASE GetKey(q)
  <2>1. CASE sessionKey # NoSession /\ Loads(q, "key", "ask") /\ session' = [session EXCEPT ![q] = sessionKey]
             /\ UNCHANGED <<split, env>>
    <3>1. pc' \in [Requests -> Locations] /\ history' \in [Requests -> Seq(Turn)]
      BY <1>0, <2>1, LoadsEnd DEF Holding
    <3>2. SessionHeld'
      BY <1>0, <2>1, LoadsEnd DEF Holding
    <3> QED
      BY <1>3, <2>1, <3>1, <3>2 DEF GetKey
  <2>2. CASE Loads(q, "key", "endall") /\ UNCHANGED session
    <3>1. pc' \in [Requests -> Locations] /\ history' \in [Requests -> Seq(Turn)]
      BY <1>0, <2>2, LoadsEnd
    <3>2. pc'[q] \in {"endall", "shown"} /\ \A p \in Requests \ {q} : pc'[p] = pc[p]
      BY <1>0, <2>2, LoadsEnd
    <3>3. SessionHeld'
      BY <2>2, <3>2 DEF Holding
    <3>4. faults' \in Nat /\ resets' \in Nat /\ expiries' \in Nat
      BY <1>3, <2>2 DEF GetKey, Fault
    <3>5. split' = split \/ split' = (split \/ pc'[q] = "endall")
      BY <1>3 DEF GetKey
    <3>6. split' \in BOOLEAN
      BY <3>5
    <3> QED
      BY <1>3, <2>2, <3>1, <3>3, <3>4, <3>6 DEF GetKey
  <2> QED
    BY <1>3, <2>1, <2>2 DEF GetKey
<1>4. CASE Find(q)
  <2>1. CASE Loads(q, "find", "endall") /\ UNCHANGED session
    <3>1. pc' \in [Requests -> Locations] /\ history' \in [Requests -> Seq(Turn)]
      BY <1>0, <2>1, LoadsEnd
    <3>2. pc'[q] \in {"endall", "shown"} /\ \A p \in Requests \ {q} : pc'[p] = pc[p]
      BY <1>0, <2>1, LoadsEnd
    <3>3. SessionHeld'
      BY <2>1, <3>2 DEF Holding
    <3>4. split' \in BOOLEAN
      BY <1>4 DEF Find
    <3> QED
      BY <1>4, <2>1, <3>1, <3>3, <3>4 DEF Find
  <2>2. CASE /\ Goto(q, "find", "messages") /\ UNCHANGED <<history, split>>
             /\ \E s \in open : session' = [session EXCEPT ![q] = s]
    <3>1. /\ pc' \in [Requests -> Locations]
          /\ session' \in [Requests -> Sessions \union {NoSession}] /\ SessionHeld'
      BY <1>0, <2>2, Moves DEF Holding
    <3> QED
      BY <1>4, <2>2, <3>1 DEF Find
  <2> QED
    BY <1>4, <2>1, <2>2 DEF Find
<1>5. CASE Messages(q)
  BY <1>5, EmptyIsTurns DEF Messages, Holding, Locations, Goto, Fault
<1>6. CASE LoadFails(q)
  BY <1>6 DEF LoadFails, Holding, Locations, Goto, Fault
<1>7. CASE Rebuild(q)
  BY <1>7 DEF Rebuild, Holding, Locations, Goto, Fault
<1>8. CASE Rekey(q)
  <2>1. /\ pc' \in [Requests -> Locations] /\ history' \in [Requests -> Seq(Turn)]
        /\ SessionHeld' /\ session[q] \in Sessions
    BY <1>0, <1>8, LoadsEnd DEF Rekey, Holding
  <2>2. sessionKey' \in Sessions \union {NoSession}
        /\ faults' \in Nat /\ resets' \in Nat /\ expiries' \in Nat
    BY <1>8, <2>1 DEF Rekey, SetSessionKey, Fault
  <2> QED
    BY <1>8, <2>1, <2>2 DEF Rekey
<1>9. CASE EndAll(q)
  <2>1. pc' \in [Requests -> Locations] /\ SessionHeld'
    BY <1>0, <1>9, Moves DEF EndAll, Holding
  <2>2. open' \subseteq Sessions /\ faults' \in Nat /\ resets' \in Nat /\ expiries' \in Nat
    BY <1>9 DEF EndAll, Fault
  <2>3. together' = together \union {{q, p} : p \in {r \in Requests : pc[r] = "create"}}
    BY <1>9 DEF EndAll
  <2>4. together' \subseteq SUBSET Requests
    <3>1. \A p \in Requests : {q, p} \subseteq Requests
      OBVIOUS
    <3>2. \A pair \in together : pair \subseteq Requests
      OBVIOUS
    <3>3. SUFFICES ASSUME NEW pair \in together' PROVE pair \subseteq Requests
      OBVIOUS
    <3>4. pair \in together \/ \E p \in Requests : pair = {q, p}
      BY <2>3
    <3>5. CASE pair \in together
      BY <3>2, <3>5
    <3>6. CASE \E p \in Requests : pair = {q, p}
      <4>1. PICK p \in Requests : pair = {q, p}
        BY <3>6
      <4> QED
        BY <3>1, <4>1
    <3> QED
      BY <3>4, <3>5, <3>6
  <2> QED
    BY <1>9, <2>1, <2>2, <2>4 DEF EndAll
<1>10. CASE Create(q)
  BY <1>10 DEF Create, Sessions, Holding, Locations, Goto, Fault
<1>11. CASE CreateFails(q)
  BY <1>11 DEF CreateFails, Holding, Locations, Goto, Fault
<1>12. CASE SetKey(q)
  BY <1>12 DEF SetKey, SetSessionKey, Holding, Locations, Goto, Fault
<1>13. CASE Ask(q)
  BY <1>13 DEF Ask, Persist, TurnOf, Turn, Roles, Holding, Locations, Goto, Fault
<1>14. CASE Gemini(q)
  BY <1>14 DEF Gemini, Persist, TurnOf, Turn, Roles, Holding, Locations, Goto, Fault
<1>15. CASE GeminiFails(q)
  BY <1>15 DEF GeminiFails, Answer, Holding, Locations, Goto, Fault
<1>16. CASE SaveHistory(q)
  BY <1>16, HasExchange, TurnsAreTurns DEF SaveHistory, Answer, Roles, Holding, Locations, Goto, Fault
<1>17. CASE SaveHistoryFails(q)
  BY <1>17 DEF SaveHistoryFails, Answer, Holding, Locations, Goto, Fault
<1> QED
  BY <1>1, <1>2, <1>3, <1>4, <1>5, <1>6, <1>7, <1>8, <1>9, <1>10, <1>11, <1>12, <1>13,
     <1>14, <1>15, <1>16, <1>17 DEF OfRequest, SendMessage

\* So do the others.
LEMMA TypedOthers ==
    ASSUME Typed, (\E s \in savers : OfSaver(s)) \/ Outside \/ UNCHANGED vars
    PROVE Typed'
<1> USE DEF Typed, TypeOK, SessionHeld, Holding, Fault, requests, redis, database, env, ghosts
<1>1. ASSUME NEW s \in savers, SaveMessage(s) PROVE Typed'
  BY <1>1, HasAppended DEF SaveMessage
<1>2. ASSUME NEW s \in savers, SaveMessageFails(s) PROVE Typed'
  BY <1>2 DEF SaveMessageFails
<1>3. CASE ResetSessions
  BY <1>3 DEF ResetSessions
<1>4. CASE ResetKeys
  <2>1. resets' \in Nat
    BY <1>4 DEF ResetKeys
  <2>2. histKey' \in Seq(Turn)
    BY <1>4, EmptyIsTurns DEF ResetKeys
  <2>3. sessionKey' \in Sessions \union {NoSession}
    BY <1>4 DEF ResetKeys
  <2>4. resetting' \in BOOLEAN
    BY <1>4 DEF ResetKeys
  <2>5. faults' \in Nat
    BY <1>4 DEF ResetKeys
  <2>6. UNCHANGED <<requests, savers, database, expiries, ghosts>>
    BY <1>4 DEF ResetKeys
  <2> QED
    BY <2>1, <2>2, <2>3, <2>4, <2>5, <2>6
<1>5. CASE HistExpires
  BY <1>5, EmptyIsTurns DEF HistExpires, Expire
<1>6. CASE KeyExpires
  BY <1>6 DEF KeyExpires, Expire
<1>7. CASE UNCHANGED vars
  BY <1>7 DEF vars
<1> QED
  BY <1>1, <1>2, <1>3, <1>4, <1>5, <1>6, <1>7 DEF OfSaver, Outside

LEMMA TypedKept == Typed /\ [Next]_vars => Typed'
BY NextSplits, TypedRequest, TypedOthers

LEMMA AlwaysTyped == Spec => []Typed
BY TypedInit, TypedKept, PTL DEF Spec

\* Every variable of the assistant keeps its type.
THEOREM TypeCorrect == Spec => []TypeOK
<1>1. Typed => TypeOK
  BY DEF Typed
<1> QED
  BY AlwaysTyped, <1>1, PTL

-----------------------------------------------------------------------------
\* No step takes a failure back.
LEMMA FaultsStay ==
    ASSUME Typed, [Next]_vars
    PROVE faults' = faults \/ faults' = faults + 1
<1> USE DEF Fault, env, database, requests, redis, ghosts
<1>1. ASSUME NEW q \in Requests, OfRequest(q) PROVE faults' = faults \/ faults' = faults + 1
  <2>1. CASE Begin(q) \/ Messages(q) \/ Create(q) \/ Ask(q) \/ Gemini(q)
    BY <2>1 DEF Begin, Messages, Create, Ask, Gemini
  <2>2. CASE GetHist(q) \/ GetKey(q) \/ Find(q) \/ LoadFails(q)
    BY <2>2 DEF GetHist, GetKey, Find, LoadFails
  <2>3. CASE Rebuild(q) \/ Rekey(q) \/ EndAll(q) \/ CreateFails(q) \/ SetKey(q)
    BY <2>3 DEF Rebuild, Rekey, EndAll, CreateFails, SetKey, SetSessionKey
  <2>4. CASE GeminiFails(q) \/ SaveHistory(q) \/ SaveHistoryFails(q)
    BY <2>4 DEF GeminiFails, SaveHistory, SaveHistoryFails
  <2> QED
    BY <1>1, <2>1, <2>2, <2>3, <2>4 DEF OfRequest, SendMessage
<1>2. ASSUME NEW s \in savers, OfSaver(s) PROVE faults' = faults \/ faults' = faults + 1
  BY <1>2 DEF OfSaver, SaveMessage, SaveMessageFails
<1>3. CASE Outside
  BY <1>3 DEF Outside, ResetSessions, ResetKeys, HistExpires, KeyExpires, Expire
<1>4. CASE UNCHANGED vars
  BY <1>4 DEF vars
<1> QED
  BY <1>1, <1>2, <1>3, <1>4, NextSplits

LEMMA FaultlessBefore ==
    ASSUME Typed, [Next]_vars, faults' = 0
    PROVE faults = 0 /\ ~ Fault
<1>1. faults \in Nat
  BY DEF Typed, TypeOK
<1> QED
  BY <1>1, FaultsStay DEF Fault

-----------------------------------------------------------------------------
\* Requests about to create a session, and sessions open, are in pairs that raced.
Creating == {q \in Requests : pc[q] = "create"}

Raced(a, b) == {a, b} \in together

RacesKnown ==
    /\ \A a, b \in open : a # b => Raced(a, b)
    /\ \A a \in Creating, b \in open : a # b => Raced(a, b)
    /\ \A a, b \in Creating : a # b => Raced(a, b)

Races == faults = 0 => RacesKnown

LEMMA RacedBoth == \A a, b : Raced(a, b) <=> Raced(b, a)
<1>1. \A a, b : {a, b} = {b, a}
  OBVIOUS
<1> QED
  BY <1>1 DEF Raced

\* Nothing is opened or about to be, and no pair is forgotten.
Quiet ==
    /\ open' \subseteq open
    /\ Creating' \subseteq Creating
    /\ together \subseteq together'

LEMMA QuietKeeps ==
    ASSUME RacesKnown, Quiet
    PROVE RacesKnown'
<1>1. \A a, b : Raced(a, b) => Raced(a, b)'
  BY DEF Quiet, Raced
<1> QED
  BY <1>1 DEF RacesKnown, Quiet

LEMMA QuietRequests ==
    ASSUME Typed, NEW q \in Requests, OfRequest(q), ~ EndAll(q), ~ Create(q)
    PROVE Quiet
<1> USE DEF Quiet, Creating, Goto, Loads, Answer, Typed, TypeOK, database, ghosts
<1>1. CASE Begin(q) \/ GetHist(q)
  BY <1>1 DEF Begin, GetHist
<1>2. CASE GetKey(q) \/ Find(q)
  BY <1>2 DEF GetKey, Find
<1>3. CASE Messages(q) \/ LoadFails(q) \/ Rebuild(q) \/ Rekey(q)
  BY <1>3 DEF Messages, LoadFails, Rebuild, Rekey
<1>4. CASE CreateFails(q) \/ SetKey(q) \/ Ask(q) \/ Gemini(q)
  BY <1>4 DEF CreateFails, SetKey, Ask, Gemini
<1>5. CASE GeminiFails(q) \/ SaveHistory(q) \/ SaveHistoryFails(q)
  BY <1>5 DEF GeminiFails, SaveHistory, SaveHistoryFails
<1> QED
  BY <1>1, <1>2, <1>3, <1>4, <1>5 DEF OfRequest, SendMessage

LEMMA QuietOthers ==
    ASSUME (\E s \in savers : OfSaver(s)) \/ Outside \/ UNCHANGED vars
    PROVE Quiet
BY DEF Quiet, Creating, OfSaver, SaveMessage, SaveMessageFails, Outside, ResetSessions,
       ResetKeys, HistExpires, KeyExpires, vars, requests, database, ghosts

\* Whoever is about to create a session has closed all others, and has met
\* everybody who is about to as well.
LEMMA ClosingRaces ==
    ASSUME Typed, RacesKnown, NEW q \in Requests, EndAll(q), ~ Fault
    PROVE RacesKnown'
<1>1. open' = {}
  BY DEF EndAll
<1>2. together' = together \union {{q, p} : p \in Creating}
  BY DEF EndAll, Creating
<1>3. Creating' \subseteq Creating \union {q}
  BY DEF EndAll, Goto, Creating, Typed, TypeOK
<1>4. \A a, b : Raced(a, b) => Raced(a, b)'
  BY <1>2 DEF Raced
<1>5. \A p \in Creating : Raced(q, p)'
  BY <1>2 DEF Raced
<1>6. \A p \in Creating : Raced(p, q)'
  <2>1. \A p : {q, p} = {p, q}
    OBVIOUS
  <2> QED
    BY <1>5, <2>1 DEF Raced
<1>7. \A a, b \in Creating' : a # b => Raced(a, b)'
  BY <1>3, <1>4, <1>5, <1>6 DEF RacesKnown
<1> QED
  BY <1>1, <1>7 DEF RacesKnown

LEMMA CreatingRaces ==
    ASSUME Typed, RacesKnown, NEW q \in Requests, Create(q)
    PROVE RacesKnown'
<1>1. open' = open \union {q} /\ together' = together
  BY DEF Create, ghosts
<1>2. q \in Creating /\ Creating' = Creating \ {q}
  BY DEF Create, Goto, Creating, Typed, TypeOK
<1>3. \A a, b : Raced(a, b) <=> Raced(a, b)'
  BY <1>1 DEF Raced
<1> QED
  BY <1>1, <1>2, <1>3, RacedBoth DEF RacesKnown

LEMMA RacesKept ==
    ASSUME Typed, Races, [Next]_vars
    PROVE Races'
<1> SUFFICES ASSUME faults' = 0 PROVE RacesKnown'
  BY DEF Races
<1>1. RacesKnown /\ ~ Fault
  BY FaultlessBefore DEF Races
<1>2. ASSUME NEW q \in Requests, OfRequest(q) PROVE RacesKnown'
  BY <1>1, <1>2, ClosingRaces, CreatingRaces, QuietRequests, QuietKeeps
<1>3. CASE (\E s \in savers : OfSaver(s)) \/ Outside \/ UNCHANGED vars
  BY <1>1, <1>3, QuietOthers, QuietKeeps
<1> QED
  BY <1>2, <1>3, NextSplits

\* Two sessions are open at once only if the requests that opened them were
\* about to at the same time, for any number of requests.
THEOREM SessionsRaced == Spec => []OpenSessionsOverlapped
<1>1. Init => Races
  BY DEF Init, Races, RacesKnown, Creating
<1>2. Typed /\ Races /\ [Next]_vars => Races'
  BY RacesKept
<1>3. Races => OpenSessionsOverlapped
  BY DEF Races, RacesKnown, Raced, OpenSessionsOverlapped
<1> QED
  BY <1>1, <1>2, <1>3, AlwaysTyped, PTL DEF Spec

-----------------------------------------------------------------------------
\* Whatever a request or Redis has is safe, and so are a request's own question
\* and answer from the moment it has a reply.
AllBacked ==
    /\ \A t \in Turn : Has(histKey, t) => Safe(t)
    /\ \A q \in Requests, t \in Turn : Has(history[q], t) => Safe(t)
    /\ \A q \in Requests : pc[q] \in {"gemini", "save"} => Safe(TurnOf("user", q))
    /\ \A q \in Requests : pc[q] = "save" => Safe(TurnOf("model", q))

Backed == faults = 0 => AllBacked

\* A message on its way to the table gets there unless a call fails.
LEMMA SafeStays ==
    ASSUME Typed, [Next]_vars, ~ Fault
    PROVE \A t : Safe(t) => Safe(t)'
<1> SUFFICES ASSUME NEW t, Safe(t) PROVE Safe(t)'
  OBVIOUS
<1> USE DEF Safe, Archived, Saving
<1>1. ASSUME rows' = rows, savers \subseteq savers' PROVE Safe(t)'
  BY <1>1
<1>2. ASSUME NEW q \in Requests, OfRequest(q) PROVE Safe(t)'
  <2>1. rows' = rows /\ savers \subseteq savers'
    BY <1>2 DEF OfRequest, SendMessage, Begin, GetHist, GetKey, Find, Messages, LoadFails,
         Rebuild, Rekey, EndAll, Create, CreateFails, SetKey, Ask, Gemini, GeminiFails,
         SaveHistory, SaveHistoryFails, Persist, database
  <2> QED
    BY <1>1, <2>1
<1>3. ASSUME NEW s \in savers, OfSaver(s) PROVE Safe(t)'
  <2>1. SaveMessage(s)
    BY <1>3 DEF OfSaver, SaveMessageFails
  <2>2. /\ s.session \in Sessions /\ s.turn \in Turn
        /\ rows \in [Sessions -> Seq(Turn)]
    BY DEF Typed, TypeOK
  <2>3. /\ \A x \in Sessions : Has(rows[x], t) => Has(rows'[x], t)
        /\ Has(rows'[s.session], s.turn)
    BY <2>1, <2>2, HasAppended DEF SaveMessage
  <2>4. CASE Archived(t)
    BY <2>3, <2>4
  <2>5. CASE Saving(t)
    <3>1. PICK x \in savers : x.turn = t
      BY <2>5
    <3>2. CASE x = s
      BY <2>2, <2>3, <3>1, <3>2
    <3>3. CASE x # s
      BY <2>1, <3>1, <3>3 DEF SaveMessage
    <3> QED
      BY <3>2, <3>3
  <2> QED
    BY <2>4, <2>5
<1>4. CASE Outside
  BY <1>1, <1>4 DEF Outside, ResetSessions, ResetKeys, HistExpires, KeyExpires, database
<1>5. CASE UNCHANGED vars
  BY <1>1, <1>5 DEF vars, database
<1> QED
  BY <1>2, <1>3, <1>4, <1>5, NextSplits

\* A step that puts nothing new into a history and brings nobody to a reply.
Repeats ==
    /\ histKey' \in {histKey, <<>>} \union {history[q] : q \in Requests}
    /\ \A q \in Requests :
        \/ history'[q] \in {history[q], histKey, <<>>}
        \/ \E s \in Sessions : history'[q] = rows[s]
    /\ \A q \in Requests : pc'[q] \in {"gemini", "save"} => pc'[q] = pc[q]

LEMMA RepeatsKeep ==
    ASSUME AllBacked, Repeats, \A t : Safe(t) => Safe(t)'
    PROVE AllBacked'
<1>1. \A t \in Turn : Has(histKey', t) => Safe(t)
  BY NothingInEmpty DEF AllBacked, Repeats
<1>2. ASSUME NEW q \in Requests, NEW t \in Turn, Has(history'[q], t) PROVE Safe(t)
  <2>1. CASE history'[q] \in {history[q], histKey, <<>>}
    BY <1>2, <2>1, NothingInEmpty DEF AllBacked
  <2>2. CASE \E s \in Sessions : history'[q] = rows[s]
    BY <1>2, <2>2 DEF Safe, Archived
  <2> QED
    BY <2>1, <2>2 DEF Repeats
<1>3. \A q \in Requests : pc'[q] \in {"gemini", "save"} => pc'[q] = pc[q]
  BY DEF Repeats
<1>4. \A t \in Turn : Has(histKey', t) => Safe(t)'
  BY <1>1
<1>5. \A q \in Requests, t \in Turn : Has(history'[q], t) => Safe(t)'
  BY <1>2
<1>6. /\ \A q \in Requests : pc'[q] \in {"gemini", "save"} => Safe(TurnOf("user", q))'
      /\ \A q \in Requests : pc'[q] = "save" => Safe(TurnOf("model", q))'
  BY <1>3 DEF AllBacked, TurnOf
<1> QED
  BY <1>4, <1>5, <1>6 DEF AllBacked, Has, TurnOf

LEMMA RequestsRepeat ==
    ASSUME Typed, NEW q \in Requests, OfRequest(q), ~ Ask(q), ~ Gemini(q), ~ SaveHistory(q)
    PROVE Repeats
<1> USE DEF Repeats, Goto, Loads, Answer, Typed, TypeOK, requests, redis
<1>1. CASE Begin(q) \/ GetHist(q)
  BY <1>1 DEF Begin, GetHist
<1>2. CASE GetKey(q) \/ Find(q)
  BY <1>2 DEF GetKey, Find
<1>3. CASE Messages(q)
  <2>1. session[q] \in Sessions
    BY <1>3 DEF Messages, SessionHeld, Holding
  <2> QED
    BY <1>3, <2>1 DEF Messages
<1>4. CASE LoadFails(q) \/ Rebuild(q)
  BY <1>4 DEF LoadFails, Rebuild
<1>5. CASE Rekey(q) \/ EndAll(q) \/ Create(q) \/ CreateFails(q) \/ SetKey(q)
  BY <1>5 DEF Rekey, EndAll, Create, CreateFails, SetKey
<1>6. CASE GeminiFails(q) \/ SaveHistoryFails(q)
  BY <1>6 DEF GeminiFails, SaveHistoryFails
<1> QED
  BY <1>1, <1>2, <1>3, <1>4, <1>5, <1>6 DEF OfRequest, SendMessage

LEMMA OthersRepeat ==
    ASSUME (\E s \in savers : OfSaver(s)) \/ Outside \/ UNCHANGED vars
    PROVE Repeats
BY DEF Repeats, OfSaver, SaveMessage, SaveMessageFails, Outside, ResetSessions,
       ResetKeys, HistExpires, KeyExpires, vars, requests, redis

\* A question, or an answer, that a goroutine has been given to store is safe.
Speaks(q, role) ==
    /\ Persist(q, role)
    /\ histKey' = histKey /\ history' = history
    /\ pc' = [pc EXCEPT ![q] = IF role = "user" THEN "gemini" ELSE "save"]
    /\ role = "model" => pc[q] = "gemini"

LEMMA SpeakingKeeps ==
    ASSUME Typed, AllBacked, NEW q \in Requests, NEW role \in Roles, Speaks(q, role),
           \A t : Safe(t) => Safe(t)'
    PROVE AllBacked'
<1>1. Safe(TurnOf(role, q))'
  <2> DEFINE t == TurnOf(role, q)
  <2>1. [session |-> session[q], turn |-> t] \in savers'
    BY DEF Speaks, Persist
  <2>2. [session |-> session[q], turn |-> t].turn = t
    OBVIOUS
  <2>3. t' = t
    BY DEF TurnOf
  <2> HIDE DEF t
  <2>4. Saving(t)'
    BY <2>1, <2>2, <2>3 DEF Saving
  <2> QED
    BY <2>4 DEF Safe, t
<1>2. pc \in [Requests -> Locations]
  BY DEF Typed, TypeOK
<1>3. \A r, p : TurnOf(r, p)' = TurnOf(r, p)
  BY DEF TurnOf
<1>4. /\ \A t \in Turn : Has(histKey', t) => Safe(t)'
      /\ \A p \in Requests, t \in Turn : Has(history'[p], t) => Safe(t)'
  BY DEF AllBacked, Speaks
<1>5. \A p \in Requests : pc'[p] \in {"gemini", "save"} => Safe(TurnOf("user", p))'
  <2>1. \A p \in Requests \ {q} : pc'[p] = pc[p]
    BY <1>2 DEF Speaks
  <2>2. \A p \in Requests : pc[p] \in {"gemini", "save"} => Safe(TurnOf("user", p))'
    BY <1>3 DEF AllBacked
  <2>3. CASE role = "user"
    BY <1>1, <2>1, <2>2, <2>3
  <2>4. CASE role = "model"
    BY <2>1, <2>2, <2>4 DEF Speaks
  <2> QED
    BY <2>3, <2>4 DEF Roles
<1>6. \A p \in Requests : pc'[p] = "save" => Safe(TurnOf("model", p))'
  <2>1. \A p \in Requests \ {q} : pc'[p] = pc[p]
    BY <1>2 DEF Speaks
  <2>2. \A p \in Requests : pc[p] = "save" => Safe(TurnOf("model", p))'
    BY <1>3 DEF AllBacked
  <2>3. CASE role = "user"
    BY <1>2, <2>1, <2>2, <2>3 DEF Speaks
  <2>4. CASE role = "model"
    BY <1>1, <2>1, <2>2, <2>4
  <2> QED
    BY <2>3, <2>4 DEF Roles
<1> QED
  BY <1>4, <1>5, <1>6 DEF AllBacked, Has, TurnOf

LEMMA HistoryWritten ==
    ASSUME Typed, AllBacked, NEW q \in Requests, SaveHistory(q),
           \A t : Safe(t) => Safe(t)'
    PROVE AllBacked'
<1>1. /\ pc[q] = "save" /\ history'[q] = <<>>
      /\ \A p \in Requests \ {q} : pc'[p] = pc[p] /\ history'[p] = history[p]
      /\ pc'[q] = "done"
      /\ histKey' = history[q] \o <<TurnOf("user", q), TurnOf("model", q)>>
      /\ history[q] \in Seq(Turn)
  BY Answers DEF SaveHistory, Answer, Goto, Typed, TypeOK
<1>2. Safe(TurnOf("user", q)) /\ Safe(TurnOf("model", q))
  BY <1>1 DEF AllBacked
<1>3. TurnOf("user", q) \in Turn /\ TurnOf("model", q) \in Turn
  BY TurnsAreTurns DEF Roles
<1>4. \A t \in Turn : Has(histKey', t) =>
        Has(history[q], t) \/ t = TurnOf("user", q) \/ t = TurnOf("model", q)
  BY <1>1, <1>3, HasExchange
<1>5. \A t \in Turn : Has(histKey', t) => Safe(t)'
  BY <1>2, <1>4 DEF AllBacked
<1>6. \A p \in Requests, t \in Turn : Has(history'[p], t) => Safe(t)'
  BY <1>1, NothingInEmpty DEF AllBacked
<1>7. /\ \A p \in Requests : pc'[p] \in {"gemini", "save"} => Safe(TurnOf("user", p))'
      /\ \A p \in Requests : pc'[p] = "save" => Safe(TurnOf("model", p))'
  BY <1>1 DEF AllBacked, TurnOf
<1> QED
  BY <1>5, <1>6, <1>7 DEF AllBacked, Has, TurnOf

LEMMA BackedKept ==
    ASSUME Typed, Backed, [Next]_vars
    PROVE Backed'
<1> SUFFICES ASSUME faults' = 0 PROVE AllBacked'
  BY DEF Backed
<1>1. AllBacked /\ ~ Fault
  BY FaultlessBefore DEF Backed
<1>2. \A t : Safe(t) => Safe(t)'
  BY <1>1, SafeStays
<1>3. ASSUME NEW q \in Requests, OfRequest(q) PROVE AllBacked'
  <2>1. CASE Ask(q)
    <3>1. Speaks(q, "user")
      BY <2>1 DEF Ask, Speaks, Goto, redis
    <3> QED
      BY <1>1, <1>2, <3>1, SpeakingKeeps DEF Roles
  <2>2. CASE Gemini(q)
    <3>1. Speaks(q, "model")
      BY <2>2 DEF Gemini, Speaks, Goto, redis
    <3> QED
      BY <1>1, <1>2, <3>1, SpeakingKeeps DEF Roles
  <2>3. CASE SaveHistory(q)
    BY <1>1, <1>2, <2>3, HistoryWritten
  <2> QED
    BY <1>1, <1>2, <1>3, <2>1, <2>2, <2>3, RequestsRepeat, RepeatsKeep
<1>4. CASE (\E s \in savers : OfSaver(s)) \/ Outside \/ UNCHANGED vars
  BY <1>1, <1>2, <1>4, OthersRepeat, RepeatsKeep
<1> QED
  BY <1>3, <1>4, NextSplits

\* Losing Redis loses no turn of the conversation unless a call has failed, for
\* any number of requests, overlapping or not.
THEOREM CacheArchived == Spec => []CacheIsArchived
<1>1. Init => Backed
  BY NothingInEmpty DEF Init, Backed, AllBacked
<1>2. Typed /\ Backed /\ [Next]_vars => Backed'
  BY BackedKept
<1>3. Typed /\ Backed => CacheIsArchived
  <2>1. Typed => \A i \in 1 .. Len(histKey) : histKey[i] \in Turn /\ Has(histKey, histKey[i])
    BY DEF Typed, TypeOK, Has
  <2> QED
    BY <2>1 DEF Backed, AllBacked, CacheIsArchived
<1> QED
  BY <1>1, <1>2, <1>3, AlwaysTyped, PTL DEF Spec

-----------------------------------------------------------------------------
\* What no request does to the others, to the table, to a reset.
OneMoves(q) ==
    /\ \A p \in Requests \ {q} :
        /\ pc'[p] = pc[p] /\ history'[p] = history[p] /\ session'[p] = session[p]
    /\ rows' = rows /\ savers \subseteq savers'
    /\ resets' = resets /\ resetting' = resetting

LEMMA RequestsAlone ==
    ASSUME Typed, NEW q \in Requests, OfRequest(q)
    PROVE OneMoves(q)
<1> USE DEF OneMoves, Goto, Loads, Answer, Fault, Typed, TypeOK, requests, redis, database, env
<1>1. CASE Begin(q) \/ GetHist(q)
  BY <1>1 DEF Begin, GetHist
<1>2. CASE GetKey(q)
  BY <1>2 DEF GetKey
<1>3. CASE Find(q)
  BY <1>3 DEF Find
<1>4. CASE Messages(q) \/ LoadFails(q) \/ Rebuild(q) \/ Rekey(q)
  BY <1>4 DEF Messages, LoadFails, Rebuild, Rekey, SetSessionKey
<1>5. CASE EndAll(q) \/ Create(q) \/ CreateFails(q) \/ SetKey(q)
  BY <1>5 DEF EndAll, Create, CreateFails, SetKey, SetSessionKey
<1>6. CASE Ask(q) \/ Gemini(q)
  BY <1>6 DEF Ask, Gemini, Persist
<1>7. CASE GeminiFails(q) \/ SaveHistory(q) \/ SaveHistoryFails(q)
  BY <1>7 DEF GeminiFails, SaveHistory, SaveHistoryFails
<1> QED
  BY <1>1, <1>2, <1>3, <1>4, <1>5, <1>6, <1>7 DEF OfRequest, SendMessage

\* Once split, always split.
LEMMA WholeBefore ==
    ASSUME Typed, [Next]_vars, ~ split'
    PROVE ~ split
<1> USE DEF Typed, TypeOK, ghosts
<1>1. ASSUME NEW q \in Requests, OfRequest(q) PROVE ~ split
  <2>1. CASE Begin(q) \/ GetHist(q) \/ GetKey(q) \/ Find(q)
    BY <2>1 DEF Begin, GetHist, GetKey, Find
  <2>2. CASE Messages(q) \/ LoadFails(q) \/ Rebuild(q) \/ Rekey(q)
    BY <2>2 DEF Messages, LoadFails, Rebuild, Rekey
  <2>3. CASE EndAll(q) \/ Create(q) \/ CreateFails(q) \/ SetKey(q)
    BY <2>3 DEF EndAll, Create, CreateFails, SetKey
  <2>4. CASE Ask(q) \/ Gemini(q) \/ GeminiFails(q) \/ SaveHistory(q) \/ SaveHistoryFails(q)
    BY <2>4 DEF Ask, Gemini, GeminiFails, SaveHistory, SaveHistoryFails
  <2> QED
    BY <1>1, <2>1, <2>2, <2>3, <2>4 DEF OfRequest, SendMessage
<1>2. ASSUME NEW s \in savers, OfSaver(s) PROVE ~ split
  BY <1>2 DEF OfSaver, SaveMessage, SaveMessageFails
<1>3. CASE Outside
  BY <1>3 DEF Outside, ResetSessions, ResetKeys, HistExpires, KeyExpires
<1>4. CASE UNCHANGED vars
  BY <1>4 DEF vars
<1> QED
  BY <1>1, <1>2, <1>3, <1>4, NextSplits

-----------------------------------------------------------------------------
\* Two requests under way know of each other, a request knows only finished
\* ones of the past, and its epoch is not of the future.
Overlaps == \A a, b \in Active : a # b => a \in overlapped /\ b \in overlapped

Past == \A q \in Requests :
            /\ epoch[q] <= resets
            /\ \A r \in before[q] : pc[r] = "done"

Chronicle == Overlaps /\ Past

\* Whoever was done stays so; the rest of the past is left alone.
LEMMA ChronicleRequest ==
    ASSUME Typed, Chronicle, NEW q \in Requests, OfRequest(q)
    PROVE Chronicle'
<1> USE DEF Chronicle, Overlaps, Past, Typed, TypeOK
<1>1. OneMoves(q)
  BY RequestsAlone
<1>2. CASE Begin(q)
  <2>1. pc' = [pc EXCEPT ![q] = "hist"] /\ pc[q] = "new" /\ resets' = resets
    BY <1>2 DEF Begin, Goto, env
  <2>2. Active' = Active \union {q}
    BY <2>1 DEF Active
  <2>3. Overlaps'
    <3>1. Active # {} => overlapped' = overlapped \union Active \union {q}
      BY <1>2 DEF Begin
    <3>2. Active = {} => Active' = {q}
      BY <2>2
    <3> QED
      BY <2>2, <3>1, <3>2
  <2>4. /\ epoch' = [epoch EXCEPT ![q] = resets]
        /\ \A p \in Requests \ {q} : before'[p] = before[p]
        /\ \A r \in before'[q] : r \in Requests /\ pc[r] = "done"
    BY <1>2 DEF Begin
  <2>5. \A r \in Requests : pc[r] = "done" => pc'[r] = "done"
    BY <2>1
  <2>6. Past'
    BY <2>1, <2>4, <2>5
  <2> QED
    BY <2>3, <2>6
<1>3. CASE ~ Begin(q)
  <2>1. UNCHANGED <<epoch, before, overlapped>>
    BY <1>3 DEF OfRequest, SendMessage, GetHist, GetKey, Find, Messages, LoadFails,
         Rebuild, Rekey, EndAll, Create, CreateFails, SetKey, Ask, Gemini, GeminiFails,
         SaveHistory, SaveHistoryFails, ghosts
  <2>2. q \in Active
    BY <1>3 DEF OfRequest, SendMessage, GetHist, GetKey, Find, Messages, LoadFails,
         Rebuild, Rekey, EndAll, Create, CreateFails, SetKey, Ask, Gemini, GeminiFails,
         SaveHistory, SaveHistoryFails, Goto, Loads, Answer, Active
  <2>3. Active' \subseteq Active
    BY <1>1, <2>2 DEF OneMoves, Active
  <2>4. \A r \in Requests : pc[r] = "done" => pc'[r] = "done"
    BY <1>1, <2>2 DEF OneMoves, Active
  <2>5. resets' = resets
    BY <1>1 DEF OneMoves
  <2> QED
    BY <2>1, <2>3, <2>4, <2>5
<1> QED
  BY <1>2, <1>3

LEMMA ChronicleKept ==
    ASSUME Typed, Chronicle, [Next]_vars
    PROVE Chronicle'
<1>1. CASE (\E s \in savers : OfSaver(s)) \/ Outside \/ UNCHANGED vars
  <2>1. /\ UNCHANGED <<pc, epoch, before, overlapped>>
        /\ resets' = resets \/ resets' = resets + 1
    BY <1>1 DEF OfSaver, SaveMessage, SaveMessageFails, Outside, ResetSessions, ResetKeys,
         HistExpires, KeyExpires, Expire, Fault, vars, requests, env, ghosts
  <2> QED
    BY <2>1 DEF Chronicle, Overlaps, Past, Active, Typed, TypeOK
<1> QED
  BY <1>1, ChronicleRequest, NextSplits

LEMMA AlwaysChronicle == Spec => []Chronicle
<1>1. Init => Chronicle
  BY DEF Init, Chronicle, Overlaps, Past, Active
<1> QED
  BY <1>1, ChronicleKept, AlwaysTyped, PTL DEF Spec

-----------------------------------------------------------------------------
\* While nothing failed and the conversation was not split there is one session
\* at most, the one every request and the key have, or none while one is opened.
Whole == faults = 0 /\ ~ split

Steady ==
    /\ resetting => Active = {}
    /\ \A a, b \in Opening : a = b
    /\ \A a, b \in open : a = b
    /\ \A q \in Requests : pc[q] \in {"endall", "create"} => open = {}
    /\ \A q \in Requests : pc[q] \in Holding => open = {session[q]}
    /\ sessionKey # NoSession /\ ~ resetting => open = {sessionKey}

LEMMA WholeStep ==
    ASSUME Typed, [Next]_vars, Whole'
    PROVE Whole /\ ~ Fault
BY FaultlessBefore, WholeBefore DEF Whole

\* q goes on with the session it has.
Stays(q) ==
    /\ UNCHANGED <<open, sessionKey>> /\ session'[q] = session[q]
    /\ pc'[q] \in {"endall", "create"} => pc[q] \in {"endall", "create"}
    /\ pc'[q] # "setkey"
    /\ pc'[q] \in Holding => pc[q] \in Holding

LEMMA StayingKeeps ==
    ASSUME Typed, Steady, NEW q \in Active, OneMoves(q), Stays(q)
    PROVE Steady'
<1> USE DEF Steady, OneMoves, Stays
<1>1. ~ resetting /\ ~ resetting'
  OBVIOUS
<1>2. \A p \in Requests : /\ pc'[p] \in {"endall", "create"} => pc[p] \in {"endall", "create"}
                         /\ pc'[p] \in Holding => pc[p] \in Holding
                         /\ session'[p] = session[p]
  OBVIOUS
<1>3. Opening' \subseteq Opening
  <2>1. \A p \in Requests : pc'[p] \in {"endall", "create", "setkey"} =>
                           pc[p] \in {"endall", "create", "setkey"}
    OBVIOUS
  <2> QED
    BY <2>1 DEF Opening
<1> QED
  BY <1>1, <1>2, <1>3

LEMMA GoingOnSteadily ==
    ASSUME Typed, Steady, NEW q \in Requests, ~ Fault,
           \/ GetHist(q)  \/ Messages(q)     \/ LoadFails(q)   \/ Rebuild(q)
           \/ EndAll(q)   \/ CreateFails(q)  \/ Ask(q)         \/ Gemini(q)
           \/ GeminiFails(q) \/ SaveHistory(q) \/ SaveHistoryFails(q)
    PROVE Stays(q)
<1> USE DEF Stays, Holding, Goto, Answer, Typed, TypeOK, redis, database
<1>1. CASE GetHist(q) \/ LoadFails(q) \/ CreateFails(q)
  BY <1>1 DEF GetHist, LoadFails, CreateFails
<1>2. CASE Messages(q) \/ Rebuild(q)
  BY <1>2 DEF Messages, Rebuild
<1>3. CASE EndAll(q)
  <2>1. open = {}
    BY <1>3 DEF EndAll, Steady
  <2> QED
    BY <1>3, <2>1 DEF EndAll
<1>4. CASE Ask(q) \/ Gemini(q) \/ GeminiFails(q) \/ SaveHistory(q) \/ SaveHistoryFails(q)
  BY <1>4 DEF Ask, Gemini, GeminiFails, SaveHistory, SaveHistoryFails
<1> QED
  BY <1>1, <1>2, <1>3, <1>4

LEMMA ActsWhileActive ==
    ASSUME NEW q \in Requests, SendMessage(q)
    PROVE q \in Active
BY DEF SendMessage, GetHist, GetKey, Find, Messages, LoadFails, Rebuild, Rekey, EndAll,
       Create, CreateFails, SetKey, Ask, Gemini, GeminiFails, SaveHistory,
       SaveHistoryFails, Goto, Loads, Answer, Active

LEMMA SteadyRequest ==
    ASSUME Typed, Steady, NEW q \in Requests, OfRequest(q), Whole', ~ Fault
    PROVE Steady'
<1>0. OneMoves(q)
  BY RequestsAlone
<1>1. CASE Begin(q)
  <2>1. /\ pc'[q] = "hist" /\ ~ resetting /\ resetting' = resetting
        /\ UNCHANGED <<open, sessionKey, session>>
    BY <1>1 DEF Begin, Goto, Whole, Typed, TypeOK, database, redis
  <2> QED
    BY <1>0, <2>1 DEF OneMoves, Steady, Opening, Holding
<1> SUFFICES ASSUME SendMessage(q) PROVE Steady'
  BY <1>1 DEF OfRequest
<1>2. q \in Active
  BY ActsWhileActive
<1>3. ~ resetting /\ ~ resetting'
  BY <1>0, <1>2 DEF Steady, OneMoves
<1>4. CASE GetKey(q)
  <2>1. CASE pc'[q] = "shown" /\ UNCHANGED session
    BY <1>0, <1>2, <1>4, <2>1, StayingKeeps DEF GetKey, Stays, Holding, redis, database
  <2>2. CASE sessionKey # NoSession /\ pc'[q] \in {"ask", "shown"} /\ session'[q] = sessionKey
    BY <1>0, <1>3, <1>4, <2>2 DEF GetKey, Steady, OneMoves, Opening, Holding, redis, database
  <2>3. pc'[q] # "endall"
    BY <1>4 DEF GetKey, Loads, Goto, Answer, Whole, Typed, TypeOK
  <2> QED
    BY <1>4, <2>1, <2>2, <2>3 DEF GetKey, Loads, Goto, Answer, Typed, TypeOK
<1>5. CASE Find(q)
  <2>1. CASE pc'[q] = "shown" /\ UNCHANGED session
    BY <1>0, <1>2, <1>5, <2>1, StayingKeeps DEF Find, Stays, Holding, redis, database
  <2>2. CASE pc'[q] = "endall" /\ UNCHANGED session /\ open = {} /\ Opening = {}
    BY <1>0, <1>3, <1>5, <2>2 DEF Find, Steady, OneMoves, Opening, Holding, redis, database
  <2>3. CASE pc'[q] = "messages" /\ session'[q] \in open
    BY <1>0, <1>3, <1>5, <2>3 DEF Find, Steady, OneMoves, Opening, Holding, redis, database
  <2>4. pc'[q] = "endall" => Opening = {}
    BY <1>5 DEF Find, Whole, Goto, Typed, TypeOK
  <2> QED
    BY <1>5, <2>1, <2>2, <2>3, <2>4 DEF Find, Loads, Goto, Answer, Typed, TypeOK
<1>6. CASE Rekey(q) \/ SetKey(q)
  <2>1. /\ pc[q] \in Holding /\ pc'[q] \in {"ask", "shown"} /\ session' = session
        /\ open' = open /\ sessionKey' = session[q]
    BY <1>6 DEF Rekey, SetKey, SetSessionKey, Loads, Goto, Answer, Holding, Typed, TypeOK, database
  <2>2. open = {session[q]}
    BY <2>1 DEF Steady
  <2> QED
    BY <1>0, <1>3, <2>1, <2>2 DEF Steady, OneMoves, Opening, Holding
<1>7. CASE Create(q)
  <2>1. /\ pc[q] = "create" /\ pc'[q] = "setkey" /\ session'[q] = q
        /\ open' = open \union {q} /\ sessionKey' = sessionKey
    BY <1>7 DEF Create, Goto, Typed, TypeOK, redis
  <2>2. open = {} /\ sessionKey = NoSession
    BY <1>3, <2>1 DEF Steady
  <2>3. \A p \in Requests \ {q} : pc[p] \notin Holding /\ pc[p] \notin {"endall", "create", "setkey"}
    BY <2>1, <2>2 DEF Steady, Opening
  <2> QED
    BY <1>0, <1>3, <2>1, <2>2, <2>3 DEF Steady, OneMoves, Opening, Holding
<1> QED
  BY <1>0, <1>2, <1>4, <1>5, <1>6, <1>7, GoingOnSteadily, StayingKeeps DEF SendMessage

LEMMA SteadyKept ==
    ASSUME Typed, Steady, [Next]_vars, Whole'
    PROVE Steady'
<1>1. ~ Fault
  BY WholeStep
<1>2. ASSUME NEW s \in savers, OfSaver(s) PROVE Steady'
  BY <1>2 DEF OfSaver, SaveMessage, SaveMessageFails, Steady, Active, Opening, requests, redis,
              database
<1>3. CASE ResetSessions
  <2>1. /\ Active = {} /\ open' = {} /\ resetting' /\ UNCHANGED <<pc, session>>
    BY <1>1, <1>3 DEF ResetSessions, Whole, requests, Typed, TypeOK
  <2>2. \A q \in Requests : pc[q] \notin Holding /\ pc[q] \notin {"endall", "create", "setkey"}
    BY <2>1 DEF Active, Holding
  <2> QED
    BY <2>1, <2>2 DEF Steady, Opening, Active
<1>4. CASE ResetKeys
  <2>1. faults' # faults + 1
    BY WholeStep DEF Whole, Typed, TypeOK
  <2> QED
    BY <1>4, <2>1 DEF ResetKeys, Steady, Opening, Active, requests, database
<1>5. CASE HistExpires \/ KeyExpires
  BY <1>5 DEF HistExpires, KeyExpires, Steady, Opening, Active, requests, database
<1>6. CASE UNCHANGED vars
  BY <1>6 DEF vars, Steady, Opening, Active, requests, redis, database
<1> QED
  BY <1>1, <1>2, <1>3, <1>4, <1>5, <1>6, SteadyRequest, NextSplits DEF Outside

-----------------------------------------------------------------------------
\* A turn is in the table, or on its way to it, in the session of its request.
Kept(q, role) ==
    \/ Has(rows[session[q]], TurnOf(role, q))
    \/ [session |-> session[q], turn |-> TurnOf(role, q)] \in savers

Spoken == \A q \in Requests :
    /\ pc[q] \in {"gemini", "save"} => Kept(q, "user")
    /\ pc[q] = "save" => Kept(q, "model")

LEMMA KeptStays ==
    ASSUME Typed, [Next]_vars, ~ Fault, NEW q \in Requests, session[q] \in Sessions,
           session'[q] = session[q]
    PROVE \A role \in Roles : Kept(q, role) => Kept(q, role)'
<1> SUFFICES ASSUME NEW role \in Roles, Kept(q, role) PROVE Kept(q, role)'
  OBVIOUS
<1> DEFINE t == TurnOf(role, q)
           s == session[q]
<1>1. t' = t
  BY DEF TurnOf
<1>2. t \in Turn
  BY TurnsAreTurns
<1> HIDE DEF t
<1>3. Has(rows[s], t) \/ [session |-> s, turn |-> t] \in savers
  BY DEF Kept, t
<1>4. SUFFICES Has(rows'[s], t) \/ [session |-> s, turn |-> t] \in savers'
  BY <1>1 DEF Kept, t, Has
<1>5. CASE rows' = rows /\ savers \subseteq savers'
  BY <1>3, <1>5
<1>6. ASSUME NEW p \in Requests, OfRequest(p) PROVE rows' = rows /\ savers \subseteq savers'
  BY <1>6, RequestsAlone DEF OneMoves
<1>7. ASSUME NEW x \in savers, OfSaver(x)
      PROVE Has(rows'[s], t) \/ [session |-> s, turn |-> t] \in savers'
  <2>1. SaveMessage(x)
    BY <1>7 DEF OfSaver, SaveMessageFails
  <2>2. /\ x.session \in Sessions /\ x.turn \in Turn
        /\ rows \in [Sessions -> Seq(Turn)]
    BY DEF Typed, TypeOK
  <2>3. /\ Has(rows[s], t) => Has(rows'[s], t)
        /\ Has(rows'[x.session], x.turn)
    BY <2>1, <2>2, HasAppended DEF SaveMessage
  <2>4. CASE x = [session |-> s, turn |-> t]
    BY <2>3, <2>4
  <2>5. CASE x # [session |-> s, turn |-> t]
    BY <1>3, <2>1, <2>3, <2>5 DEF SaveMessage
  <2> QED
    BY <2>4, <2>5
<1>8. CASE Outside
  BY <1>5, <1>8 DEF Outside, ResetSessions, ResetKeys, HistExpires, KeyExpires, database
<1>9. CASE UNCHANGED vars
  BY <1>5, <1>9 DEF vars, database
<1> QED
  BY <1>5, <1>6, <1>7, <1>8, <1>9, NextSplits

\* The session of a request that has one changes no more.
LEMMA SessionStays ==
    ASSUME Typed, [Next]_vars, NEW q \in Requests,
           pc[q] \in {"ask", "gemini", "save", "done"}
    PROVE session'[q] = session[q]
<1>1. ASSUME NEW p \in Requests, OfRequest(p) PROVE session'[q] = session[q]
  <2>1. CASE p # q
    BY <1>1, <2>1, RequestsAlone DEF OneMoves
  <2>2. CASE p = q
    BY <1>1, <2>2 DEF OfRequest, SendMessage, Begin, GetHist, GetKey, Find, Messages, LoadFails,
         Rebuild, Rekey, EndAll, Create, CreateFails, SetKey, Ask, Gemini, GeminiFails,
         SaveHistory, SaveHistoryFails, Goto, Loads, Answer
  <2> QED
    BY <2>1, <2>2
<1>2. CASE (\E s \in savers : OfSaver(s)) \/ Outside \/ UNCHANGED vars
  BY <1>2 DEF OfSaver, SaveMessage, SaveMessageFails, Outside, ResetSessions, ResetKeys,
       HistExpires, KeyExpires, vars, requests
<1> QED
  BY <1>1, <1>2, NextSplits

LEMMA SpokenKept ==
    ASSUME Typed, Spoken, [Next]_vars, ~ Fault
    PROVE Spoken'
<1> SUFFICES ASSUME NEW q \in Requests
             PROVE /\ pc'[q] \in {"gemini", "save"} => Kept(q, "user")'
                   /\ pc'[q] = "save" => Kept(q, "model")'
  BY DEF Spoken
<1>1. ASSUME pc[q] \in {"gemini", "save"}
      PROVE Kept(q, "user")' /\ (pc[q] = "save" => Kept(q, "model")')
  <2>1. session[q] \in Sessions
    BY <1>1 DEF Typed, SessionHeld, Holding
  <2>2. session'[q] = session[q]
    BY <1>1, SessionStays
  <2> QED
    BY <1>1, <2>1, <2>2, KeptStays DEF Spoken, Roles
<1>2. ASSUME Ask(q) PROVE Kept(q, "user")' /\ pc'[q] = "gemini"
  BY <1>2 DEF Ask, Persist, Kept, TurnOf, Goto, Typed, TypeOK
<1>3. ASSUME Gemini(q) PROVE Kept(q, "model")' /\ pc[q] = "gemini"
  BY <1>3 DEF Gemini, Persist, Kept, TurnOf, Goto, Typed, TypeOK
<1>4. ASSUME ~ Ask(q), ~ Gemini(q), pc'[q] \in {"gemini", "save"} PROVE pc'[q] = pc[q]
  <2>1. ASSUME NEW p \in Requests, OfRequest(p) PROVE pc'[q] = pc[q]
    <3>1. CASE p # q
      BY <2>1, <3>1, RequestsAlone DEF OneMoves
    <3>2. CASE p = q
      BY <1>4, <2>1, <3>2 DEF OfRequest, SendMessage, Begin, GetHist, GetKey, Find, Messages,
           LoadFails, Rebuild, Rekey, EndAll, Create, CreateFails, SetKey, GeminiFails,
           SaveHistory, SaveHistoryFails, Goto, Loads, Answer, Typed, TypeOK
    <3> QED
      BY <3>1, <3>2
  <2>2. CASE (\E s \in savers : OfSaver(s)) \/ Outside \/ UNCHANGED vars
    BY <2>2 DEF OfSaver, SaveMessage, SaveMessageFails, Outside, ResetSessions, ResetKeys,
         HistExpires, KeyExpires, vars, requests
  <2> QED
    BY <2>1, <2>2, NextSplits
<1> QED
  BY <1>1, <1>2, <1>3, <1>4

-----------------------------------------------------------------------------
\* r was answered, alone, and no Reset has begun since it began.
Finished(r) ==
    pc[r] = "done" /\ r \notin overlapped /\ epoch[r] = resets /\ ~ resetting

Recalls(turns, r) == \A role \in Roles : Has(turns, TurnOf(role, r))
Stored(r) == Recalls(rows[session[r]], r)

\* What a request under way knows of r, or will read.
Knows(q, r) ==
    /\ pc[q] \notin {"endall", "create", "setkey"}
    /\ pc[q] \in {"find", "messages"} => Stored(r)
    /\ pc[q] \in {"key", "rebuild", "rekey", "ask", "gemini", "save"} => Recalls(history[q], r)

Remembered(r) ==
    /\ session[r] \in Sessions /\ open = {session[r]}
    /\ \A role \in Roles : Kept(r, role)
    /\ histKey # <<>> => Recalls(histKey, r)
    /\ histKey = <<>> => Stored(r)
    /\ \A q \in Active : Knows(q, r)

Memory == \A r \in Requests : Finished(r) => Remembered(r)

LEMMA RecallsSomething == \A r : ~ Recalls(<<>>, r)
BY NothingInEmpty DEF Recalls, Roles

LEMMA RecallsMore ==
    ASSUME NEW turns \in Seq(Turn), NEW a \in Turn, NEW b \in Turn, NEW r, Recalls(turns, r)
    PROVE Recalls(Append(turns, a), r) /\ Recalls(turns \o <<a, b>>, r)
BY HasAppended, HasExchange DEF Recalls

LEMMA StoredStays ==
    ASSUME Typed, [Next]_vars, NEW r \in Requests, session[r] \in Sessions,
           session'[r] = session[r], Stored(r)
    PROVE Stored(r)'
<1>1. \A turns : Recalls(turns, r)' <=> Recalls(turns', r)
  BY DEF Recalls, Has, TurnOf
<1>2. rows \in [Sessions -> Seq(Turn)]
  BY DEF Typed, TypeOK
<1>3. CASE rows' = rows
  BY <1>3 DEF Stored, Recalls, Has, TurnOf
<1>4. ASSUME NEW q \in Requests, OfRequest(q) PROVE rows' = rows
  BY <1>4, RequestsAlone DEF OneMoves
<1>5. ASSUME NEW x \in savers, OfSaver(x) PROVE Stored(r)'
  <2>1. x.session \in Sessions /\ x.turn \in Turn
    BY DEF Typed, TypeOK
  <2>2. rows' = rows \/ rows' = [rows EXCEPT ![x.session] = Append(@, x.turn)]
    BY <1>5 DEF OfSaver, SaveMessage, SaveMessageFails, database
  <2>3. Recalls(rows'[session[r]], r)
    <3>1. rows'[session[r]] = rows[session[r]] \/ rows'[session[r]] = Append(rows[session[r]], x.turn)
      BY <1>2, <2>1, <2>2
    <3>2. rows[session[r]] \in Seq(Turn) /\ Recalls(rows[session[r]], r)
      BY <1>2 DEF Stored
    <3> QED
      BY <2>1, <3>1, <3>2, RecallsMore
  <2> QED
    BY <2>3 DEF Stored, Recalls, Has, TurnOf
<1>6. CASE Outside \/ UNCHANGED vars
  BY <1>3, <1>6 DEF Outside, ResetSessions, ResetKeys, HistExpires, KeyExpires, vars, database
<1> QED
  BY <1>3, <1>4, <1>5, <1>6, NextSplits

\* A step of another request leaves r what it was, and nobody is opening a session.
LEMMA OthersRemember ==
    ASSUME Typed, Steady, Spoken, Whole', [Next]_vars, ~ Fault,
           NEW q \in Requests, OfRequest(q), NEW r \in Requests \ {q},
           pc[r] = "done", Remembered(r)
    PROVE Remembered(r)'
<1>0. OneMoves(q)
  BY RequestsAlone
<1>1. /\ session'[r] = session[r] /\ session[r] \in Sessions
      /\ rows' = rows /\ session[r] # NoSession
  BY <1>0, NoSessionAssumption DEF OneMoves, Remembered
<1>2. \A role \in Roles : Kept(r, role)'
  BY <1>1, KeptStays DEF Remembered
<1>3. \A turns : Recalls(turns, r)' <=> Recalls(turns', r)
  BY DEF Recalls, Has, TurnOf
<1>4. Stored(r) <=> Stored(r)'
  BY <1>1 DEF Stored, Recalls, Has, TurnOf
<1>5. ~ EndAll(q) /\ ~ Create(q) /\ ~ CreateFails(q) /\ ~ SetKey(q)
  BY DEF Remembered, Knows, Active, EndAll, Create, CreateFails, SetKey, Goto
<1>6. open' = open
  BY <1>5 DEF OfRequest, SendMessage, Begin, GetHist, GetKey, Find, Messages, LoadFails,
       Rebuild, Rekey, Ask, Gemini, GeminiFails, SaveHistory, SaveHistoryFails, database
<1>7. \A p \in Active' \ {q} : Knows(p, r)'
  <2>1. SUFFICES ASSUME NEW p \in Active' \ {q} PROVE Knows(p, r)'
    OBVIOUS
  <2>2. p \in Active /\ pc'[p] = pc[p] /\ history'[p] = history[p]
    BY <1>0 DEF OneMoves, Active
  <2>3. Knows(p, r)
    BY <2>2 DEF Remembered
  <2> QED
    BY <1>3, <1>4, <2>2, <2>3 DEF Knows
<1>8. SUFFICES /\ histKey' # <<>> => Recalls(histKey', r)
               /\ histKey' = <<>> => Stored(r)
               /\ q \in Active' => Knows(q, r)'
  BY <1>1, <1>2, <1>3, <1>4, <1>6, <1>7 DEF Remembered, Recalls, Has, TurnOf
<1> USE DEF Goto, Answer, Loads, Typed, TypeOK
<1>9. CASE /\ histKey' = histKey /\ history'[q] = history[q] /\ q \in Active
           /\ pc'[q] \in {"key", "rebuild", "rekey", "ask", "gemini", "save"} =>
                pc[q] \in {"key", "rebuild", "rekey", "ask", "gemini", "save"}
           /\ pc'[q] \notin {"find", "messages", "endall", "create", "setkey"}
  <2>1. Knows(q, r)
    BY <1>9 DEF Remembered
  <2> QED
    BY <1>3, <1>9, <2>1 DEF Remembered, Knows
<1>10. CASE Begin(q)
  BY <1>10 DEF Begin, Knows, Remembered, redis
<1>11. CASE GetHist(q)
  <2>1. CASE histKey # <<>> /\ pc'[q] = "key" /\ history'[q] = histKey
    BY <1>3, <1>11, <2>1 DEF GetHist, Knows, Remembered, redis
  <2>2. CASE histKey = <<>> /\ pc'[q] = "find"
    BY <1>4, <1>11, <2>2 DEF GetHist, Knows, Remembered, redis
  <2> QED
    BY <1>11, <2>1, <2>2 DEF GetHist
<1>12. CASE GetKey(q)
  <2>1. pc'[q] # "endall" /\ histKey' = histKey
    BY <1>12 DEF GetKey, Whole, redis
  <2>2. \/ pc'[q] = "ask" /\ history' = history
        \/ pc'[q] = "shown"
    BY <1>12, <2>1 DEF GetKey
  <2>3. pc[q] = "key" /\ q \in Active
    BY <1>12 DEF GetKey, Active
  <2>4. CASE pc'[q] = "shown"
    BY <2>1, <2>4 DEF Remembered, Active
  <2> QED
    BY <1>9, <2>1, <2>2, <2>3, <2>4
<1>13. CASE Find(q)
  <2>1. open # {}
    BY DEF Remembered
  <2>2. pc'[q] = "messages" /\ pc[q] = "find" /\ histKey' = histKey
    BY <1>13, <2>1 DEF Find, redis
  <2>3. Stored(r)
    BY <2>2 DEF Remembered, Knows, Active
  <2> QED
    BY <1>4, <2>2, <2>3 DEF Remembered, Knows
<1>14. CASE Messages(q)
  <2>1. /\ pc[q] = "messages" /\ histKey' = histKey
        /\ history'[q] = rows[session[q]]
        /\ pc'[q] = IF rows[session[q]] = <<>> THEN "rekey" ELSE "rebuild"
    BY <1>14 DEF Messages, redis
  <2>2. session[q] = session[r]
    BY <2>1 DEF Steady, Holding, Remembered
  <2>3. Recalls(history'[q], r)
    BY <2>1, <2>2 DEF Remembered, Knows, Active, Stored
  <2> QED
    BY <1>3, <2>1, <2>3 DEF Remembered, Knows
<1>15. CASE Rebuild(q)
  <2>1. /\ pc[q] = "rebuild" /\ pc'[q] = "rekey"
        /\ histKey' = history[q] /\ history'[q] = history[q]
    BY <1>15 DEF Rebuild
  <2>2. Recalls(history[q], r)
    BY <2>1 DEF Remembered, Knows, Active
  <2> QED
    BY <1>3, <2>1, <2>2, RecallsSomething DEF Knows
<1>16. CASE Rekey(q)
  <2>1. /\ pc[q] = "rekey" /\ histKey' = histKey
        /\ \/ pc'[q] = "ask" /\ history' = history
           \/ pc'[q] = "shown"
    BY <1>16 DEF Rekey
  <2>2. CASE pc'[q] = "shown"
    BY <2>1, <2>2 DEF Remembered, Active
  <2> QED
    BY <1>9, <2>1, <2>2 DEF Active
<1>17. CASE Ask(q) \/ Gemini(q)
  BY <1>9, <1>17 DEF Ask, Gemini, Active, redis
<1>18. CASE GeminiFails(q)
  BY <1>18 DEF GeminiFails, Active, Remembered, redis
<1>19. CASE SaveHistory(q)
  <2>1. /\ pc[q] = "save" /\ pc'[q] = "done"
        /\ histKey' = history[q] \o <<TurnOf("user", q), TurnOf("model", q)>>
        /\ history[q] \in Seq(Turn)
    BY <1>19 DEF SaveHistory
  <2>2. TurnOf("user", q) \in Turn /\ TurnOf("model", q) \in Turn
    BY TurnsAreTurns DEF Roles
  <2>3. Recalls(history[q], r)
    BY <2>1 DEF Remembered, Knows, Active
  <2>4. Recalls(histKey', r)
    BY <2>1, <2>2, <2>3, RecallsMore
  <2> QED
    BY <2>1, <2>4, RecallsSomething DEF Active
<1> QED
  BY <1>5, <1>10, <1>11, <1>12, <1>13, <1>14, <1>15, <1>16, <1>17, <1>18, <1>19
     DEF OfRequest, SendMessage, LoadFails, SaveHistoryFails

\* Savers, expiries and resets.
LEMMA OutsideRemembers ==
    ASSUME Typed, [Next]_vars, ~ Fault, NEW r \in Requests, Remembered(r),
           pc[r] = "done",
           \/ \E s \in savers : OfSaver(s)
           \/ HistExpires \/ KeyExpires \/ UNCHANGED vars
    PROVE Remembered(r)'
<1>1. UNCHANGED <<pc, history, session, open>>
  BY DEF OfSaver, SaveMessage, SaveMessageFails, HistExpires, KeyExpires, vars, requests, database
<1>2. session'[r] = session[r] /\ session[r] \in Sessions
  BY <1>1 DEF Remembered
<1>3. \A role \in Roles : Kept(r, role)'
  BY <1>2, KeptStays DEF Remembered
<1>4. Stored(r) => Stored(r)'
  BY <1>2, StoredStays
<1>5. \A turns : Recalls(turns, r)' <=> Recalls(turns', r)
  BY DEF Recalls, Has, TurnOf
<1>6. ASSUME NEW q \in Active' PROVE Knows(q, r)'
  <2>1. q \in Active
    BY <1>1 DEF Active
  <2>2. Knows(q, r)
    BY <2>1 DEF Remembered
  <2> QED
    BY <1>1, <1>4, <1>5, <2>2 DEF Knows
<1>7. /\ histKey' # <<>> => Recalls(histKey', r)
      /\ histKey' = <<>> => Stored(r)
  <2>1. CASE histKey' = histKey
    BY <2>1 DEF Remembered
  <2>2. CASE HistExpires /\ histKey' # histKey
    <3>1. histKey' = <<>> /\ Recalls(histKey, r) /\ \A s \in savers : ~ Has(histKey, s.turn)
      BY <2>2 DEF HistExpires, Remembered
    <3>2. \A role \in Roles : [session |-> session[r], turn |-> TurnOf(role, r)] \notin savers
      BY <3>1 DEF Recalls
    <3>3. Stored(r)
      BY <3>2 DEF Remembered, Kept, Stored, Recalls
    <3> QED
      BY <3>1, <3>3
  <2>3. HistExpires \/ histKey' = histKey
    BY DEF OfSaver, SaveMessage, SaveMessageFails, KeyExpires, vars, redis
  <2> QED
    BY <2>1, <2>2, <2>3
<1> QED
  BY <1>1, <1>2, <1>3, <1>4, <1>5, <1>6, <1>7 DEF Remembered

\* The request that has just been answered, alone, is what Redis holds.
LEMMA AnswerRemembered ==
    ASSUME Typed, Steady, Spoken, Chronicle, [Next]_vars, ~ Fault,
           NEW r \in Requests, SaveHistory(r), r \notin overlapped
    PROVE Remembered(r)'
<1>1. /\ pc[r] = "save" /\ pc' = [pc EXCEPT ![r] = "done"]
      /\ histKey' = history[r] \o <<TurnOf("user", r), TurnOf("model", r)>>
      /\ history[r] \in Seq(Turn)
      /\ UNCHANGED <<session, open>>
  BY DEF SaveHistory, Answer, Goto, Typed, TypeOK, database
<1>2. session[r] \in Sessions /\ open = {session[r]}
  BY <1>1 DEF Typed, SessionHeld, Steady, Holding
<1>3. \A role \in Roles : Kept(r, role)'
  BY <1>1, <1>2, KeptStays DEF Spoken, Roles
<1>4. Recalls(histKey', r) /\ histKey' # <<>>
  <2>1. TurnOf("user", r) \in Turn /\ TurnOf("model", r) \in Turn
    BY TurnsAreTurns DEF Roles
  <2> QED
    BY <1>1, <2>1, HasExchange DEF Recalls, Roles
<1>5. Active' = {}
  <2>1. r \in Active /\ \A q \in Active : q = r
    BY <1>1 DEF Active, Chronicle, Overlaps
  <2> QED
    BY <1>1, <2>1 DEF Active, Typed, TypeOK
<1>6. Recalls(histKey, r)'
  BY <1>4 DEF Recalls, Has, TurnOf
<1> QED
  BY <1>1, <1>2, <1>3, <1>4, <1>5, <1>6 DEF Remembered

\* A request finished after a step was so before, or has just been answered.
LEMMA FinishedBefore ==
    ASSUME Typed, Chronicle, [Next]_vars, ~ Fault, NEW r \in Requests, Finished(r)'
    PROVE /\ r \notin overlapped /\ ~ ResetSessions /\ ~ ResetKeys
          /\ Finished(r) \/ SaveHistory(r)
<1> USE DEF Finished, Typed, TypeOK
<1>1. ASSUME NEW q \in Requests, OfRequest(q)
      PROVE r \notin overlapped /\ (Finished(r) \/ SaveHistory(r))
  <2>1. overlapped \subseteq overlapped'
    BY <1>1 DEF OfRequest, SendMessage, Begin, GetHist, GetKey, Find, Messages, LoadFails,
         Rebuild, Rekey, EndAll, Create, CreateFails, SetKey, Ask, Gemini, GeminiFails,
         SaveHistory, SaveHistoryFails, ghosts
  <2>2. resets' = resets /\ resetting' = resetting
    BY <1>1, RequestsAlone DEF OneMoves
  <2>3. CASE pc[r] = "done"
    <3>1. epoch'[r] = epoch[r]
      BY <1>1, <2>3 DEF OfRequest, SendMessage, Begin, GetHist, GetKey, Find, Messages,
           LoadFails, Rebuild, Rekey, EndAll, Create, CreateFails, SetKey, Ask, Gemini,
           GeminiFails, SaveHistory, SaveHistoryFails, ghosts, Goto
    <3> QED
      BY <2>1, <2>2, <2>3, <3>1
  <2>4. CASE pc[r] # "done"
    <3>1. q = r
      BY <1>1, <2>4, RequestsAlone DEF OneMoves
    <3>2. SaveHistory(r)
      BY <1>1, <2>4, <3>1 DEF OfRequest, SendMessage, Begin, GetHist, GetKey, Find, Messages,
           LoadFails, Rebuild, Rekey, EndAll, Create, CreateFails, SetKey, Ask, Gemini,
           GeminiFails, SaveHistoryFails, Goto, Loads, Answer
    <3> QED
      BY <2>1, <3>2
  <2> QED
    BY <2>3, <2>4
<1>2. ~ ResetSessions
  BY DEF ResetSessions
<1>3. ~ ResetKeys
  BY DEF ResetKeys, Chronicle, Past, ghosts
<1>4. CASE (\E s \in savers : OfSaver(s)) \/ Outside \/ UNCHANGED vars
  BY <1>2, <1>3, <1>4 DEF OfSaver, SaveMessage, SaveMessageFails, Outside, HistExpires,
       KeyExpires, Expire, Fault, vars, requests, env, ghosts
<1>5. ASSUME NEW q \in Requests, OfRequest(q) PROVE ~ ResetSessions /\ ~ ResetKeys
  BY <1>2, <1>3
<1> QED
  BY <1>1, <1>2, <1>3, <1>4, NextSplits

Remembering == Whole => Steady /\ Spoken /\ Memory

LEMMA RememberingKept ==
    ASSUME Typed, Chronicle, Remembering, [Next]_vars
    PROVE Remembering'
<1> SUFFICES ASSUME Whole' PROVE Steady' /\ Spoken' /\ Memory'
  BY DEF Remembering
<1>1. Steady /\ Spoken /\ Memory /\ ~ Fault
  BY WholeStep DEF Remembering
<1>2. Steady' /\ Spoken'
  BY <1>1, SteadyKept, SpokenKept
<1>3. ASSUME NEW r \in Requests, Finished(r)' PROVE Remembered(r)'
  <2>1. /\ r \notin overlapped /\ ~ ResetSessions /\ ~ ResetKeys
        /\ Finished(r) \/ SaveHistory(r)
    BY <1>1, <1>3, FinishedBefore
  <2>2. CASE SaveHistory(r)
    BY <1>1, <2>1, <2>2, AnswerRemembered
  <2>3. CASE Finished(r)
    <3>1. pc[r] = "done" /\ Remembered(r)
      BY <1>1, <2>3 DEF Finished, Memory
    <3>2. ASSUME NEW q \in Requests, OfRequest(q) PROVE Remembered(r)'
      <4>1. q # r
        BY <3>1, <3>2, ActsWhileActive DEF OfRequest, Begin, Goto, Active
      <4> QED
        BY <1>1, <3>1, <3>2, <4>1, OthersRemember
    <3>3. CASE (\E s \in savers : OfSaver(s)) \/ Outside \/ UNCHANGED vars
      BY <1>1, <2>1, <3>1, <3>3, OutsideRemembers DEF Outside
    <3> QED
      BY <3>2, <3>3, NextSplits
  <2> QED
    BY <2>1, <2>2, <2>3
<1> QED
  BY <1>2, <1>3 DEF Memory

\* Whatever keys expired, whatever other requests overlapped: a question is sent to
\* Gemini with every exchange that was over when it began, if that one overlapped
\* with none, nothing failed, nobody reset, and the conversation was not split.
THEOREM MemoryIsKept == Spec => []MemoryKept
<1>1. Init => Remembering
  BY NoSessionAssumption DEF Init, Remembering, Steady, Spoken, Memory, Finished, Active,
     Opening, Holding
<1>2. Typed /\ Chronicle /\ Remembering /\ [Next]_vars => Remembering'
  BY RememberingKept
<1>3. Typed /\ Chronicle /\ Remembering => MemoryKept
  <2> SUFFICES ASSUME Typed, Chronicle, Remembering, Whole,
                      NEW q \in Requests, pc[q] \in Loaded,
                      NEW r \in before[q] \ overlapped, resets = epoch[r], ~ resetting
               PROVE \A role \in Roles : Has(history[q], TurnOf(role, r))
    BY DEF MemoryKept, Whole
  <2>1. r \in Requests /\ pc[r] = "done"
    BY DEF Typed, TypeOK, Chronicle, Past
  <2>2. Remembered(r)
    BY <2>1 DEF Remembering, Memory, Finished
  <2>3. q \in Active
    BY DEF Loaded, Active
  <2>4. Knows(q, r)
    BY <2>2, <2>3 DEF Remembered
  <2> QED
    BY <2>4 DEF Knows, Loaded, Recalls
<1> QED
  BY <1>1, <1>2, <1>3, AlwaysTyped, AlwaysChronicle, PTL DEF Spec

-----------------------------------------------------------------------------
(***************************************************************************)
(* A request goes from its history to its session and on to its answer:    *)
(* each of its steps takes it to a later place, nine at most.              *)
(***************************************************************************)
Place == [new |-> 0, hist |-> 1, key |-> 2, find |-> 2, messages |-> 3, endall |-> 3,
          rebuild |-> 4, create |-> 4, rekey |-> 5, setkey |-> 5, ask |-> 6,
          gemini |-> 7, save |-> 8, done |-> 9, shown |-> 9, failed |-> 9]

LEMMA GoesForward ==
    ASSUME Typed, NEW q \in Requests, OfRequest(q)
    PROVE Place[pc[q]] < Place[pc'[q]]
<1> USE DEF Place, Goto, Loads, Answer, Typed, TypeOK
<1>1. CASE Begin(q) \/ GetHist(q)
  BY <1>1 DEF Begin, GetHist
<1>2. CASE GetKey(q) \/ Find(q)
  BY <1>2 DEF GetKey, Find
<1>3. CASE Messages(q)
  BY <1>3 DEF Messages
<1>4. CASE LoadFails(q)
  BY <1>4 DEF LoadFails
<1>5. CASE Rebuild(q) \/ Rekey(q)
  BY <1>5 DEF Rebuild, Rekey
<1>6. CASE EndAll(q) \/ Create(q) \/ CreateFails(q) \/ SetKey(q)
  BY <1>6 DEF EndAll, Create, CreateFails, SetKey
<1>7. CASE Ask(q) \/ Gemini(q) \/ GeminiFails(q) \/ SaveHistory(q) \/ SaveHistoryFails(q)
  BY <1>7 DEF Ask, Gemini, GeminiFails, SaveHistory, SaveHistoryFails
<1> QED
  BY <1>1, <1>2, <1>3, <1>4, <1>5, <1>6, <1>7 DEF OfRequest, SendMessage

LEMMA OthersStay ==
    ASSUME (\E s \in savers : OfSaver(s)) \/ Outside \/ UNCHANGED vars
    PROVE UNCHANGED <<requests, epoch>>
BY DEF OfSaver, SaveMessage, SaveMessageFails, Outside, ResetSessions, ResetKeys,
       HistExpires, KeyExpires, vars, ghosts

\* Whatever fails or expires, no step of a request is ever repeated: each brings
\* it closer to its end, and nothing else moves it (SendMessage, loadHistory).
THEOREM RequestsGoForward ==
    Spec => [][\A q \in Requests :
                /\ OfRequest(q) => Place[pc[q]] < Place[pc'[q]]
                /\ ~ OfRequest(q) => pc'[q] = pc[q]]_vars
<1>1. Typed /\ [Next]_vars =>
        [\A q \in Requests :
            /\ OfRequest(q) => Place[pc[q]] < Place[pc'[q]]
            /\ ~ OfRequest(q) => pc'[q] = pc[q]]_vars
  <2> SUFFICES ASSUME Typed, [Next]_vars, NEW q \in Requests
               PROVE /\ OfRequest(q) => Place[pc[q]] < Place[pc'[q]]
                     /\ ~ OfRequest(q) => pc'[q] = pc[q]
    OBVIOUS
  <2>1. ASSUME ~ OfRequest(q) PROVE pc'[q] = pc[q]
    <3>1. ASSUME NEW p \in Requests, OfRequest(p) PROVE pc'[q] = pc[q]
      BY <2>1, <3>1, RequestsAlone DEF OneMoves
    <3> QED
      BY <3>1, OthersStay, NextSplits DEF requests
  <2> QED
    BY <2>1, GoesForward
<1> QED
  BY <1>1, AlwaysTyped, PTL DEF Spec

-----------------------------------------------------------------------------
(***************************************************************************)
(* A turn is stored once: it is in one place of one session, and while a   *)
(* goroutine has it, in none.  Only its own request ever gives it to one.  *)
(***************************************************************************)
StoredOnce ==
    \A s1, s2 \in Sessions : \A i \in 1 .. Len(rows[s1]), j \in 1 .. Len(rows[s2]) :
        rows[s1][i] = rows[s2][j] => s1 = s2 /\ i = j

SavedOnce ==
    /\ \A s \in savers : ~ Archived(s.turn)
    /\ \A s, t \in savers : s.turn = t.turn => s = t

Spoke ==
    \A q \in Requests :
        /\ Safe(TurnOf("user", q)) => pc[q] \in {"gemini", "save", "done", "failed"}
        /\ Safe(TurnOf("model", q)) => pc[q] \in {"save", "done"}

Single == StoredOnce /\ SavedOnce /\ Spoke

\* No step stores a turn, or has one stored, that was not spoken or is being now.
LEMMA NothingElseSaved ==
    ASSUME Typed, NEW q \in Requests, OfRequest(q), ~ Ask(q), ~ Gemini(q)
    PROVE savers' = savers
BY DEF OfRequest, SendMessage, Begin, GetHist, GetKey, Find, Messages, LoadFails,
       Rebuild, Rekey, EndAll, Create, CreateFails, SetKey, GeminiFails,
       SaveHistory, SaveHistoryFails

LEMMA SpeakersGoOn ==
    ASSUME Typed, NEW q \in Requests, OfRequest(q)
    PROVE /\ pc[q] \in {"gemini", "save", "done", "failed"}
                => pc'[q] \in {"gemini", "save", "done", "failed"}
          /\ pc[q] \in {"save", "done"} => pc'[q] \in {"save", "done"}
BY DEF OfRequest, SendMessage, Begin, GetHist, GetKey, Find, Messages, LoadFails,
       Rebuild, Rekey, EndAll, Create, CreateFails, SetKey, Ask, Gemini, GeminiFails,
       SaveHistory, SaveHistoryFails, Goto, Loads, Answer, Typed, TypeOK

LEMMA SpeakingSingly ==
    ASSUME Typed, Single, NEW q \in Requests, NEW role \in Roles, ~ Safe(TurnOf(role, q)),
           Persist(q, role), rows' = rows
    PROVE /\ StoredOnce' /\ SavedOnce'
          /\ \A t : Safe(t)' => Safe(t) \/ t = TurnOf(role, q)
<1> DEFINE new == [session |-> session[q], turn |-> TurnOf(role, q)]
<1>1. savers' = savers \union {new} /\ new.turn = TurnOf(role, q)
  BY DEF Persist
<1> HIDE DEF new
<1>2. StoredOnce'
  BY DEF Single, StoredOnce
<1>3. \A t : Archived(t)' <=> Archived(t)
  BY DEF Archived, Has
<1>4. SavedOnce'
  BY <1>1, <1>3 DEF Single, SavedOnce, Safe, Saving
<1>5. \A t : Safe(t)' => Safe(t) \/ t = TurnOf(role, q)
  BY <1>1, <1>3 DEF Safe, Saving
<1> QED
  BY <1>2, <1>4, <1>5

LEMMA SingleRequest ==
    ASSUME Typed, Single, NEW q \in Requests, OfRequest(q)
    PROVE Single'
<1>1. /\ rows' = rows
      /\ \A p \in Requests \ {q} : pc'[p] = pc[p]
  BY RequestsAlone DEF OneMoves
<1>2. \A r, p : TurnOf(r, p)' = TurnOf(r, p)
  BY DEF TurnOf
<1>3. CASE savers' = savers
  <2>1. StoredOnce' /\ SavedOnce'
    BY <1>1, <1>3 DEF Single, StoredOnce, SavedOnce, Archived, Has
  <2>2. \A t : Safe(t)' <=> Safe(t)
    BY <1>1, <1>3 DEF Safe, Archived, Saving, Has
  <2>3. Spoke'
    BY <1>1, <1>2, <2>2, SpeakersGoOn DEF Single, Spoke
  <2> QED
    BY <2>1, <2>3 DEF Single
<1>4. CASE Ask(q)
  <2>1. pc[q] = "ask" /\ pc'[q] = "gemini" /\ Persist(q, "user")
    BY <1>4 DEF Ask, Goto, Typed, TypeOK
  <2>2. ~ Safe(TurnOf("user", q))
    BY <2>1 DEF Single, Spoke
  <2>3. /\ StoredOnce' /\ SavedOnce'
        /\ \A t : Safe(t)' => Safe(t) \/ t = TurnOf("user", q)
    BY <1>1, <2>1, <2>2, SpeakingSingly DEF Roles
  <2>4. \A p \in Requests : /\ TurnOf("user", p) = TurnOf("user", q) => p = q
                            /\ TurnOf("model", p) # TurnOf("user", q)
    BY DEF TurnOf
  <2>5. Spoke'
    BY <1>1, <1>2, <2>1, <2>3, <2>4, SpeakersGoOn DEF Single, Spoke
  <2> QED
    BY <2>3, <2>5 DEF Single
<1>5. CASE Gemini(q)
  <2>1. pc[q] = "gemini" /\ pc'[q] = "save" /\ Persist(q, "model")
    BY <1>5 DEF Gemini, Goto, Typed, TypeOK
  <2>2. ~ Safe(TurnOf("model", q))
    BY <2>1 DEF Single, Spoke
  <2>3. /\ StoredOnce' /\ SavedOnce'
        /\ \A t : Safe(t)' => Safe(t) \/ t = TurnOf("model", q)
    BY <1>1, <2>1, <2>2, SpeakingSingly DEF Roles
  <2>4. \A p \in Requests : /\ TurnOf("model", p) = TurnOf("model", q) => p = q
                            /\ TurnOf("user", p) # TurnOf("model", q)
    BY DEF TurnOf
  <2>5. Spoke'
    BY <1>1, <1>2, <2>1, <2>3, <2>4, SpeakersGoOn DEF Single, Spoke
  <2> QED
    BY <2>3, <2>5 DEF Single
<1> QED
  BY <1>3, <1>4, <1>5, NothingElseSaved

\* A goroutine stores its turn at the end of its session, where no other has it.
LEMMA SingleSaver ==
    ASSUME Typed, Single, NEW s \in savers, OfSaver(s)
    PROVE Single'
<1>1. /\ s.session \in Sessions /\ s.turn \in Turn
      /\ rows \in [Sessions -> Seq(Turn)]
  BY DEF Typed, TypeOK
<1>2. savers' = savers \ {s} /\ pc' = pc
  BY DEF OfSaver, SaveMessage, SaveMessageFails, requests
<1>3. \A r, p : TurnOf(r, p)' = TurnOf(r, p)
  BY DEF TurnOf
<1>4. CASE rows' = rows
  <2>1. \A t : Archived(t)' <=> Archived(t)
    BY <1>4 DEF Archived, Has
  <2>2. \A t : Safe(t)' => Safe(t)
    BY <1>2, <2>1 DEF Safe, Saving
  <2>3. StoredOnce' /\ SavedOnce'
    BY <1>2, <1>4, <2>1 DEF Single, StoredOnce, SavedOnce
  <2>4. Spoke'
    BY <1>2, <1>3, <2>2 DEF Single, Spoke
  <2> QED
    BY <2>3, <2>4 DEF Single
<1>5. CASE rows' = [rows EXCEPT ![s.session] = Append(@, s.turn)]
  <2> DEFINE n == Len(rows[s.session])
  <2>1. /\ \A x \in Sessions \ {s.session} : rows'[x] = rows[x]
        /\ rows'[s.session] = Append(rows[s.session], s.turn)
        /\ rows[s.session] \in Seq(Turn)
    BY <1>1, <1>5
  <2>2. /\ n \in Nat /\ Len(rows'[s.session]) = n + 1
        /\ rows'[s.session][n + 1] = s.turn
        /\ \A i \in 1 .. n : rows'[s.session][i] = rows[s.session][i]
    BY <2>1
  <2> HIDE DEF n
  <2>3. \A x \in Sessions : \A i \in 1 .. Len(rows'[x]) :
          \/ i \in 1 .. Len(rows[x]) /\ rows'[x][i] = rows[x][i]
          \/ x = s.session /\ i = n + 1 /\ rows'[x][i] = s.turn
    <3> SUFFICES ASSUME NEW x \in Sessions, NEW i \in 1 .. Len(rows'[x])
                 PROVE \/ i \in 1 .. Len(rows[x]) /\ rows'[x][i] = rows[x][i]
                       \/ x = s.session /\ i = n + 1 /\ rows'[x][i] = s.turn
      OBVIOUS
    <3>1. CASE x # s.session
      BY <2>1, <3>1
    <3>2. CASE x = s.session
      <4>1. i \in 1 .. n + 1
        BY <2>2, <3>2
      <4>2. i \in 1 .. n \/ i = n + 1
        BY <2>2, <4>1
      <4>3. n = Len(rows[x])
        BY <3>2 DEF n
      <4> QED
        BY <2>2, <3>2, <4>2, <4>3
    <3> QED
      BY <3>1, <3>2
  <2>4. \A x \in Sessions : \A i \in 1 .. Len(rows[x]) : rows[x][i] # s.turn
    BY DEF Single, SavedOnce, Archived, Has
  <2>5. StoredOnce'
    <3> SUFFICES ASSUME NEW s1 \in Sessions, NEW s2 \in Sessions,
                        NEW i \in 1 .. Len(rows'[s1]), NEW j \in 1 .. Len(rows'[s2]),
                        rows'[s1][i] = rows'[s2][j]
                 PROVE s1 = s2 /\ i = j
      BY DEF StoredOnce
    <3> QED
      BY <2>3, <2>4 DEF Single, StoredOnce
  <2>6. \A t : Archived(t)' => Archived(t) \/ t = s.turn
    BY <2>3 DEF Archived, Has
  <2>7. SavedOnce'
    BY <1>2, <2>6 DEF Single, SavedOnce
  <2>8. \A t : Safe(t)' => Safe(t)
    BY <1>2, <2>6 DEF Safe, Saving
  <2>9. Spoke'
    BY <1>2, <1>3, <2>8 DEF Single, Spoke
  <2> QED
    BY <2>5, <2>7, <2>9 DEF Single
<1> QED
  BY <1>4, <1>5 DEF OfSaver, SaveMessage, SaveMessageFails, database

\* However requests overlap, fail or are repeated by an impatient click, no question
\* and no answer is stored twice, nor in two sessions (persistMessage, SaveMessage).
THEOREM TurnsStoredOnce == Spec => []StoredOnce
<1>1. Init => Single
  BY NothingInEmpty DEF Init, Single, StoredOnce, SavedOnce, Spoke, Safe, Archived, Saving
<1>2. Typed /\ Single /\ [Next]_vars => Single'
  <2> SUFFICES ASSUME Typed, Single, [Next]_vars PROVE Single'
    OBVIOUS
  <2>1. CASE Outside \/ UNCHANGED vars
    <3>1. UNCHANGED <<pc, savers, rows>>
      BY <2>1 DEF Outside, ResetSessions, ResetKeys, HistExpires, KeyExpires, vars,
           requests, database
    <3> QED
      BY <3>1 DEF Single, StoredOnce, SavedOnce, Spoke, Safe, Archived, Saving, Has, TurnOf
  <2> QED
    BY <2>1, SingleRequest, SingleSaver, NextSplits
<1>3. Single => StoredOnce
  BY DEF Single
<1> QED
  BY <1>1, <1>2, <1>3, AlwaysTyped, PTL DEF Spec

-----------------------------------------------------------------------------
(***************************************************************************)
(* What it takes for a Reset to forget.  Used alone, while no request is   *)
(* under way and none begins before it has ended, and with its UPDATE and  *)
(* its Del done, whose errors the code ignores, it separates what was said *)
(* before from all that is read after it.                                  *)
(***************************************************************************)
ResetsAlone ==
    /\ ResetSessions => Active = {} /\ open' = {}
    /\ ResetKeys => histKey' = <<>> /\ sessionKey' = NoSession
    /\ \A q \in Requests : Begin(q) => ~ resetting

\* q began after the n-th Reset, and all that was said in turns was said then.
Since(q, n) == pc[q] # "new" /\ epoch[q] = n
SaidSince(turns, n) == \A t \in Turn : Has(turns, t) => Since(t.of, n)

\* Everything that a request can read is of the present epoch, and what an older
\* session has or still gets stays in that session.
Fresh ==
    /\ resetting => open = {} /\ Active = {}
    /\ SaidSince(histKey, resets)
    /\ sessionKey # NoSession => Since(sessionKey, resets)
    /\ \A s \in open : Since(s, resets)
    /\ \A q \in Active : epoch[q] = resets
    /\ \A q \in Requests : pc[q] \in Holding => Since(session[q], resets)
    /\ \A q \in Requests : SaidSince(history[q], epoch[q])
    /\ \A q \in Requests : pc[q] = "new" => history[q] = <<>>
    /\ \A s \in savers : pc[s.session] # "new" /\ Since(s.turn.of, epoch[s.session])
    /\ \A s \in Sessions : rows[s] # <<>> => pc[s] # "new"
    /\ \A s \in Sessions : SaidSince(rows[s], epoch[s])

\* What a step of a request may put where.
Passes(q) ==
    /\ histKey' \in {histKey, history[q]}
          \/ histKey' = history[q] \o <<TurnOf("user", q), TurnOf("model", q)>>
    /\ sessionKey' = sessionKey \/ (pc[q] \in Holding /\ sessionKey' = session[q])
    /\ open' \subseteq open \union {q}
    /\ history'[q] \in {history[q], histKey, <<>>}
          \/ (pc[q] \in Holding /\ history'[q] = rows[session[q]])
    /\ pc'[q] \in Holding =>
          \/ pc[q] \in Holding /\ session'[q] = session[q]
          \/ sessionKey # NoSession /\ session'[q] = sessionKey
          \/ session'[q] \in open \union {q}
    /\ \A s \in savers' \ savers : pc[q] \in Holding /\ s.session = session[q] /\ s.turn.of = q

LEMMA SavesOwn ==
    ASSUME NEW q \in Requests, NEW role, Persist(q, role)
    PROVE \A s \in savers' \ savers : s.session = session[q] /\ s.turn.of = q
BY DEF Persist, TurnOf

LEMMA RequestPasses ==
    ASSUME Typed, NEW q \in Requests, SendMessage(q)
    PROVE Passes(q)
<1> USE DEF Passes, Goto, Loads, Answer, Typed, TypeOK, requests, redis, database, Holding
<1>1. CASE GetHist(q)
  BY <1>1 DEF GetHist
<1>2. CASE GetKey(q) \/ Find(q)
  BY <1>2 DEF GetKey, Find
<1>3. CASE Messages(q) \/ LoadFails(q) \/ Rebuild(q)
  BY <1>3 DEF Messages, LoadFails, Rebuild
<1>4. CASE Rekey(q) \/ SetKey(q)
  BY <1>4 DEF Rekey, SetKey, SetSessionKey
<1>5. CASE EndAll(q) \/ Create(q) \/ CreateFails(q)
  BY <1>5 DEF EndAll, Create, CreateFails
<1>6. CASE Ask(q) \/ Gemini(q)
  BY <1>6, SavesOwn DEF Ask, Gemini
<1>7. CASE GeminiFails(q) \/ SaveHistory(q) \/ SaveHistoryFails(q)
  BY <1>7 DEF GeminiFails, SaveHistory, SaveHistoryFails
<1> QED
  BY <1>1, <1>2, <1>3, <1>4, <1>5, <1>6, <1>7 DEF SendMessage

\* The epoch of a request is that of its beginning.
LEMMA EpochStays ==
    ASSUME Typed, NEW q \in Requests, SendMessage(q)
    PROVE epoch' = epoch /\ pc'[q] # "new"
BY DEF SendMessage, GetHist, GetKey, Find, Messages, LoadFails, Rebuild, Rekey, EndAll,
       Create, CreateFails, SetKey, Ask, Gemini, GeminiFails, SaveHistory,
       SaveHistoryFails, Goto, Loads, Answer, Typed, TypeOK, ghosts

\* The same after the step.
LaterSince(q, n) == pc'[q] # "new" /\ epoch'[q] = n

LEMMA FreshBegin ==
    ASSUME Typed, Fresh, NEW q \in Requests, Begin(q), ~ resetting
    PROVE Fresh'
<1>1. /\ pc[q] = "new" /\ pc' = [pc EXCEPT ![q] = "hist"]
      /\ epoch' = [epoch EXCEPT ![q] = resets]
      /\ UNCHANGED <<history, session, savers, resetting, histKey, sessionKey, open, rows, resets>>
  BY DEF Begin, Goto, redis, database, env
<1>2. \A p \in Requests \ {q} : pc'[p] = pc[p] /\ epoch'[p] = epoch[p]
  BY <1>1 DEF Typed, TypeOK
<1>3. pc'[q] = "hist" /\ epoch'[q] = resets
  BY <1>1 DEF Typed, TypeOK
<1>4. \A p \in Requests : \A n : Since(p, n) => LaterSince(p, n)
  BY <1>1, <1>2 DEF Since, LaterSince
<1>5. \A t \in Turn : t.of \in Requests
  BY DEF Turn
<1>6. \A turns, n : SaidSince(turns, n) => (\A t \in Turn : Has(turns, t) => LaterSince(t.of, n))
  BY <1>4, <1>5 DEF SaidSince
<1>7. SaidSince(histKey, resets)'
  BY <1>1, <1>6 DEF Fresh, SaidSince, Has, Since, LaterSince
<1>8. \A p \in Requests : SaidSince(history[p], epoch[p])'
  <2> SUFFICES ASSUME NEW p \in Requests, NEW t \in Turn, Has(history[p], t)
               PROVE LaterSince(t.of, epoch'[p])
    BY <1>1 DEF SaidSince, Has, Since, LaterSince
  <2>1. p # q
    BY <1>1, NothingInEmpty DEF Fresh
  <2> QED
    BY <1>2, <1>6, <2>1 DEF Fresh
<1>9. \A s \in Sessions : SaidSince(rows[s], epoch[s])' /\ (rows'[s] # <<>> => pc'[s] # "new")
  <2> SUFFICES ASSUME NEW s \in Sessions
               PROVE /\ \A t \in Turn : Has(rows[s], t) => LaterSince(t.of, epoch'[s])
                     /\ rows[s] # <<>> => pc'[s] # "new"
    BY <1>1 DEF SaidSince, Has, Since, LaterSince
  <2>1. CASE s = q
    BY <1>1, <1>3, <2>1, NothingInEmpty DEF Fresh
  <2>2. CASE s # q
    BY <1>2, <1>6, <2>2 DEF Fresh, Sessions
  <2> QED
    BY <2>1, <2>2
<1>10. \A s \in savers : pc'[s.session] # "new" /\ LaterSince(s.turn.of, epoch'[s.session])
  <2> SUFFICES ASSUME NEW s \in savers
               PROVE pc'[s.session] # "new" /\ LaterSince(s.turn.of, epoch'[s.session])
    OBVIOUS
  <2>1. s.session \in Requests \ {q} /\ s.turn.of \in Requests
    BY <1>1, <1>5 DEF Fresh, Typed, TypeOK, Sessions
  <2> QED
    BY <1>2, <1>4, <2>1 DEF Fresh
<1>11. /\ \A s \in open : LaterSince(s, resets)
       /\ sessionKey # NoSession => LaterSince(sessionKey, resets)
       /\ \A p \in Requests : pc[p] \in Holding => LaterSince(session[p], resets)
  BY <1>4, <1>1 DEF Fresh, Typed, TypeOK, SessionHeld, Sessions
<1>12. \A p \in Requests : pc'[p] \in Holding => pc[p] \in Holding
  BY <1>2, <1>3 DEF Holding
<1>13. \A p \in Active' : epoch'[p] = resets
  BY <1>2, <1>3 DEF Fresh, Active
<1>14. \A p \in Requests : pc'[p] = "new" => history[p] = <<>>
  BY <1>2, <1>3 DEF Fresh
<1> QED
  BY <1>1, <1>7, <1>8, <1>9, <1>10, <1>11, <1>12, <1>13, <1>14 DEF Fresh, Since, LaterSince

LEMMA FreshRequest ==
    ASSUME Typed, Typed', Fresh, NEW q \in Requests, SendMessage(q)
    PROVE Fresh'
<1>0. OneMoves(q) /\ Passes(q) /\ epoch' = epoch /\ pc'[q] # "new"
  BY RequestsAlone, RequestPasses, EpochStays DEF OfRequest
<1>1. q \in Active
  BY ActsWhileActive
<1>2. /\ Since(q, resets) /\ resets' = resets /\ rows' = rows
      /\ ~ resetting /\ ~ resetting'
  BY <1>0, <1>1 DEF Fresh, Since, Active, OneMoves
<1>3. \A p \in Requests : \A n : Since(p, n) => LaterSince(p, n)
  BY <1>0 DEF Since, LaterSince, OneMoves
<1>4. \A t \in Turn : t.of \in Requests
  BY DEF Turn
<1>5. \A turns, n : SaidSince(turns, n) => (\A t \in Turn : Has(turns, t) => LaterSince(t.of, n))
  BY <1>3, <1>4 DEF SaidSince
<1>6. SaidSince(history[q], resets)
  BY <1>1 DEF Fresh
<1>7. SaidSince(histKey, resets)'
  <2>1. \A t \in Turn : Has(histKey', t) => Since(t.of, resets)
    <3>1. CASE histKey' \in {histKey, history[q]}
      BY <1>6, <3>1 DEF Fresh, SaidSince
    <3>2. CASE histKey' = history[q] \o <<TurnOf("user", q), TurnOf("model", q)>>
      <4>1. /\ history[q] \in Seq(Turn)
            /\ TurnOf("user", q) \in Turn /\ TurnOf("model", q) \in Turn
        BY TurnsAreTurns DEF Typed, TypeOK, Roles
      <4>2. TurnOf("user", q).of = q /\ TurnOf("model", q).of = q
        BY DEF TurnOf
      <4>3. \A t : Has(histKey', t) =>
              Has(history[q], t) \/ t = TurnOf("user", q) \/ t = TurnOf("model", q)
        BY <3>2, <4>1, HasExchange
      <4> QED
        BY <1>2, <1>6, <4>2, <4>3 DEF SaidSince
    <3> QED
      BY <1>0, <3>1, <3>2 DEF Passes
  <2> QED
    BY <1>2, <1>3, <1>4, <2>1 DEF SaidSince, Has, Since, LaterSince
<1>8. sessionKey' # NoSession => LaterSince(sessionKey', resets)
  <2> SUFFICES ASSUME sessionKey' # NoSession PROVE LaterSince(sessionKey', resets)
    OBVIOUS
  <2>1. sessionKey' \in Requests
    BY DEF Typed, TypeOK, Sessions
  <2>2. Since(sessionKey', resets)
    BY <1>0 DEF Fresh, Passes
  <2> QED
    BY <1>3, <2>1, <2>2
<1>9. \A s \in open' : LaterSince(s, resets)
  BY <1>0, <1>2, <1>3 DEF Fresh, Passes, Typed, TypeOK, Sessions
<1>10. \A p \in Active' : epoch'[p] = resets
  <2>1. Active' \subseteq Active
    BY <1>0, <1>1 DEF OneMoves, Active
  <2> QED
    BY <1>0, <2>1 DEF Fresh
<1>11. \A p \in Requests : pc'[p] \in Holding => LaterSince(session'[p], resets)
  <2> SUFFICES ASSUME NEW p \in Requests, pc'[p] \in Holding
               PROVE LaterSince(session'[p], resets)
    OBVIOUS
  <2>1. CASE p # q
    BY <1>0, <1>3, <2>1 DEF Fresh, OneMoves, Typed, SessionHeld, Sessions
  <2>2. CASE p = q
    <3>1. Since(session'[q], resets)
      BY <1>0, <1>2, <2>2 DEF Fresh, Passes
    <3>2. session'[q] \in Requests
      BY <2>2 DEF Typed, SessionHeld, Sessions
    <3> QED
      BY <1>3, <2>2, <3>1, <3>2
  <2> QED
    BY <2>1, <2>2
<1>12. \A p \in Requests : SaidSince(history[p], epoch[p])'
  <2> SUFFICES ASSUME NEW p \in Requests, NEW t \in Turn, Has(history'[p], t)
               PROVE Since(t.of, epoch[p])
    BY <1>0, <1>3, <1>4 DEF SaidSince, Has, Since, LaterSince
  <2>1. CASE p # q
    BY <1>0, <2>1 DEF Fresh, OneMoves, SaidSince
  <2>2. CASE p = q
    <3>1. CASE history'[q] \in {history[q], histKey, <<>>}
      BY <1>2, <1>6, <2>2, <3>1, NothingInEmpty DEF Fresh, SaidSince, Since
    <3>2. CASE pc[q] \in Holding /\ history'[q] = rows[session[q]]
      <4>1. session[q] \in Sessions /\ epoch[session[q]] = resets /\ epoch[q] = resets
        BY <1>2, <3>2 DEF Fresh, Since, Typed, SessionHeld
      <4> QED
        BY <2>2, <3>2, <4>1 DEF Fresh, SaidSince
    <3> QED
      BY <1>0, <3>1, <3>2 DEF Passes
  <2> QED
    BY <2>1, <2>2
<1>13. \A p \in Requests : pc'[p] = "new" => history'[p] = <<>>
  BY <1>0 DEF Fresh, OneMoves
<1>14. \A s \in savers' : pc'[s.session] # "new" /\ LaterSince(s.turn.of, epoch[s.session])
  <2> SUFFICES ASSUME NEW s \in savers'
               PROVE pc'[s.session] # "new" /\ LaterSince(s.turn.of, epoch[s.session])
    OBVIOUS
  <2>1. s.session \in Requests /\ s.turn.of \in Requests
    BY <1>4 DEF Typed, TypeOK, Sessions
  <2>2. pc[s.session] # "new" /\ Since(s.turn.of, epoch[s.session])
    <3>1. CASE s \in savers
      BY <3>1 DEF Fresh
    <3>2. CASE s \notin savers
      BY <1>0, <1>2, <3>2 DEF Fresh, Passes, Since
    <3> QED
      BY <3>1, <3>2
  <2> QED
    BY <1>0, <1>3, <2>1, <2>2 DEF Since, LaterSince, OneMoves
<1>15. \A s \in Sessions : rows'[s] # <<>> => pc'[s] # "new"
  BY <1>0, <1>2 DEF Fresh, OneMoves, Sessions
<1>16. \A s \in Sessions : SaidSince(rows[s], epoch[s])'
  <2> SUFFICES ASSUME NEW s \in Sessions, NEW t \in Turn, Has(rows[s], t)
               PROVE LaterSince(t.of, epoch[s])
    BY <1>0, <1>2 DEF SaidSince, Has, Since, LaterSince
  <2> QED
    BY <1>5 DEF Fresh
<1> QED
  BY <1>0, <1>2, <1>7, <1>8, <1>9, <1>10, <1>11, <1>12, <1>13, <1>14, <1>15, <1>16
  DEF Fresh, Since, LaterSince

LEMMA FreshSaver ==
    ASSUME Typed, Fresh, NEW s \in savers, OfSaver(s)
    PROVE Fresh'
<1>1. /\ savers' = savers \ {s}
      /\ UNCHANGED <<pc, epoch, history, session, resetting, histKey, sessionKey, open, resets>>
  BY DEF OfSaver, SaveMessage, SaveMessageFails, requests, redis, database, env, ghosts, Fault
<1>2. /\ s.session \in Sessions /\ s.turn \in Turn
      /\ rows \in [Sessions -> Seq(Turn)]
  BY DEF Typed, TypeOK
<1>3. \A x \in Sessions : \A t : Has(rows'[x], t) => Has(rows[x], t) \/ (x = s.session /\ t = s.turn)
  <2> SUFFICES ASSUME NEW x \in Sessions, NEW t, Has(rows'[x], t)
               PROVE Has(rows[x], t) \/ (x = s.session /\ t = s.turn)
    OBVIOUS
  <2>1. \/ rows'[x] = rows[x]
        \/ x = s.session /\ rows'[x] = Append(rows[x], s.turn)
    BY <1>2 DEF OfSaver, SaveMessage, SaveMessageFails, database
  <2>2. Has(Append(rows[x], s.turn), t) => Has(rows[x], t) \/ t = s.turn
    BY <1>2, HasAppended
  <2> QED
    BY <2>1, <2>2
<1>4. \A x \in Sessions : rows'[x] # <<>> => rows[x] # <<>> \/ x = s.session
  BY <1>2 DEF OfSaver, SaveMessage, SaveMessageFails, database
<1>5. \A x \in Sessions : \A t \in Turn : Has(rows'[x], t) => Since(t.of, epoch[x])
  BY <1>3 DEF Fresh, SaidSince
<1>6. \A x \in Sessions : rows'[x] # <<>> => pc[x] # "new"
  BY <1>4 DEF Fresh
<1> QED
  BY <1>1, <1>5, <1>6 DEF Fresh, SaidSince, Since, Has, Active

LEMMA FreshOutside ==
    ASSUME Typed, Fresh, Outside \/ UNCHANGED vars, ResetsAlone
    PROVE Fresh'
<1>1. UNCHANGED <<pc, history, session, savers, rows, epoch>>
  BY DEF Outside, ResetSessions, ResetKeys, HistExpires, KeyExpires, vars, requests, database,
         ghosts
<1>2. CASE ResetSessions
  BY <1>1, <1>2
  DEF ResetsAlone, ResetSessions, Fresh, SaidSince, Since, Has, Active, redis, env, Fault
<1>3. CASE ResetKeys
  <2>1. /\ open = {} /\ Active = {} /\ open' = open /\ ~ resetting'
        /\ histKey' = <<>> /\ sessionKey' = NoSession
    BY <1>3 DEF ResetKeys, ResetsAlone, Fresh, database
  <2>2. \A q \in Requests : pc[q] \notin Holding
    BY <2>1 DEF Active, Holding
  <2> QED
    BY <1>1, <2>1, <2>2, NothingInEmpty DEF Fresh, SaidSince, Since, Has, Active
<1>4. CASE HistExpires
  BY <1>1, <1>4, NothingInEmpty
  DEF HistExpires, Expire, Fresh, SaidSince, Since, Has, Active, database
<1>5. CASE KeyExpires
  BY <1>1, <1>5 DEF KeyExpires, Expire, Fresh, SaidSince, Since, Has, Active, database
<1>6. CASE UNCHANGED vars
  BY <1>1, <1>6 DEF vars, Fresh, SaidSince, Since, Has, Active, redis, database, env
<1> QED
  BY <1>2, <1>3, <1>4, <1>5, <1>6 DEF Outside

\* "Reset cierra la sesion activa del gestor y limpia Redis" (handler.go:142): a
\* request that begins after a Reset sees nothing said before it, whatever keys
\* expire, other calls fail and messages are stored late, if every Reset was used
\* alone and neither its UPDATE nor its Del failed (the handler looks at neither
\* error).  The run MCAdminChat_reset shows that it must be used alone.
THEOREM ResetAloneForgets == Spec /\ [][ResetsAlone]_vars => []ResetForgets
<1>1. Init => Fresh
  BY NothingInEmpty DEF Init, Fresh, SaidSince, Active, Holding
<1>2. Typed /\ Typed' /\ Fresh /\ [Next]_vars /\ [ResetsAlone]_vars => Fresh'
  <2> SUFFICES ASSUME Typed, Typed', Fresh, [Next]_vars, [ResetsAlone]_vars PROVE Fresh'
    OBVIOUS
  <2>1. CASE UNCHANGED vars
    <3>1. UNCHANGED <<requests, savers, resetting, redis, open, rows, resets, epoch>>
      BY <2>1 DEF vars, database, env, ghosts
    <3> QED
      BY <3>1 DEF Fresh, SaidSince, Since, Has, Active, requests, redis
  <2>2. CASE ~ UNCHANGED vars
    <3>1. ResetsAlone
      BY <2>2
    <3>2. ASSUME NEW q \in Requests, OfRequest(q) PROVE Fresh'
      BY <3>1, <3>2, FreshBegin, FreshRequest DEF OfRequest, ResetsAlone
    <3> QED
      BY <3>1, <3>2, FreshSaver, FreshOutside, NextSplits
  <2> QED
    BY <2>1, <2>2
<1>3. Typed /\ Fresh => ResetForgets
  <2> SUFFICES ASSUME Typed, Fresh, NEW q \in Requests, NEW i \in 1 .. Len(history[q])
               PROVE epoch[history[q][i].of] >= epoch[q]
    BY DEF ResetForgets
  <2>1. history[q][i] \in Turn /\ Has(history[q], history[q][i]) /\ epoch[q] \in Nat
    BY DEF Typed, TypeOK, Has
  <2>2. Since(history[q][i].of, epoch[q])
    BY <2>1 DEF Fresh, SaidSince
  <2> QED
    BY <2>1, <2>2 DEF Since
<1> QED
  BY <1>1, <1>2, <1>3, AlwaysTyped, PTL DEF Spec

=============================================================================
