-------------------------- MODULE WaProcessor_proofs --------------------------
(***************************************************************************)
(* Proofs about WaProcessor, for any deliveries, messages, senders, quota, *)
(* history length, failures, expiries and restarts.                        *)
(***************************************************************************)
EXTENDS WaProcessor, FiniteSetTheorems, SequenceTheorems, TLAPS

\* A delivery at work has a message to work on.
AtWork == \A d \in Deliveries : pc[d] \in Working => rest[d] # <<>>

TypeInv == TypeOK /\ AtWork

LEMMA HeadTailType ==
    ASSUME NEW S, NEW s \in Seq(S), s # <<>>
    PROVE  Head(s) \in S /\ Tail(s) \in Seq(S)
BY HeadTailProperties

LEMMA MsgType ==
    ASSUME TypeOK, NEW d \in Deliveries, rest[d] # <<>>
    PROVE  Msg(d) \in Messages /\ Sender(d) \in Phones
BY HeadTailType, MessagesAssumption DEF TypeOK, Msg, Sender

LEMMA GotoType ==
    ASSUME TypeInv, NEW d \in Deliveries,
           NEW from \in Locations, NEW to \in Locations, Goto(d, from, to),
           to \in Working => rest[d] # <<>>
    PROVE  /\ pc' \in [Deliveries -> Locations]
           /\ rest' \in [Deliveries -> Seq(Messages)]
           /\ tally' \in [Deliveries -> Tally]
           /\ AtWork'
BY DEF TypeInv, TypeOK, AtWork, Goto

LEMMA NoTallyType == NoTally \in Tally
BY BoundsAssumption DEF NoTally, Tally, Days

LEMMA LeaveType ==
    ASSUME TypeInv, NEW d \in Deliveries, NEW from \in Locations,
           Leave(d, from), rest[d] # <<>>
    PROVE  /\ pc' \in [Deliveries -> Locations]
           /\ rest' \in [Deliveries -> Seq(Messages)]
           /\ tally' \in [Deliveries -> Tally]
           /\ AtWork'
<1>1. Tail(rest[d]) \in Seq(Messages)
    BY HeadTailType DEF TypeInv, TypeOK
<1> QED
    BY <1>1, NoTallyType DEF TypeInv, TypeOK, AtWork, Leave, Locations, Working

LEMMA SendType ==
    ASSUME TypeOK, NEW d \in Deliveries, rest[d] # <<>>, NEW text \in Texts,
           NEW ok \in BOOLEAN, SendText(d, text, ok)
    PROVE  /\ outbox' \subseteq [delivery : Deliveries, msg : Messages, text : Texts,
                                 ok : BOOLEAN, tally : Tally]
           /\ today' \in Days /\ faults' \in Nat /\ expiries' \in Nat /\ crashes' \in Nat
<1>1. [delivery |-> d, msg |-> Msg(d), text |-> text, ok |-> ok, tally |-> tally[d]]
        \in [delivery : Deliveries, msg : Messages, text : Texts,
             ok : BOOLEAN, tally : Tally]
    BY MsgType DEF TypeOK
<1> QED
    BY <1>1 DEF SendText, TypeOK, Fault, env

Saver == [delivery : Deliveries, msg : Messages, at : SaverPoints, snap : Seq(Turn)]

LEMMA AdvanceType ==
    ASSUME TypeOK, NEW s \in savers, NEW to \in SaverPoints, Advance(s, to)
    PROVE  savers' \subseteq Saver
<1>1. s \in Saver
    BY DEF TypeOK, Saver
<1>2. [s EXCEPT !.at = to] \in Saver
    BY <1>1 DEF Saver
<1> QED
    BY <1>2 DEF Advance, TypeOK, Saver

LEMMA ExchangeType ==
    ASSUME NEW m \in Messages
    PROVE  Exchange(m) \in Seq(Turn) /\ Len(Exchange(m)) = 2
<1>1. /\ [role |-> "user", msg |-> m] \in Turn
      /\ [role |-> "model", msg |-> m] \in Turn
    BY DEF Turn
<1> QED
    BY <1>1 DEF Exchange

LEMMA RecentType ==
    ASSUME NEW turns \in Seq(Turn)
    PROVE  Recent(turns) \in Seq(Turn)
<1>1. CASE Len(turns) > MaxHistory
    <2>1. Len(turns) \in Nat /\ MaxHistory \in Nat
        BY HistoryAssumption, LenProperties
    <2>2. Len(turns) - MaxHistory + 1 \in 1 .. Len(turns) + 1
        BY <1>1, <2>1
    <2>3. SubSeq(turns, Len(turns) - MaxHistory + 1, Len(turns)) \in Seq(Turn)
        BY <2>1, <2>2, SubSeqProperties
    <2> QED
        BY <1>1, <2>3 DEF Recent
<1>2. CASE ~ (Len(turns) > MaxHistory)
    BY <1>2 DEF Recent
<1> QED
    BY <1>1, <1>2

LEMMA LoadedType ==
    ASSUME TypeOK, NEW s \in savers, NEW turns \in Seq(Turn), Loaded(s, turns)
    PROVE  savers' \subseteq Saver
<1>1. s \in Saver
    BY DEF TypeOK, Saver
<1>2. [s EXCEPT !.at = "set", !.snap = turns] \in Saver
    BY <1>1 DEF Saver, SaverPoints
<1> QED
    BY <1>2 DEF Loaded, TypeOK, Saver

-----------------------------------------------------------------------------
(***************************************************************************)
(* The variables of WaProcessor keep their types, and no delivery works on *)
(* a message it does not have.                                             *)
(***************************************************************************)
LEMMA TypeInit == Init => TypeInv
<1>1. 0 \in Days
    BY BoundsAssumption DEF Days
<1>2. <<>> \in Seq(Messages) /\ <<>> \in Seq(Turn)
    OBVIOUS
<1> QED
    BY <1>1, <1>2, NoTallyType
    DEF Init, TypeInv, TypeOK, AtWork, Locations, Working

\* A step of a delivery's goroutine.
LEMMA TypeProcess ==
    ASSUME TypeInv, NEW d \in Deliveries, Receive(d) \/ Process(d)
    PROVE  TypeInv'
<1> USE DEF Locations, Working
<1>1. rest[d] # <<>> \/ pc[d] \in {"new", "loop", "done", "lost"}
    BY DEF TypeInv, TypeOK, AtWork
<1>2. CASE Receive(d)
    <2>1. Payload[d] \in Seq(Messages)
        BY MessagesAssumption
    <2> QED
        BY <1>2, <2>1 DEF Receive, TypeInv, TypeOK, AtWork, redis, env, history
<1>3. CASE Finish(d)
    BY <1>3, GotoType DEF Finish, TypeInv, TypeOK, redis, env, history
<1>4. CASE Skip(d)
    BY <1>4, LeaveType DEF Skip, TypeInv, TypeOK, redis, env, history
<1>5. CASE Claim(d)
    BY <1>5, GotoType, MsgType DEF Claim, TypeInv, TypeOK, redis, env, history
<1>6. CASE ClaimFails(d)
    BY <1>6, LeaveType, SMTT(30) DEF ClaimFails, TypeInv, TypeOK, Fault, redis, history
<1>7. CASE Check(d)
    <2>1. pc[d] = "check"
        BY <1>7 DEF Check, Leave, Goto
    <2>2. CASE Leave(d, "check") /\ UNCHANGED admitted
        BY <1>1, <1>7, <2>1, <2>2, LeaveType
        DEF Check, TypeInv, TypeOK, redis, env
    <2>3. CASE Goto(d, "check", "optin") /\ admitted' = admitted \union {<<d, Msg(d)>>}
        <3>1. /\ pc' \in [Deliveries -> Locations] /\ AtWork'
              /\ rest' \in [Deliveries -> Seq(Messages)]
              /\ tally' \in [Deliveries -> Tally]
            BY <1>1, <2>1, <2>3, GotoType
        <3>2. Msg(d) \in Messages
            BY <1>1, <2>1, MsgType DEF TypeInv
        <3> QED
            BY <1>7, <2>3, <3>1, <3>2 DEF Check, TypeInv, TypeOK, redis, env
    <2> QED
        BY <1>7, <2>2, <2>3 DEF Check
<1>8. CASE OptIn(d)
    <2>1. \/ Goto(d, "optin", "disclaim")
          \/ Goto(d, "optin", "count")
        BY <1>8 DEF OptIn
    <2>2. pc[d] = "optin"
        BY <1>8 DEF OptIn
    <2>3. optin' \subseteq Phones
        BY <1>1, <1>8, <2>2, MsgType DEF OptIn, TypeInv, TypeOK
    <2>4. today' \in Days /\ faults' \in Nat /\ expiries' \in Nat /\ crashes' \in Nat
        BY <1>8 DEF OptIn, Fault, TypeInv, TypeOK, env
    <2>5. UNCHANGED <<savers, dedup, limit, hist, archive, outbox, history>>
        BY <1>8 DEF OptIn
    <2> QED
        BY <1>1, <2>1, <2>2, <2>3, <2>4, <2>5, GotoType DEF TypeInv, TypeOK, history
<1>9. CASE Disclaim(d)
    <2>1. pc[d] = "disclaim"
        BY <1>9 DEF Disclaim, Goto
    <2> QED
        BY <1>1, <1>9, <2>1, GotoType, SendType
        DEF Disclaim, Texts, TypeInv, TypeOK, redis, history
<1>10. CASE Count(d)
    <2> DEFINE n == limit[today][Sender(d)] + 1
    <2>1. pc[d] = "count" /\ rest[d] # <<>>
        BY <1>1, <1>10 DEF Count
    <2>2. Sender(d) \in Phones /\ Msg(d) \in Messages
        BY <2>1, MsgType DEF TypeInv
    <2>3. n \in Nat
        BY <2>2 DEF TypeInv, TypeOK
    <2>4. /\ limit' = [limit EXCEPT ![today][Sender(d)] = n]
          /\ tally' = [tally EXCEPT ![d] = [day |-> today, n |-> n]]
          /\ \E to \in {"refuse", "download", "gemini"} : pc' = [pc EXCEPT ![d] = to]
          /\ UNCHANGED <<rest, savers, dedup, optin, hist, archive, outbox, env, history>>
        BY <1>10 DEF Count, AfterQuota
    <2> HIDE DEF n
    <2>5. limit' \in [Days -> [Phones -> Nat]]
        BY <2>2, <2>3, <2>4 DEF TypeInv, TypeOK
    <2>6. tally' \in [Deliveries -> Tally]
        BY <2>3, <2>4 DEF TypeInv, TypeOK, Tally
    <2>7. pc' \in [Deliveries -> Locations] /\ AtWork'
        BY <2>1, <2>4 DEF TypeInv, TypeOK, AtWork
    <2> QED
        BY <2>4, <2>5, <2>6, <2>7 DEF TypeInv, TypeOK, env, history
<1>11. CASE CountFails(d)
    <2>1. pc[d] = "count" /\ AfterQuota(Msg(d)) \in {"download", "gemini"}
        BY <1>11 DEF CountFails, Goto, AfterQuota
    <2>2. /\ pc' \in [Deliveries -> Locations] /\ AtWork'
          /\ rest' \in [Deliveries -> Seq(Messages)]
          /\ tally' \in [Deliveries -> Tally]
        BY <1>1, <1>11, <2>1, GotoType DEF CountFails
    <2> QED
        BY <1>11, <2>2 DEF CountFails, Fault, TypeInv, TypeOK, redis, history
<1>12. CASE Refuse(d)
    <2>1. pc[d] = "refuse"
        BY <1>12 DEF Refuse, Goto
    <2> QED
        BY <1>1, <1>12, <2>1, GotoType, SendType
        DEF Refuse, Texts, TypeInv, TypeOK, redis, history
<1>13. CASE Notify(d)
    <2>1. pc[d] = "notify"
        BY <1>13 DEF Notify, Leave
    <2> QED
        BY <1>1, <1>13, <2>1, LeaveType, SendType
        DEF Notify, Texts, TypeInv, TypeOK, redis, history
<1>14. CASE Download(d)
    <2>1. pc[d] = "download"
        BY <1>14 DEF Download, Goto
    <2>2. /\ pc' \in [Deliveries -> Locations] /\ AtWork'
          /\ rest' \in [Deliveries -> Seq(Messages)]
          /\ tally' \in [Deliveries -> Tally]
        BY <1>1, <1>14, <2>1, GotoType DEF Download
    <2>3. today' \in Days /\ faults' \in Nat /\ expiries' \in Nat /\ crashes' \in Nat
        BY <1>14 DEF Download, Fault, TypeInv, TypeOK, env
    <2> QED
        BY <1>14, <2>2, <2>3 DEF Download, TypeInv, TypeOK, redis, history
<1>15. CASE Gemini(d)
    <2>1. pc[d] = "gemini"
        BY <1>15 DEF Gemini, Goto
    <2>2. /\ pc' \in [Deliveries -> Locations] /\ AtWork'
          /\ rest' \in [Deliveries -> Seq(Messages)]
          /\ tally' \in [Deliveries -> Tally]
        BY <1>1, <1>15, <2>1, GotoType DEF Gemini
    <2>3. today' \in Days /\ faults' \in Nat /\ expiries' \in Nat /\ crashes' \in Nat
        BY <1>15 DEF Gemini, Fault, TypeInv, TypeOK, env
    <2> QED
        BY <1>15, <2>2, <2>3 DEF Gemini, TypeInv, TypeOK, redis, history
<1>16. CASE Apologise(d)
    <2>1. pc[d] = "apologise"
        BY <1>16 DEF Apologise, Leave
    <2> QED
        BY <1>1, <1>16, <2>1, LeaveType, SendType
        DEF Apologise, Texts, TypeInv, TypeOK, redis, history
<1>17. CASE Reply(d)
    <2> DEFINE new == [delivery |-> d, msg |-> Msg(d), at |-> "load", snap |-> <<>>]
    <2>1. pc[d] = "send" /\ rest[d] # <<>>
        BY <1>1, <1>17 DEF Reply, Leave
    <2>2. new \in Saver
        BY <2>1, MsgType DEF TypeInv, Saver, SaverPoints
    <2>3. PICK ok \in BOOLEAN, text \in {"noted reply", "reply"} :
            SendText(d, text, ok) /\ savers' = IF ok THEN savers \union {new} ELSE savers
        BY <1>17 DEF Reply
    <2>4. savers' \subseteq Saver
        BY <2>2, <2>3 DEF TypeInv, TypeOK, Saver
    <2> QED
        BY <1>17, <2>1, <2>3, <2>4, LeaveType, SendType
        DEF Reply, Texts, Saver, TypeInv, TypeOK, redis, history
<1> QED
    BY <1>2, <1>3, <1>4, <1>5, <1>6, <1>7, <1>8, <1>9, <1>10, <1>11, <1>12,
       <1>13, <1>14, <1>15, <1>16, <1>17
    DEF Process, Bounded

\* A step of a saver.
LEMMA TypeSave ==
    ASSUME TypeInv, NEW s \in savers, Save(s)
    PROVE  TypeInv'
<1> DEFINE p == SaverPhone(s)
<1>1. s \in Saver /\ p \in Phones
    BY MessagesAssumption DEF TypeInv, TypeOK, Saver, SaverPhone
<1>2. hist[p] \in Seq(Turn)
    BY <1>1 DEF TypeInv, TypeOK
<1> USE DEF SaverPoints
<1>3. CASE Load(s)
    <2>1. savers' \subseteq Saver /\ disturbed' \subseteq Phones
        BY <1>1, <1>2, <1>3, RecentType, LoadedType DEF Load, TypeInv, TypeOK
    <2> QED
        BY <1>3, <2>1 DEF Load, Saver, TypeInv, TypeOK, AtWork, handlers, redis, env
<1>4. CASE LoadFails(s)
    <2>1. savers' \subseteq Saver
        <3>1. <<>> \in Seq(Turn)
            OBVIOUS
        <3> QED
            BY <1>4, <3>1, LoadedType DEF LoadFails, TypeInv
    <2>2. disturbed' \subseteq Phones
        BY <1>1, <1>4 DEF LoadFails, TypeInv, TypeOK
    <2> QED
        BY <1>4, <2>1, <2>2 DEF LoadFails, Fault, Saver, TypeInv, TypeOK, AtWork, handlers, redis
<1>5. CASE Store(s)
    <2>1. savers' \subseteq Saver
        BY <1>1, <1>5, AdvanceType DEF Store, TypeInv
    <2>2. s.snap \o Exchange(s.msg) \in Seq(Turn)
        BY <1>1, ExchangeType, ConcatProperties DEF Saver
    <2>3. hist' \in [Phones -> Seq(Turn)]
        BY <1>1, <1>5, <2>2 DEF Store, TypeInv, TypeOK
    <2> QED
        BY <1>5, <2>1, <2>3 DEF Store, Saver, TypeInv, TypeOK, AtWork, handlers, env, history
<1>6. CASE StoreFails(s)
    <2>1. savers' \subseteq Saver /\ disturbed' \subseteq Phones
        BY <1>1, <1>6, AdvanceType DEF StoreFails, TypeInv, TypeOK
    <2> QED
        BY <1>6, <2>1 DEF StoreFails, Fault, Saver, TypeInv, TypeOK, AtWork, handlers, redis
<1>7. CASE Archive(s)
    <2>1. savers' \subseteq Saver
        BY <1>1, <1>7, AdvanceType DEF Archive, Saver, TypeInv, TypeOK
    <2>2. archive' \subseteq [delivery : Deliveries, msg : Messages, role : {"user", "model"}]
        BY <1>1, <1>7 DEF Archive, Saver, TypeInv, TypeOK
    <2> QED
        BY <1>7, <2>1, <2>2
        DEF Archive, Fault, Saver, TypeInv, TypeOK, AtWork, handlers, redis, env, history
<1> QED
    BY <1>3, <1>4, <1>5, <1>6, <1>7 DEF Save

\* A step of the environment.
LEMMA TypeEnvironment == TypeInv /\ Environment => TypeInv'
<1> SUFFICES ASSUME TypeInv, Environment PROVE TypeInv'
    OBVIOUS
<1>1. CASE Midnight
    BY <1>1, BoundsAssumption
    DEF Midnight, Days, TypeInv, TypeOK, AtWork, handlers, redis, history
<1>2. CASE Crash
    <2>1. \A s \in savers : SaverPhone(s) \in Phones
        BY MessagesAssumption DEF TypeInv, TypeOK, SaverPhone
    <2>2. disturbed' \subseteq Phones
        BY <1>2, <2>1 DEF Crash, TypeInv, TypeOK
    <2>3. /\ pc' \in [Deliveries -> Locations] /\ AtWork'
          /\ rest' \in [Deliveries -> Seq(Messages)]
          /\ tally' \in [Deliveries -> Tally]
        BY <1>2, NoTallyType DEF Crash, TypeInv, TypeOK, AtWork, Locations, Working
    <2> QED
        BY <1>2, <2>2, <2>3 DEF Crash, TypeInv, TypeOK, redis
<1>3. ASSUME NEW m \in Messages, DedupExpires(m) PROVE TypeInv'
    BY <1>3 DEF DedupExpires, Expire, TypeInv, TypeOK, AtWork, handlers
<1>4. ASSUME NEW p \in Phones, OptInExpires(p) PROVE TypeInv'
    BY <1>4 DEF OptInExpires, Expire, TypeInv, TypeOK, AtWork, handlers
<1>5. ASSUME NEW p \in Phones, HistExpires(p) PROVE TypeInv'
    <2>1. hist' \in [Phones -> Seq(Turn)]
        BY <1>5 DEF HistExpires, TypeInv, TypeOK
    <2> QED
        BY <1>5, <2>1 DEF HistExpires, Expire, TypeInv, TypeOK, AtWork, handlers
<1> QED
    BY <1>1, <1>2, <1>3, <1>4, <1>5 DEF Environment

LEMMA TypeStep == TypeInv /\ [Next]_vars => TypeInv'
<1> SUFFICES ASSUME TypeInv, [Next]_vars PROVE TypeInv'
    OBVIOUS
<1>1. CASE UNCHANGED vars
    BY <1>1 DEF vars, TypeInv, TypeOK, AtWork, handlers, redis, env, history
<1> QED
    BY <1>1, TypeProcess, TypeSave, TypeEnvironment DEF Next, Terminated

THEOREM TypeCorrect == Spec => []TypeOK
<1>1. TypeInv => TypeOK
    BY DEF TypeInv
<1> QED
    BY <1>1, TypeInit, TypeStep, PTL DEF Spec

LEMMA TypeInvHolds == Spec => []TypeInv
BY TypeInit, TypeStep, PTL DEF Spec

-----------------------------------------------------------------------------
(***************************************************************************)
(* What a step can do to the deliveries' work.  All that a goroutine sends *)
(* or starts is for the message it is working on, and it starts to work on *)
(* one only by claiming it.                                                *)
(***************************************************************************)
KeepsToItself(d) ==
    /\ \A e \in Deliveries \ {d} : pc'[e] = pc[e] /\ rest'[e] = rest[e] /\ tally'[e] = tally[e]
    /\ \A o \in outbox' \ outbox :
        pc[d] \in Working /\ o.delivery = d /\ o.msg = Msg(d) /\ o.tally = tally[d]
    /\ \A s \in savers' \ savers :
        pc[d] \in Working /\ s.delivery = d /\ s.msg = Msg(d)
    /\ outbox \subseteq outbox'

LEMMA SendKeeps ==
    ASSUME NEW d \in Deliveries, NEW text, NEW ok, SendText(d, text, ok)
    PROVE  /\ outbox \subseteq outbox'
           /\ \A o \in outbox' \ outbox : o.delivery = d /\ o.msg = Msg(d) /\ o.tally = tally[d]
BY DEF SendText

LEMMA StartKeeps ==
    ASSUME NEW d \in Deliveries, NEW ok \in BOOLEAN,
           savers' = IF ok THEN savers \union {[delivery |-> d, msg |-> Msg(d),
                                               at |-> "load", snap |-> <<>>]}
                     ELSE savers
    PROVE  \A s \in savers' \ savers : s.delivery = d /\ s.msg = Msg(d)
<1>1. CASE ok
    BY <1>1
<1>2. CASE ~ ok
    BY <1>2
<1> QED
    BY <1>1, <1>2

LEMMA ProcessKeeps ==
    ASSUME TypeInv, NEW d \in Deliveries, Receive(d) \/ Process(d)
    PROVE  KeepsToItself(d)
<1> USE DEF KeepsToItself, TypeInv, TypeOK, Working, Locations
<1>1. CASE Receive(d)
    BY <1>1 DEF Receive
<1>2. CASE Finish(d) \/ Claim(d) \/ CountFails(d) \/ Download(d) \/ Gemini(d)
    BY <1>2 DEF Finish, Claim, CountFails, Download, Gemini, Goto
<1>3. CASE Skip(d) \/ ClaimFails(d)
    BY <1>3 DEF Skip, ClaimFails, Leave
<1>4. CASE Check(d)
    BY <1>4 DEF Check, Leave, Goto
<1>5. CASE OptIn(d)
    BY <1>5 DEF OptIn, Goto
<1>6. CASE Count(d)
    BY <1>6 DEF Count
<1>7. CASE Disclaim(d)
    BY <1>7 DEF Disclaim, Goto, SendText
<1>8. CASE Refuse(d)
    BY <1>8 DEF Refuse, Goto, SendText
<1>9. CASE Notify(d)
    BY <1>9 DEF Notify, Leave, SendText
<1>10. CASE Apologise(d)
    BY <1>10 DEF Apologise, Leave, SendText
<1>11. CASE Reply(d)
    <2>1. PICK ok \in BOOLEAN :
            /\ SendText(d, IF NoteDue(d) THEN "noted reply" ELSE "reply", ok)
            /\ savers' = IF ok THEN savers \union {[delivery |-> d, msg |-> Msg(d),
                                                   at |-> "load", snap |-> <<>>]}
                         ELSE savers
        BY <1>11 DEF Reply
    <2>2. pc[d] = "send" /\ \A e \in Deliveries \ {d} :
            pc'[e] = pc[e] /\ rest'[e] = rest[e] /\ tally'[e] = tally[e]
        BY <1>11 DEF Reply, Leave
    <2>3. /\ outbox \subseteq outbox'
          /\ \A o \in outbox' \ outbox : o.delivery = d /\ o.msg = Msg(d) /\ o.tally = tally[d]
        BY <2>1, SendKeeps
    <2>4. \A s \in savers' \ savers : s.delivery = d /\ s.msg = Msg(d)
        BY <2>1, StartKeeps
    <2> QED
        BY <2>2, <2>3, <2>4
<1> QED
    BY <1>1, <1>2, <1>3, <1>4, <1>5, <1>6, <1>7, <1>8, <1>9, <1>10, <1>11 DEF Process, Bounded

\* A goroutine that works on a message was working on it, or has claimed it.
LEMMA ProcessGoesOn ==
    ASSUME TypeInv, NEW d \in Deliveries, Receive(d) \/ Process(d),
           pc'[d] \in Working
    PROVE  /\ rest'[d] = rest[d]
           /\ pc[d] \in Working \/ Claim(d)
<1> USE DEF TypeInv, TypeOK, Working, Locations
<1>1. CASE Receive(d)
    BY <1>1 DEF Receive
<1>2. CASE Finish(d) \/ Claim(d) \/ CountFails(d) \/ Download(d) \/ Gemini(d)
    BY <1>2 DEF Finish, Claim, CountFails, Download, Gemini, Goto
<1>3. CASE Skip(d) \/ ClaimFails(d) \/ Notify(d) \/ Apologise(d) \/ Reply(d)
    BY <1>3 DEF Skip, ClaimFails, Notify, Apologise, Reply, Leave
<1>4. CASE Check(d) \/ OptIn(d)
    BY <1>4 DEF Check, OptIn, Leave, Goto
<1>5. CASE Count(d)
    BY <1>5 DEF Count
<1>6. CASE Disclaim(d) \/ Refuse(d)
    BY <1>6 DEF Disclaim, Refuse, Goto
<1> QED
    BY <1>1, <1>2, <1>3, <1>4, <1>5, <1>6 DEF Process, Bounded

LEMMA ProcessKeys ==
    ASSUME NEW d \in Deliveries, Receive(d) \/ Process(d)
    PROVE  lapsed' = lapsed /\ dedup \subseteq dedup'
<1> USE DEF redis, history
<1>1. CASE Receive(d) \/ Finish(d) \/ Skip(d) \/ ClaimFails(d) \/ CountFails(d)
    BY <1>1 DEF Receive, Finish, Skip, ClaimFails, CountFails
<1>2. CASE Claim(d)
    BY <1>2 DEF Claim
<1>3. CASE Check(d)
    BY <1>3 DEF Check
<1>4. CASE OptIn(d)
    BY <1>4 DEF OptIn
<1>5. CASE Count(d)
    BY <1>5 DEF Count
<1>6. CASE Disclaim(d) \/ Refuse(d) \/ Notify(d)
    BY <1>6 DEF Disclaim, Refuse, Notify
<1>7. CASE Download(d) \/ Gemini(d) \/ Apologise(d) \/ Reply(d)
    BY <1>7 DEF Download, Gemini, Apologise, Reply
<1> QED
    BY <1>1, <1>2, <1>3, <1>4, <1>5, <1>6, <1>7 DEF Process, Bounded

\* A step of a saver touches neither the deliveries nor their keys.
LEMMA SaveKeeps ==
    ASSUME TypeInv, NEW s \in savers, Save(s)
    PROVE  /\ UNCHANGED <<handlers, dedup, optin, limit, outbox, lapsed, optinLapsed, admitted>>
           /\ \A t \in savers' \ savers : t.delivery = s.delivery /\ t.msg = s.msg
<1> USE DEF redis, history
<1>0. s \in Saver
    BY DEF TypeInv, TypeOK, Saver
<1>1. CASE Load(s) \/ LoadFails(s)
    BY <1>0, <1>1 DEF Load, LoadFails, Loaded, Saver
<1>2. CASE Store(s) \/ StoreFails(s) \/ Archive(s)
    BY <1>0, <1>2 DEF Store, StoreFails, Archive, Advance, Saver
<1> QED
    BY <1>1, <1>2 DEF Save

\* Nor does the environment, except by killing all goroutines.
LEMMA EnvironmentKeeps ==
    ASSUME Environment
    PROVE  /\ UNCHANGED <<outbox, admitted>>
           /\ \/ Crash
              \/ UNCHANGED <<handlers, savers>>
<1> USE DEF redis, history
<1>1. CASE Midnight \/ Crash
    BY <1>1 DEF Midnight, Crash
<1>2. ASSUME NEW m \in Messages, DedupExpires(m)
      PROVE  UNCHANGED <<handlers, savers, outbox, admitted>>
    BY <1>2 DEF DedupExpires
<1>3. ASSUME NEW p \in Phones, OptInExpires(p) \/ HistExpires(p)
      PROVE  UNCHANGED <<handlers, savers, outbox, admitted>>
    BY <1>3 DEF OptInExpires, HistExpires
<1> QED
    BY <1>1, <1>2, <1>3 DEF Environment

-----------------------------------------------------------------------------
(***************************************************************************)
(* One delivery per message.  The inductive invariant adds that whatever   *)
(* was done for a message, its key is set or has expired: SETNX then lets  *)
(* no other delivery in.                                                   *)
(***************************************************************************)
ClaimedByKey ==
    \A d \in Deliveries, m \in Messages : ActedOn(d, m) => m \in dedup \union lapsed

\* Only claiming a message makes a delivery act on one it did not act on.
LEMMA ActedGrows ==
    ASSUME TypeInv, [Next]_vars, NEW d \in Deliveries, NEW m \in Messages, ActedOn(d, m)'
    PROVE  ActedOn(d, m) \/ (Claim(d) /\ m = Msg(d))
<1>1. ASSUME NEW e \in Deliveries, Receive(e) \/ Process(e)
      PROVE  ActedOn(d, m) \/ (Claim(d) /\ m = Msg(d))
    <2>1. KeepsToItself(e)
        BY <1>1, ProcessKeeps
    <2>2. CASE WorkingOn(d, m)'
        BY <1>1, <2>1, <2>2, ProcessGoesOn DEF KeepsToItself, ActedOn, WorkingOn, Msg
    <2>3. CASE Attempted(d, m, Texts)'
        BY <2>1, <2>3 DEF KeepsToItself, ActedOn, Attempted, WorkingOn
    <2>4. CASE Saving(d, m)'
        BY <2>1, <2>4 DEF KeepsToItself, ActedOn, Saving, WorkingOn
    <2> QED
        BY <2>2, <2>3, <2>4 DEF ActedOn
<1>2. ASSUME NEW s \in savers, Save(s) PROVE ActedOn(d, m)
    BY <1>2, SaveKeeps DEF ActedOn, WorkingOn, Attempted, Saving, Msg, handlers
<1>3. CASE Environment
    <2>1. CASE Crash
        BY <1>3, <2>1, EnvironmentKeeps
        DEF Crash, TypeInv, TypeOK, ActedOn, WorkingOn, Attempted, Saving, Msg, Working, Locations
    <2>2. CASE UNCHANGED <<handlers, savers>>
        BY <1>3, <2>2, EnvironmentKeeps DEF ActedOn, WorkingOn, Attempted, Saving, Msg, handlers
    <2> QED
        BY <1>3, <2>1, <2>2, EnvironmentKeeps
<1>4. CASE UNCHANGED vars
    BY <1>4 DEF vars, handlers, ActedOn, WorkingOn, Attempted, Saving, Msg
<1> QED
    BY <1>1, <1>2, <1>3, <1>4 DEF Next, Terminated

\* A key that goes away has expired.
LEMMA KeysLapse ==
    ASSUME TypeInv, [Next]_vars
    PROVE  dedup \union lapsed \subseteq dedup' \union lapsed' /\ lapsed \subseteq lapsed'
<1>1. ASSUME NEW d \in Deliveries, Receive(d) \/ Process(d)
      PROVE  dedup \subseteq dedup' /\ lapsed \subseteq lapsed'
    BY <1>1, ProcessKeys
<1>2. ASSUME NEW s \in savers, Save(s) PROVE UNCHANGED <<dedup, lapsed>>
    BY <1>2, SaveKeeps
<1>3. CASE Midnight \/ Crash
    BY <1>3 DEF Midnight, Crash, redis, history
<1>4. ASSUME NEW m \in Messages, DedupExpires(m)
      PROVE  dedup' = dedup \ {m} /\ lapsed' = lapsed \union {m}
    BY <1>4 DEF DedupExpires
<1>5. ASSUME NEW p \in Phones, OptInExpires(p) \/ HistExpires(p)
      PROVE  UNCHANGED <<dedup, lapsed>>
    BY <1>5 DEF OptInExpires, HistExpires
<1>6. CASE UNCHANGED vars
    BY <1>6 DEF vars, redis, history
<1> QED
    BY <1>1, <1>2, <1>3, <1>4, <1>5, <1>6 DEF Next, Environment, Terminated

LEMMA ClaimsHold == Spec => [](OneDeliveryPerMessage /\ ClaimedByKey)
<1> DEFINE Inv == OneDeliveryPerMessage /\ ClaimedByKey
<1>1. Init => Inv
    BY DEF Init, OneDeliveryPerMessage, ClaimedByKey, ActedOn, WorkingOn, Attempted, Saving, Working
<1>2. TypeInv /\ Inv /\ [Next]_vars => Inv'
    <2> SUFFICES ASSUME TypeInv, Inv, [Next]_vars PROVE Inv'
        OBVIOUS
    <2>1. ASSUME NEW d \in Deliveries, Claim(d)
          PROVE  /\ Msg(d) \notin dedup /\ Msg(d) \in dedup' /\ lapsed' = lapsed
                 /\ \A m \in Messages \ lapsed : \A e \in Deliveries \ {d} :
                        ActedOn(e, m)' => ActedOn(e, m) /\ m # Msg(d)
        <3>1. Msg(d) \notin dedup /\ Msg(d) \in dedup' /\ lapsed' = lapsed
            BY <2>1 DEF Claim, history
        <3>2. ASSUME NEW m \in Messages \ lapsed, NEW e \in Deliveries \ {d}, ActedOn(e, m)'
              PROVE  ActedOn(e, m) /\ m # Msg(d)
            <4>1. ~ Claim(e) \/ ~ Claim(d)
                BY DEF Claim, Goto, TypeInv, TypeOK
            <4>2. ActedOn(e, m)
                BY <2>1, <3>2, <4>1, ActedGrows
            <4> QED
                BY <3>1, <4>2 DEF ClaimedByKey
        <3> QED
            BY <3>1, <3>2
    <2>2. ASSUME NEW m \in Messages \ lapsed', NEW d \in Deliveries, NEW e \in Deliveries,
                 ActedOn(d, m)', ActedOn(e, m)'
          PROVE  d = e
        <3>1. m \notin lapsed
            BY <2>2, KeysLapse
        <3>2. CASE ActedOn(d, m) /\ ActedOn(e, m)
            BY <3>1, <3>2 DEF OneDeliveryPerMessage
        <3>3. CASE Claim(d) /\ m = Msg(d)
            BY <2>1, <2>2, <3>1, <3>3
        <3>4. CASE Claim(e) /\ m = Msg(e)
            BY <2>1, <2>2, <3>1, <3>4
        <3> QED
            BY <2>2, <3>2, <3>3, <3>4, ActedGrows
    <2>3. ASSUME NEW d \in Deliveries, NEW m \in Messages, ActedOn(d, m)'
          PROVE  m \in dedup' \union lapsed'
        BY <2>1, <2>3, ActedGrows, KeysLapse DEF ClaimedByKey
    <2> QED
        BY <2>2, <2>3 DEF OneDeliveryPerMessage, ClaimedByKey
<1> HIDE DEF Inv
<1>3. Spec => []Inv
    BY <1>1, <1>2, TypeInvHolds, PTL DEF Spec
<1> QED
    BY <1>3 DEF Inv

\* The delivery that a message was claimed for is the only one, as long as
\* its key has not expired: the property of the runs, for any instance.
THEOREM OneDelivery == Spec => []OneDeliveryPerMessage
<1>1. OneDeliveryPerMessage /\ ClaimedByKey => OneDeliveryPerMessage
    OBVIOUS
<1> QED
    BY <1>1, ClaimsHold, PTL

-----------------------------------------------------------------------------
(***************************************************************************)
(* The archive.  A delivery's goroutine leaves it alone, and starts a      *)
(* saver only for a reply that Meta took.                                  *)
(***************************************************************************)
AnsweredBy(d, m) ==
    \E o \in outbox : o.delivery = d /\ o.msg = m /\ o.text \in Replies /\ o.ok

\* o is a reply of delivery d to the message it works on.
Answer(d, o) ==
    o.delivery = d /\ o.msg = Msg(d) /\ o.text \in Replies /\ o.tally = tally[d]

LEMMA SentFields ==
    ASSUME NEW d, NEW m, NEW text, NEW ok, NEW t
    PROVE  LET sent == [delivery |-> d, msg |-> m, text |-> text, ok |-> ok, tally |-> t]
           IN  /\ sent.delivery = d /\ sent.msg = m /\ sent.text = text /\ sent.tally = t
               /\ sent.ok = ok
OBVIOUS

LEMMA FaultGrows == TypeInv /\ Fault => faults' # 0 /\ faults <= faults'
BY DEF TypeInv, TypeOK, Fault

LEMMA ProcessStores ==
    ASSUME TypeInv, NEW d \in Deliveries, Receive(d) \/ Process(d)
    PROVE  UNCHANGED <<archive, hist, disturbed, optinLapsed>> /\ (faults' = 0 => faults = 0)
<1> USE FaultGrows DEF redis, history, env
<1>1. CASE Receive(d) \/ Finish(d) \/ Skip(d) \/ ClaimFails(d) \/ CountFails(d)
    BY <1>1 DEF Receive, Finish, Skip, ClaimFails, CountFails
<1>2. CASE Claim(d) \/ Check(d) \/ OptIn(d) \/ Count(d)
    BY <1>2 DEF Claim, Check, OptIn, Count
<1>3. CASE Disclaim(d) \/ Refuse(d) \/ Notify(d) \/ Apologise(d)
    BY <1>3 DEF Disclaim, Refuse, Notify, Apologise, SendText
<1>4. CASE Download(d) \/ Gemini(d)
    BY <1>4 DEF Download, Gemini
<1>5. CASE Reply(d)
    BY <1>5 DEF Reply, SendText
<1> QED
    BY <1>1, <1>2, <1>3, <1>4, <1>5 DEF Process, Bounded

\* Every other step leaves the savers and the replies alone.
LEMMA OnlyReplies ==
    ASSUME TypeInv, NEW d \in Deliveries, Receive(d) \/ Process(d), ~ Reply(d)
    PROVE  /\ savers' = savers
           /\ \A o \in outbox' \ outbox : o.text \notin Replies
<1> USE DEF Replies
<1>1. CASE Receive(d) \/ Finish(d) \/ Skip(d) \/ ClaimFails(d) \/ CountFails(d)
    BY <1>1 DEF Receive, Finish, Skip, ClaimFails, CountFails
<1>2. CASE Claim(d) \/ Check(d) \/ OptIn(d) \/ Count(d)
    BY <1>2 DEF Claim, Check, OptIn, Count
<1>3. CASE Disclaim(d) \/ Refuse(d) \/ Notify(d) \/ Apologise(d)
    <2>1. savers' = savers
        BY <1>3 DEF Disclaim, Refuse, Notify, Apologise
    <2>2. \E ok \in BOOLEAN, text \in {"disclaimer", "limit", "advisor", "apology"} :
            SendText(d, text, ok)
        BY <1>3 DEF Disclaim, Refuse, Notify, Apologise
    <2> QED
        <3>1. PICK ok \in BOOLEAN, text \in {"disclaimer", "limit", "advisor", "apology"} :
                SendText(d, text, ok)
            BY <2>2
        <3> DEFINE sent == [delivery |-> d, msg |-> Msg(d), text |-> text, ok |-> ok,
                            tally |-> tally[d]]
        <3>2. sent.text = text /\ outbox' = outbox \union {sent}
            BY <3>1, SentFields DEF SendText
        <3> HIDE DEF sent
        <3> QED
            BY <2>1, <3>2
<1>4. CASE Download(d) \/ Gemini(d)
    BY <1>4 DEF Download, Gemini
<1> QED
    BY <1>1, <1>2, <1>3, <1>4 DEF Process, Bounded

\* What a reply does: it is sent, and saved if it was taken.
LEMMA ReplySent ==
    ASSUME TypeInv, NEW d \in Deliveries, Reply(d)
    PROVE  \E sent : /\ outbox' = outbox \union {sent}
                     /\ Answer(d, sent)
                     /\ \A s \in savers' \ savers : /\ sent.ok /\ s.at = "load"
                                                     /\ s.delivery = d /\ s.msg = Msg(d)
                     /\ sent.ok => [delivery |-> d, msg |-> Msg(d), at |-> "load",
                                    snap |-> <<>>] \in savers'
                     /\ savers \subseteq savers'
<1> DEFINE started == [delivery |-> d, msg |-> Msg(d), at |-> "load", snap |-> <<>>]
<1>1. PICK ok \in BOOLEAN, text \in {"noted reply", "reply"} :
        /\ SendText(d, text, ok)
        /\ savers' = IF ok THEN savers \union {started} ELSE savers
    BY DEF Reply
<1> DEFINE sent == [delivery |-> d, msg |-> Msg(d), text |-> text, ok |-> ok, tally |-> tally[d]]
<1>2. sent.delivery = d /\ sent.msg = Msg(d) /\ sent.text = text /\ sent.tally = tally[d]
    BY SentFields
<1>3. sent.ok = ok
    BY SentFields
<1>4. outbox' = outbox \union {sent}
    BY <1>1 DEF SendText
<1>5. started.at = "load" /\ started.delivery = d /\ started.msg = Msg(d)
    OBVIOUS
<1>6. Answer(d, sent)
    BY <1>2 DEF Answer, Replies
<1> HIDE DEF sent, started
<1>7. savers \subseteq savers' /\ (ok => started \in savers')
    BY <1>1
<1>8. \A s \in savers' \ savers : ok /\ s = started
    BY <1>1
<1>9. \A s \in savers' \ savers : sent.ok /\ s.at = "load" /\ s.delivery = d /\ s.msg = Msg(d)
    BY <1>3, <1>5, <1>8
<1> QED
    BY <1>3, <1>4, <1>6, <1>7, <1>9, Zenon DEF started

LEMMA NewSaver ==
    ASSUME TypeInv, NEW d \in Deliveries, Receive(d) \/ Process(d),
           NEW s \in savers' \ savers
    PROVE  s.at = "load" /\ AnsweredBy(s.delivery, s.msg)'
<1>1. Reply(d)
    BY OnlyReplies
<1>2. PICK sent : /\ outbox' = outbox \union {sent}
                  /\ Answer(d, sent)
                  /\ \A t \in savers' \ savers : /\ sent.ok /\ t.at = "load"
                                                  /\ t.delivery = d /\ t.msg = Msg(d)
    BY <1>1, ReplySent, Zenon
<1>3. sent \in outbox' /\ sent.ok /\ s.at = "load" /\ s.delivery = d /\ s.msg = Msg(d)
    BY <1>2, Zenon
<1> QED
    BY <1>2, <1>3, Zenon DEF AnsweredBy, Answer

\* Nothing answered is forgotten.
LEMMA AnswersStay ==
    ASSUME TypeInv, [Next]_vars, NEW d, NEW m, AnsweredBy(d, m)
    PROVE  AnsweredBy(d, m)'
<1>1. outbox \subseteq outbox'
    <2>1. ASSUME NEW e \in Deliveries, Receive(e) \/ Process(e) PROVE outbox \subseteq outbox'
        BY <2>1, ProcessKeeps DEF KeepsToItself
    <2> QED
        BY <2>1, SaveKeeps, EnvironmentKeeps DEF Next, Terminated, vars
<1> QED
    BY <1>1 DEF AnsweredBy

\* Every saver has a reply that was taken to save; and without a failure, one
\* that goes on to the answer has archived the question.
SaversAnswered == \A s \in savers : AnsweredBy(s.delivery, s.msg)

UserRow(s) == [delivery |-> s.delivery, msg |-> s.msg, role |-> "user"]

QuestionFirst ==
    faults = 0 => \A s \in savers : s.at = "model" => UserRow(s) \in archive

ArchiveInv == SaversAnswered /\ QuestionFirst /\ ArchiveBacked

LEMMA ArchiveProcess ==
    ASSUME TypeInv, ArchiveInv, NEW d \in Deliveries, Receive(d) \/ Process(d)
    PROVE  ArchiveInv'
<1> [Next]_vars
    BY DEF Next
<1>1. UNCHANGED archive /\ (faults' = 0 => faults = 0)
    BY ProcessStores
<1>2. SaversAnswered'
    BY NewSaver, AnswersStay DEF ArchiveInv, SaversAnswered
<1>3. QuestionFirst'
    BY <1>1, NewSaver DEF ArchiveInv, QuestionFirst, UserRow
<1>4. ArchiveBacked'
    <2>1. \A r \in archive : AnsweredBy(r.delivery, r.msg)
        BY DEF ArchiveInv, ArchiveBacked, AnsweredBy
    <2>2. \A r \in archive' : AnsweredBy(r.delivery, r.msg)'
        BY <1>1, <2>1, AnswersStay
    <2> QED
        BY <1>1, <2>2 DEF ArchiveInv, ArchiveBacked, AnsweredBy
<1> QED
    BY <1>2, <1>3, <1>4 DEF ArchiveInv

LEMMA ArchiveSave ==
    ASSUME TypeInv, ArchiveInv, NEW s \in savers, Save(s)
    PROVE  ArchiveInv'
<1>0. s \in Saver /\ outbox' = outbox
    BY SaveKeeps DEF TypeInv, TypeOK, Saver
<1>1. SaversAnswered'
    BY <1>0, SaveKeeps DEF ArchiveInv, SaversAnswered, AnsweredBy
<1>2. CASE Load(s) \/ LoadFails(s) \/ Store(s) \/ StoreFails(s)
    <2>1. UNCHANGED archive /\ (faults' = 0 => faults = 0)
        BY <1>2, FaultGrows DEF Load, LoadFails, Store, StoreFails, redis, env
    <2>2. \A t \in savers' : t.at = "model" => t \in savers
        BY <1>0, <1>2 DEF Load, LoadFails, Store, StoreFails, Loaded, Advance, Saver
    <2> QED
        BY <1>0, <1>1, <2>1, <2>2 DEF ArchiveInv, QuestionFirst, ArchiveBacked, UserRow
<1>3. CASE Archive(s)
    <2> DEFINE row == [delivery |-> s.delivery, msg |-> s.msg, role |-> s.at]
    <2>1. s.at \in {"user", "model"} /\ AnsweredBy(s.delivery, s.msg)
        BY <1>3 DEF Archive, ArchiveInv, SaversAnswered
    <2>2. \/ archive' = archive \union {row} /\ faults' = faults
          \/ archive' = archive /\ faults' # 0
        BY <1>3, FaultGrows DEF Archive, env
    <2>3. row.delivery = s.delivery /\ row.msg = s.msg /\ row.role = s.at
        OBVIOUS
    <2>4. [row EXCEPT !.role = "user"] = UserRow(s)
        BY DEF UserRow
    <2>5. s.at = "model" /\ faults' = 0 => UserRow(s) \in archive
        BY <2>2 DEF ArchiveInv, QuestionFirst
    <2>6. s.at = "user" => row = UserRow(s)
        BY DEF UserRow
    <2> HIDE DEF row
    <2>7. ArchiveBacked'
        <3>1. ASSUME NEW r \in archive', r # row
              PROVE  /\ r \in archive
                     /\ r.role = "model" /\ faults' = 0 => [r EXCEPT !.role = "user"] \in archive'
            BY <2>2, <3>1 DEF ArchiveInv, ArchiveBacked
        <3>2. ASSUME faults' = 0, row.role = "model"
              PROVE  [row EXCEPT !.role = "user"] \in archive'
            BY <2>2, <2>3, <2>4, <2>5, <3>2
        <3>3. \A r \in archive' : AnsweredBy(r.delivery, r.msg)
            BY <2>1, <2>2, <2>3, <3>1 DEF ArchiveInv, ArchiveBacked, AnsweredBy
        <3> QED
            BY <1>0, <3>1, <3>2, <3>3 DEF ArchiveBacked, AnsweredBy
    <2>8. QuestionFirst'
        <3>1. ASSUME NEW t \in savers', t.at = "model", faults' = 0
              PROVE  UserRow(t) \in archive'
            <4>1. CASE t \in savers
                BY <2>2, <3>1, <4>1 DEF ArchiveInv, QuestionFirst
            <4>2. CASE t \notin savers
                <5>1. s.at = "user" /\ t.delivery = s.delivery /\ t.msg = s.msg
                    BY <1>0, <1>3, <3>1, <4>2 DEF Archive, Advance, Saver
                <5>2. UserRow(t) = row
                    BY <2>6, <5>1 DEF UserRow
                <5> QED
                    BY <2>2, <3>1, <5>2
            <4> QED
                BY <4>1, <4>2
        <3> QED
            BY <3>1 DEF QuestionFirst
    <2> QED
        BY <1>1, <2>7, <2>8 DEF ArchiveInv
<1> QED
    BY <1>2, <1>3 DEF Save

LEMMA ArchiveEnvironment == TypeInv /\ ArchiveInv /\ Environment => ArchiveInv'
<1> SUFFICES ASSUME TypeInv, ArchiveInv, Environment PROVE ArchiveInv'
    OBVIOUS
<1> USE DEF redis, history
<1>1. UNCHANGED <<archive, outbox, faults>> /\ savers' \subseteq savers
    <2>1. CASE Midnight \/ Crash
        BY <2>1 DEF Midnight, Crash
    <2>2. ASSUME NEW m \in Messages, DedupExpires(m)
          PROVE  UNCHANGED <<archive, outbox, faults, savers>>
        BY <2>2 DEF DedupExpires, Expire
    <2>3. ASSUME NEW p \in Phones, OptInExpires(p) \/ HistExpires(p)
          PROVE  UNCHANGED <<archive, outbox, faults, savers>>
        BY <2>3 DEF OptInExpires, HistExpires, Expire
    <2> QED
        BY <2>1, <2>2, <2>3 DEF Environment
<1> QED
    BY <1>1 DEF ArchiveInv, SaversAnswered, AnsweredBy, QuestionFirst, UserRow, ArchiveBacked

LEMMA ArchiveInvHolds == Spec => []ArchiveInv
<1>1. Init => ArchiveInv
    BY DEF Init, ArchiveInv, SaversAnswered, QuestionFirst, ArchiveBacked
<1>2. TypeInv /\ ArchiveInv /\ [Next]_vars => ArchiveInv'
    <2> SUFFICES ASSUME TypeInv, ArchiveInv, [Next]_vars PROVE ArchiveInv'
        OBVIOUS
    <2>1. CASE UNCHANGED vars
        BY <2>1 DEF vars, env, ArchiveInv, SaversAnswered, AnsweredBy, QuestionFirst, UserRow,
                    ArchiveBacked
    <2> QED
        BY <2>1, ArchiveProcess, ArchiveSave, ArchiveEnvironment DEF Next, Terminated
<1> QED
    BY <1>1, <1>2, TypeInvHolds, PTL DEF Spec

\* What is archived was answered, and without a failed call no answer is
\* archived without its question (saveHistoryAsync).
THEOREM ArchiveIsBacked == Spec => []ArchiveBacked
<1>1. ArchiveInv => ArchiveBacked
    BY DEF ArchiveInv
<1> QED
    BY <1>1, ArchiveInvHolds, PTL

-----------------------------------------------------------------------------
(***************************************************************************)
(* Who is left in silence.  What is admitted is worked on past the         *)
(* limiter, or a text for it was handed to Meta, delivered or not; the one *)
(* step that leaves a message after another has spoken is the notice to    *)
(* the advisor.                                                            *)
(***************************************************************************)
Told(d, m) == Attempted(d, m, Replies \union {"limit", "apology"})

Owed ==
    \A a \in admitted :
        \/ WorkingOn(a[1], a[2]) /\ pc[a[1]] # "check"
        \/ pc[a[1]] = "lost"
        \/ Told(a[1], a[2])

RefusalTold == \A d \in Deliveries : pc[d] = "notify" => Told(d, Msg(d))

SilenceInv == Owed /\ RefusalTold

LEMMA ToldStays ==
    ASSUME TypeInv, [Next]_vars, NEW d, NEW m, Told(d, m)
    PROVE  Told(d, m)'
<1>1. outbox \subseteq outbox'
    <2>1. ASSUME NEW e \in Deliveries, Receive(e) \/ Process(e) PROVE outbox \subseteq outbox'
        BY <2>1, ProcessKeeps DEF KeepsToItself
    <2> QED
        BY <2>1, SaveKeeps, EnvironmentKeeps DEF Next, Terminated, vars
<1> QED
    BY <1>1 DEF Told, Attempted

\* SendText, whatever comes of it, leaves a trace.
LEMMA SendTells ==
    ASSUME NEW d \in Deliveries, NEW text, NEW ok \in BOOLEAN, SendText(d, text, ok),
           text \in Replies \union {"limit", "apology"}, NEW m, m = Msg(d)
    PROVE  Told(d, m)'
<1> DEFINE sent == [delivery |-> d, msg |-> Msg(d), text |-> text, ok |-> ok, tally |-> tally[d]]
<1>1. sent.delivery = d /\ sent.msg = Msg(d) /\ sent.text = text /\ sent \in outbox'
    BY SentFields DEF SendText
<1> HIDE DEF sent
<1> QED
    BY <1>1 DEF Told, Attempted

OwedTo(d, m) ==
    \/ WorkingOn(d, m) /\ pc[d] # "check"
    \/ pc[d] = "lost"
    \/ Told(d, m)

\* Past the limiter a goroutine goes on with its message, or speaks, or has
\* spoken and notifies the advisor.
LEMMA GoesOnOrSpeaks ==
    ASSUME TypeInv, NEW d \in Deliveries, Receive(d) \/ Process(d),
           pc[d] \in Working \ {"check"}
    PROVE  \/ pc'[d] \in Working \ {"check", "notify"} /\ rest'[d] = rest[d]
           \/ /\ \E text \in Replies \union {"limit", "apology"}, ok \in BOOLEAN :
                    SendText(d, text, ok)
              /\ pc'[d] = "notify" => rest'[d] = rest[d]
           \/ Notify(d) /\ pc'[d] = "loop" /\ pc[d] = "notify"
<1> USE DEF TypeInv, TypeOK, Working, Locations
<1>1. CASE Receive(d) \/ Finish(d) \/ Skip(d) \/ Claim(d) \/ ClaimFails(d) \/ Check(d)
    BY <1>1 DEF Receive, Finish, Skip, Claim, ClaimFails, Check, Leave, Goto
<1>2. CASE OptIn(d) \/ Disclaim(d) \/ CountFails(d) \/ Download(d) \/ Gemini(d)
    BY <1>2 DEF OptIn, Disclaim, CountFails, Download, Gemini, Goto, AfterQuota
<1>3. CASE Count(d)
    BY <1>3 DEF Count, AfterQuota
<1>4. CASE Refuse(d)
    BY <1>4 DEF Refuse, Goto
<1>5. CASE Notify(d)
    BY <1>5 DEF Notify, Leave
<1>6. CASE Apologise(d)
    BY <1>6 DEF Apologise, Leave
<1>7. CASE Reply(d)
    BY <1>7 DEF Reply, Leave, Replies
<1> QED
    BY <1>1, <1>2, <1>3, <1>4, <1>5, <1>6, <1>7 DEF Process, Bounded

\* Only a delivery's own step changes where it is; only Refuse leads to the
\* notice; only a verdict of the limiter admits, and lets past the check.
LEMMA Admits ==
    ASSUME TypeInv, NEW d \in Deliveries, Receive(d) \/ Process(d),
           NEW a \in admitted' \ admitted
    PROVE  a = <<d, Msg(d)>> /\ pc'[d] = "optin" /\ rest'[d] = rest[d]
<1> USE DEF history
<1>1. CASE Check(d)
    BY <1>1 DEF Check, Goto, TypeInv, TypeOK
<1>2. CASE Receive(d) \/ Finish(d) \/ Skip(d) \/ Claim(d) \/ ClaimFails(d) \/ OptIn(d)
    BY <1>2 DEF Receive, Finish, Skip, Claim, ClaimFails, OptIn
<1>3. CASE Disclaim(d) \/ Count(d) \/ CountFails(d) \/ Refuse(d) \/ Notify(d)
    BY <1>3 DEF Disclaim, Count, CountFails, Refuse, Notify
<1>4. CASE Download(d) \/ Gemini(d) \/ Apologise(d) \/ Reply(d)
    BY <1>4 DEF Download, Gemini, Apologise, Reply
<1> QED
    BY <1>1, <1>2, <1>3, <1>4 DEF Process, Bounded

LEMMA ToNotify ==
    ASSUME TypeInv, NEW d \in Deliveries, Receive(d) \/ Process(d), pc'[d] = "notify"
    PROVE  pc[d] \in Working \ {"check"}
<1> USE DEF TypeInv, TypeOK, Working, Locations
<1>1. CASE Receive(d) \/ Finish(d) \/ Skip(d) \/ Claim(d) \/ ClaimFails(d) \/ Check(d)
    BY <1>1 DEF Receive, Finish, Skip, Claim, ClaimFails, Check, Leave, Goto
<1>2. CASE ~ (Receive(d) \/ Finish(d) \/ Skip(d) \/ Claim(d) \/ ClaimFails(d) \/ Check(d))
    BY <1>2 DEF Process, Bounded, OptIn, Disclaim, Count, CountFails, Refuse, Notify, Download, Gemini,
                Apologise, Reply, Goto, Leave
<1> QED
    BY <1>1, <1>2

LEMMA LostStays ==
    ASSUME TypeInv, NEW d \in Deliveries, pc[d] = "lost"
    PROVE  ~ (Receive(d) \/ Process(d))
BY DEF Process, Bounded, Receive, Finish, Skip, Claim, ClaimFails, Check, OptIn, Disclaim, Count,
       CountFails, Refuse, Notify, Download, Gemini, Apologise, Reply, Goto, Leave

LEMMA SilenceProcess ==
    ASSUME TypeInv, SilenceInv, NEW d \in Deliveries, Receive(d) \/ Process(d)
    PROVE  SilenceInv'
<1> [Next]_vars
    BY DEF Next
<1>1. KeepsToItself(d)
    BY ProcessKeeps
<1>2. ASSUME NEW e \in Deliveries, NEW m, OwedTo(e, m) PROVE OwedTo(e, m)'
    <2>1. CASE Told(e, m)
        BY <2>1, ToldStays DEF OwedTo
    <2>2. CASE e # d
        BY <1>1, <1>2, <2>2, ToldStays DEF OwedTo, KeepsToItself, WorkingOn, Msg
    <2>3. CASE e = d /\ WorkingOn(d, m) /\ pc[d] # "check"
        <3>1. pc[d] \in Working \ {"check"} /\ m = Msg(d)
            BY <2>3 DEF WorkingOn
        <3>2. CASE pc'[d] \in Working \ {"check", "notify"} /\ rest'[d] = rest[d]
            BY <2>3, <3>1, <3>2 DEF OwedTo, WorkingOn, Msg
        <3>3. CASE \E text \in Replies \union {"limit", "apology"}, ok \in BOOLEAN :
                    SendText(d, text, ok)
            BY <2>3, <3>1, <3>3, SendTells DEF OwedTo
        <3>4. CASE pc[d] = "notify"
            BY <2>3, <3>1, <3>4, ToldStays DEF SilenceInv, RefusalTold, OwedTo
        <3> QED
            BY <3>1, <3>2, <3>3, <3>4, GoesOnOrSpeaks
    <2>4. CASE e = d /\ pc[d] = "lost"
        BY <2>4, LostStays
    <2> QED
        BY <1>2, <2>1, <2>2, <2>3, <2>4 DEF OwedTo
<1>3. Owed'
    <2>1. ASSUME NEW a \in admitted' PROVE OwedTo(a[1], a[2])'
        <3>1. CASE a \in admitted
            BY <1>2, <3>1 DEF SilenceInv, Owed, OwedTo, TypeInv, TypeOK
        <3>2. CASE a \notin admitted
            BY <3>2, Admits DEF OwedTo, WorkingOn, Msg, Working, Locations
        <3> QED
            BY <3>1, <3>2
    <2> QED
        BY <2>1 DEF Owed, OwedTo
<1>4. RefusalTold'
    <2>1. ASSUME NEW e \in Deliveries, pc'[e] = "notify", NEW m, m = Msg(e)' PROVE Told(e, m)'
        <3>1. CASE e # d
            BY <1>1, <2>1, <3>1, ToldStays DEF KeepsToItself, SilenceInv, RefusalTold, Msg
        <3>2. CASE e = d
            <4>1. pc[d] \in Working \ {"check"}
                BY <2>1, <3>2, ToNotify
            <4>2. /\ rest'[d] = rest[d]
                  /\ \E text \in Replies \union {"limit", "apology"}, ok \in BOOLEAN :
                        SendText(d, text, ok)
                BY <2>1, <3>2, <4>1, GoesOnOrSpeaks
            <4>3. m = Msg(d)
                BY <2>1, <3>2, <4>2 DEF Msg
            <4> QED
                BY <3>2, <4>2, <4>3, SendTells
        <3> QED
            BY <3>1, <3>2
    <2> QED
        BY <2>1 DEF RefusalTold
<1> QED
    BY <1>3, <1>4 DEF SilenceInv

LEMMA SilenceElsewhere ==
    ASSUME TypeInv, SilenceInv, [Next]_vars,
           UNCHANGED <<outbox, admitted>>, Crash \/ UNCHANGED handlers
    PROVE  SilenceInv'
<1>1. CASE UNCHANGED handlers
    BY <1>1 DEF handlers, SilenceInv, Owed, RefusalTold, WorkingOn, Told, Attempted, Msg
<1>2. CASE Crash
    <2>1. \A d \in Deliveries : pc'[d] = IF pc[d] \in {"new", "done"} THEN pc[d] ELSE "lost"
        BY <1>2 DEF Crash
    <2>2. RefusalTold'
        BY <2>1 DEF RefusalTold, TypeInv, TypeOK
    <2>3. ASSUME NEW a \in admitted PROVE OwedTo(a[1], a[2])'
        <3>1. a[1] \in Deliveries /\ OwedTo(a[1], a[2])
            BY DEF SilenceInv, Owed, OwedTo, TypeInv, TypeOK
        <3>2. CASE Told(a[1], a[2])
            BY <3>2, ToldStays DEF OwedTo
        <3>3. CASE ~ Told(a[1], a[2])
            BY <2>1, <3>1, <3>3 DEF OwedTo, WorkingOn, Working, Locations
        <3> QED
            BY <3>2, <3>3
    <2>4. Owed'
        BY <2>3 DEF Owed, OwedTo
    <2> QED
        BY <2>2, <2>4 DEF SilenceInv
<1> QED
    BY <1>1, <1>2

\* An admitted message gets its reply, refusal or apology delivered unless Meta
\* did not take that text or a restart came (processor.go:310, 326).
THEOREM SilenceExplained == Spec => []SilenceHasCause
<1>1. Init => SilenceInv
    BY DEF Init, SilenceInv, Owed, RefusalTold
<1>2. TypeInv /\ SilenceInv /\ [Next]_vars => SilenceInv'
    <2> SUFFICES ASSUME TypeInv, SilenceInv, [Next]_vars PROVE SilenceInv'
        OBVIOUS
    <2>1. CASE UNCHANGED vars
        BY <2>1, SilenceElsewhere DEF vars, history
    <2>2. ASSUME NEW s \in savers, Save(s) PROVE SilenceInv'
        BY <2>2, SaveKeeps, SilenceElsewhere
    <2>3. CASE Environment
        BY <2>3, EnvironmentKeeps, SilenceElsewhere
    <2> QED
        BY <2>1, <2>2, <2>3, SilenceProcess DEF Next, Terminated
<1>3. SilenceInv => SilenceHasCause
    BY DEF SilenceInv, Owed, Told, Attempted, Answers, Delivered, SendFailed, SilenceHasCause
<1> QED
    BY <1>1, <1>2, <1>3, TypeInvHolds, PTL DEF Spec

-----------------------------------------------------------------------------
(***************************************************************************)
(* The privacy notice.  The opt-in key stands for one right to send it:    *)
(* while the key has not expired, at most one delivery is about to send it *)
(* or at most one notice has been sent, never both, and then the key is    *)
(* set, so that SETNX grants no second right.                              *)
(***************************************************************************)
Disclaiming(d, p) == pc[d] = "disclaim" /\ Sender(d) = p
Notice(o, p) == o.text = "disclaimer" /\ From[o.msg] = p

OneRight(p) ==
    /\ \A d \in Deliveries : Disclaiming(d, p) => p \in optin
    /\ \A o \in outbox : Notice(o, p) => p \in optin
    /\ \A d, e \in Deliveries : Disclaiming(d, p) /\ Disclaiming(e, p) => d = e
    /\ \A d \in Deliveries, o \in outbox : ~ (Disclaiming(d, p) /\ Notice(o, p))
    /\ \A oa, ob \in outbox : Notice(oa, p) /\ Notice(ob, p) => oa = ob

NoticeInv == \A p \in Phones \ optinLapsed : OneRight(p)

\* A step of a goroutine gives the right by claiming the key, uses it up by
\* sending the notice, or does neither.
LEMMA NoticeSteps ==
    ASSUME TypeInv, NEW d \in Deliveries, Receive(d) \/ Process(d)
    PROVE  \/ /\ Sender(d) \notin optin /\ optin' = optin \union {Sender(d)}
              /\ outbox' = outbox /\ pc'[d] = "disclaim" /\ Sender(d)' = Sender(d)
           \/ /\ \E sent : /\ outbox' = outbox \union {sent}
                           /\ sent.text = "disclaimer" /\ sent.msg = Msg(d)
              /\ pc[d] = "disclaim" /\ pc'[d] # "disclaim" /\ optin' = optin
           \/ /\ optin' = optin /\ pc'[d] # "disclaim"
              /\ \A o \in outbox' \ outbox : o.text # "disclaimer"
<1> USE DEF redis
<1>1. CASE Receive(d) \/ Finish(d) \/ Skip(d) \/ Claim(d) \/ ClaimFails(d) \/ Check(d)
    BY <1>1 DEF Receive, Finish, Skip, Claim, ClaimFails, Check, Leave, Goto, TypeInv, TypeOK
<1>2. CASE OptIn(d)
    BY <1>2 DEF OptIn, Goto, Sender, Msg, TypeInv, TypeOK
<1>3. CASE CountFails(d) \/ Download(d) \/ Gemini(d)
    BY <1>3 DEF CountFails, Download, Gemini, AfterQuota, Goto, TypeInv, TypeOK
<1>4. CASE Count(d)
    BY <1>4 DEF Count, AfterQuota, TypeInv, TypeOK
<1>5. CASE Disclaim(d) \/ Refuse(d) \/ Notify(d) \/ Apologise(d) \/ Reply(d)
    <2>1. /\ optin' = optin /\ pc'[d] # "disclaim"
          /\ \E text \in Texts, ok \in BOOLEAN :
                SendText(d, text, ok) /\ (text = "disclaimer" => pc[d] = "disclaim")
        BY <1>5 DEF Disclaim, Refuse, Notify, Apologise, Reply, Leave, Goto, TypeInv, TypeOK, Texts
    <2>2. PICK text \in Texts, ok \in BOOLEAN :
            SendText(d, text, ok) /\ (text = "disclaimer" => pc[d] = "disclaim")
        BY <2>1
    <2> DEFINE sent == [delivery |-> d, msg |-> Msg(d), text |-> text, ok |-> ok,
                        tally |-> tally[d]]
    <2>3. sent.msg = Msg(d) /\ sent.text = text /\ outbox' = outbox \union {sent}
        BY <2>2, SentFields DEF SendText
    <2> HIDE DEF sent
    <2> QED
        BY <2>1, <2>2, <2>3
<1> QED
    BY <1>1, <1>2, <1>3, <1>4, <1>5 DEF Process, Bounded

LEMMA NoticeProcess ==
    ASSUME TypeInv, NoticeInv, NEW d \in Deliveries, Receive(d) \/ Process(d)
    PROVE  NoticeInv'
<1> SUFFICES ASSUME NEW p \in Phones \ optinLapsed PROVE OneRight(p)'
    BY ProcessStores DEF NoticeInv
<1>1. OneRight(p)
    BY DEF NoticeInv
<1>2. KeepsToItself(d)
    BY ProcessKeeps
<1>3. \A e \in Deliveries \ {d} : Disclaiming(e, p)' <=> Disclaiming(e, p)
    BY <1>2 DEF KeepsToItself, Disclaiming, Sender, Msg
<1>4. \A o : Notice(o, p)' <=> Notice(o, p)
    BY DEF Notice
<1>5. CASE /\ Sender(d) \notin optin /\ optin' = optin \union {Sender(d)}
           /\ outbox' = outbox /\ pc'[d] = "disclaim" /\ Sender(d)' = Sender(d)
    <2>1. Disclaiming(d, p)' <=> p = Sender(d)
        BY <1>5 DEF Disclaiming
    <2>2. p = Sender(d) => /\ \A e \in Deliveries : ~ Disclaiming(e, p)
                           /\ \A o \in outbox : ~ Notice(o, p)
        BY <1>1, <1>5 DEF OneRight
    <2> QED
        BY <1>1, <1>3, <1>4, <1>5, <2>1, <2>2 DEF OneRight
<1>6. CASE /\ \E sent : /\ outbox' = outbox \union {sent}
                        /\ sent.text = "disclaimer" /\ sent.msg = Msg(d)
           /\ pc[d] = "disclaim" /\ pc'[d] # "disclaim" /\ optin' = optin
    <2>1. PICK sent : /\ outbox' = outbox \union {sent}
                      /\ sent.text = "disclaimer" /\ sent.msg = Msg(d)
        BY <1>6
    <2>2. ~ Disclaiming(d, p)'
        BY <1>6 DEF Disclaiming
    <2>3. (Notice(sent, p) <=> p = Sender(d)) /\ (Disclaiming(d, p) <=> p = Sender(d))
        BY <1>6, <2>1 DEF Notice, Disclaiming, Sender
    <2>4. \A o \in outbox' : o \in outbox \/ o = sent
        BY <2>1
    <2> QED
        BY <1>1, <1>3, <1>4, <1>6, <2>2, <2>3, <2>4 DEF OneRight
<1>7. CASE /\ optin' = optin /\ pc'[d] # "disclaim"
           /\ \A o \in outbox' \ outbox : o.text # "disclaimer"
    <2>1. ~ Disclaiming(d, p)'
        BY <1>7 DEF Disclaiming
    <2>2. \A o \in outbox' : Notice(o, p) => o \in outbox
        BY <1>7 DEF Notice
    <2> QED
        BY <1>1, <1>3, <1>4, <1>7, <2>1, <2>2 DEF OneRight
<1> QED
    BY <1>5, <1>6, <1>7, NoticeSteps

LEMMA NoticeEnvironment == TypeInv /\ NoticeInv /\ Environment => NoticeInv'
<1> SUFFICES ASSUME TypeInv, NoticeInv, Environment PROVE NoticeInv'
    OBVIOUS
<1> USE DEF redis, history, handlers
<1>0. outbox' = outbox
    BY EnvironmentKeeps
<1>1. CASE Midnight
    BY <1>1 DEF Midnight, NoticeInv, OneRight, Disclaiming, Notice, Sender, Msg
<1>2. CASE Crash
    <2>1. UNCHANGED <<optin, optinLapsed>> /\ \A d \in Deliveries : pc'[d] # "disclaim"
        BY <1>2 DEF Crash
    <2> QED
        BY <1>0, <2>1 DEF NoticeInv, OneRight, Disclaiming, Notice
<1>3. ASSUME NEW m \in Messages, DedupExpires(m) PROVE NoticeInv'
    BY <1>3 DEF DedupExpires, NoticeInv, OneRight, Disclaiming, Notice, Sender, Msg
<1>4. ASSUME NEW q \in Phones, OptInExpires(q) PROVE NoticeInv'
    <2>1. /\ UNCHANGED <<pc, rest, outbox>>
          /\ optin' = optin \ {q} /\ optinLapsed' = optinLapsed \union {q}
        BY <1>4 DEF OptInExpires
    <2>2. ASSUME NEW p \in Phones \ optinLapsed' PROVE OneRight(p)'
        <3>1. p \in Phones \ optinLapsed /\ p # q
            BY <2>1
        <3> QED
            BY <2>1, <3>1 DEF NoticeInv, OneRight, Disclaiming, Notice, Sender, Msg
    <2> QED
        BY <2>2 DEF NoticeInv
<1>5. ASSUME NEW q \in Phones, HistExpires(q) PROVE NoticeInv'
    BY <1>5 DEF HistExpires, NoticeInv, OneRight, Disclaiming, Notice, Sender, Msg
<1> QED
    BY <1>1, <1>2, <1>3, <1>4, <1>5 DEF Environment

\* One privacy notice per contact while its key lasts, "1 vez cada 30 dias"
\* (processor.go:250).
THEOREM NoticeSentOnce == Spec => []DisclaimerOnce
<1>1. Init => NoticeInv
    BY DEF Init, NoticeInv, OneRight, Disclaiming
<1>2. TypeInv /\ NoticeInv /\ [Next]_vars => NoticeInv'
    <2> SUFFICES ASSUME TypeInv, NoticeInv, [Next]_vars PROVE NoticeInv'
        OBVIOUS
    <2>1. CASE UNCHANGED vars
        BY <2>1 DEF vars, handlers, redis, history, NoticeInv, OneRight, Disclaiming, Notice, Sender, Msg
    <2>2. ASSUME NEW s \in savers, Save(s) PROVE NoticeInv'
        BY <2>2, SaveKeeps DEF handlers, NoticeInv, OneRight, Disclaiming, Notice, Sender, Msg
    <2> QED
        BY <2>1, <2>2, NoticeProcess, NoticeEnvironment DEF Next, Terminated
<1>3. TypeInv /\ NoticeInv => DisclaimerOnce
    <2> SUFFICES ASSUME TypeInv, NoticeInv,
                        NEW oa \in outbox, NEW ob \in outbox,
                        oa.text = "disclaimer", ob.text = "disclaimer",
                        From[oa.msg] = From[ob.msg], From[oa.msg] \notin optinLapsed
                 PROVE  oa = ob
        BY DEF DisclaimerOnce
    <2>1. oa.msg \in Messages
        BY DEF TypeInv, TypeOK
    <2>2. From[oa.msg] \in Phones
        BY <2>1, MessagesAssumption
    <2> QED
        BY <2>2 DEF NoticeInv, OneRight, Notice
<1> QED
    BY <1>1, <1>2, <1>3, TypeInvHolds, PTL DEF Spec

-----------------------------------------------------------------------------
(***************************************************************************)
(* The daily quota.  INCR hands out each number of a sender's day once: a  *)
(* number belongs to the one delivery that holds it as its tally or to the *)
(* one reply it was spent on, and is at most the counter.  Only a number   *)
(* within the maximum, or the advisor's, comes as far as a reply; so the   *)
(* counted replies are as many as their numbers, which are within          *)
(* 1 .. MaxMsgs.                                                           *)
(***************************************************************************)
Holds(d, p, day, n) ==
    tally[d].n = n /\ tally[d].day = day /\ Sender(d) = p
Spent(o, p, day, n) ==
    o.text \in Replies /\ o.tally.n = n /\ o.tally.day = day /\ From[o.msg] = p

OneOwner(p, day, n) ==
    /\ \A d \in Deliveries : Holds(d, p, day, n) => n <= limit[day][p]
    /\ \A o \in outbox : Spent(o, p, day, n) => n <= limit[day][p]
    /\ \A d, e \in Deliveries : Holds(d, p, day, n) /\ Holds(e, p, day, n) => d = e
    /\ \A d \in Deliveries, o \in outbox : ~ (Holds(d, p, day, n) /\ Spent(o, p, day, n))
    /\ \A oa, ob \in outbox : Spent(oa, p, day, n) /\ Spent(ob, p, day, n) => oa = ob

NumbersOwned ==
    \A p \in Phones, day \in Days, n \in Nat \ {0} : OneOwner(p, day, n)

\* Where a delivery may hold a number.
Numbered == {"refuse", "notify", "download", "gemini", "apologise", "send"}
CountOnlyAfter == \A d \in Deliveries : tally[d].n # 0 => pc[d] \in Numbered

Within(n, m) == n <= MaxMsgs \/ Exempt(m)
ServedWithin ==
    /\ \A d \in Deliveries :
        pc[d] \in {"download", "gemini", "send"} => Within(tally[d].n, Msg(d))
    /\ \A o \in outbox : o.text \in Replies => Within(o.tally.n, o.msg)

QuotaInv == CountOnlyAfter /\ ServedWithin /\ NumbersOwned

\* A step of a goroutine takes a number, goes on with the one it has, starts
\* the delivery, or gives the number up, on at most one reply.
Takes(d) ==
    LET n == limit[today][Sender(d)] + 1 IN
    /\ pc[d] = "count" /\ rest'[d] = rest[d] /\ outbox' = outbox
    /\ limit' = [limit EXCEPT ![today][Sender(d)] = n]
    /\ tally'[d].n = n /\ tally'[d].day = today
    /\ pc'[d] \in Numbered
    /\ pc'[d] # "refuse" => Within(n, Msg(d))

GoesOn(d) ==
    /\ tally'[d] = tally[d] /\ rest'[d] = rest[d] /\ limit' = limit
    /\ pc[d] \in Numbered => pc'[d] \in Numbered
    /\ pc'[d] \in {"download", "gemini", "send"} => pc[d] \in {"count", "download", "gemini"}
    /\ \A o \in outbox' \ outbox : o.text \notin Replies

Starts(d) ==
    /\ pc[d] = "new" /\ tally'[d] = tally[d] /\ pc'[d] = "loop" /\ limit' = limit
    /\ outbox' = outbox

GivesUp(d) ==
    /\ tally'[d] = NoTally /\ pc'[d] = "loop" /\ limit' = limit
    /\ \/ \A o \in outbox' \ outbox : o.text \notin Replies
       \/ /\ pc[d] = "send"
          /\ \E sent : outbox' = outbox \union {sent} /\ Answer(d, sent)

LEMMA NumberSteps ==
    ASSUME TypeInv, NEW d \in Deliveries, Receive(d) \/ Process(d)
    PROVE  Takes(d) \/ GoesOn(d) \/ Starts(d) \/ GivesUp(d)
<1> USE DEF redis
<1>0. ~ Reply(d) => \A o \in outbox' \ outbox : o.text \notin Replies
    BY OnlyReplies
<1>1. CASE Receive(d)
    BY <1>1 DEF Receive, Starts, TypeInv, TypeOK
<1>2. CASE Finish(d) \/ Claim(d) \/ OptIn(d) \/ CountFails(d) \/ Download(d) \/ Gemini(d)
    <2>1. \A o \in outbox' \ outbox : o.text \notin Replies
        BY <1>0, <1>2 DEF Finish, Claim, OptIn, CountFails, Download, Gemini
    <2>2. limit' = limit
        BY <1>2 DEF Finish, Claim, OptIn, CountFails, Download, Gemini
    <2> QED
        BY <1>2, <2>1, <2>2
        DEF Finish, Claim, OptIn, CountFails, Download, Gemini, Goto, AfterQuota, GoesOn,
            Numbered, TypeInv, TypeOK
<1>3. CASE Skip(d) \/ ClaimFails(d)
    BY <1>3 DEF Skip, ClaimFails, Leave, GivesUp, TypeInv, TypeOK
<1>4. CASE Check(d)
    BY <1>4 DEF Check, Leave, Goto, GivesUp, GoesOn, Numbered, TypeInv, TypeOK
<1>5. CASE Count(d)
    <2> DEFINE n == limit[today][Sender(d)] + 1
    <2>1. /\ pc[d] = "count" /\ rest' = rest /\ outbox' = outbox
          /\ limit' = [limit EXCEPT ![today][Sender(d)] = n]
          /\ tally' = [tally EXCEPT ![d] = [day |-> today, n |-> n]]
          /\ pc' = [pc EXCEPT ![d] = IF n > MaxMsgs /\ ~ Exempt(Msg(d))
                                     THEN "refuse" ELSE AfterQuota(Msg(d))]
        BY <1>5 DEF Count
    <2>2. n \in Nat
        <3>1. rest[d] # <<>>
            BY <2>1 DEF TypeInv, AtWork, Working, Locations
        <3> QED
            BY <3>1, MsgType DEF TypeInv, TypeOK
    <2>3. tally'[d].n = n /\ tally'[d].day = today
        BY <2>1 DEF TypeInv, TypeOK
    <2>4. /\ pc'[d] \in {"refuse", "download", "gemini"}
          /\ pc'[d] # "refuse" => ~ (n > MaxMsgs /\ ~ Exempt(Msg(d)))
        BY <2>1 DEF AfterQuota, TypeInv, TypeOK
    <2>5. pc'[d] # "refuse" => Within(n, Msg(d))
        BY <2>2, <2>4, QuotaAssumption DEF Within
    <2> QED
        BY <2>1, <2>3, <2>4, <2>5 DEF Takes, Numbered
<1>6. CASE Disclaim(d) \/ Refuse(d)
    <2>1. \A o \in outbox' \ outbox : o.text \notin Replies
        BY <1>0, <1>6 DEF Disclaim, Refuse, Reply, Goto, Leave
    <2> QED
        BY <1>6, <2>1 DEF Disclaim, Refuse, Goto, GoesOn, Numbered, TypeInv, TypeOK
<1>7. CASE Notify(d) \/ Apologise(d)
    <2>1. \A o \in outbox' \ outbox : o.text \notin Replies
        BY <1>0, <1>7 DEF Notify, Apologise, Reply, Leave
    <2> QED
        BY <1>7, <2>1 DEF Notify, Apologise, Leave, GivesUp, TypeInv, TypeOK
<1>8. CASE Reply(d)
    <2>1. pc[d] = "send" /\ tally'[d] = NoTally /\ pc'[d] = "loop" /\ limit' = limit
        BY <1>8 DEF Reply, Leave, TypeInv, TypeOK
    <2>2. \E sent : outbox' = outbox \union {sent} /\ Answer(d, sent)
        BY <1>8, ReplySent, Zenon
    <2> QED
        BY <2>1, <2>2 DEF GivesUp
<1> QED
    BY <1>1, <1>2, <1>3, <1>4, <1>5, <1>6, <1>7, <1>8 DEF Process, Bounded

LEMMA QuotaProcess ==
    ASSUME TypeInv, QuotaInv, NEW d \in Deliveries, Receive(d) \/ Process(d)
    PROVE  QuotaInv'
<1>0. KeepsToItself(d)
    BY ProcessKeeps
<1>1. /\ \A e \in Deliveries \ {d} :
            /\ pc'[e] = pc[e] /\ tally'[e] = tally[e] /\ Msg(e)' = Msg(e)
            /\ \A p, day, n : Holds(e, p, day, n)' <=> Holds(e, p, day, n)
      /\ \A o, p, day, n : Spent(o, p, day, n)' <=> Spent(o, p, day, n)
      /\ \A n, m : Within(n, m)' <=> Within(n, m)
    BY <1>0 DEF KeepsToItself, Holds, Spent, Within, Exempt, Sender, Msg
<1>2. /\ \A e \in Deliveries : tally[e].n \in Nat /\ tally[e].day \in Days
      /\ MaxMsgs \in Nat /\ NoTally.n = 0
    BY QuotaAssumption DEF TypeInv, TypeOK, Tally, NoTally
<1>3. CASE Takes(d)
    <2> DEFINE k == limit[today][Sender(d)] + 1
    <2>1. /\ pc[d] = "count" /\ rest'[d] = rest[d] /\ outbox' = outbox
          /\ limit' = [limit EXCEPT ![today][Sender(d)] = k]
          /\ tally'[d].n = k /\ tally'[d].day = today
          /\ pc'[d] \in Numbered
          /\ pc'[d] # "refuse" => Within(k, Msg(d))
        BY <1>3 DEF Takes
    <2>2. Msg(d)' = Msg(d) /\ Sender(d)' = Sender(d)
        BY <2>1 DEF Msg, Sender
    <2>3. Sender(d) \in Phones /\ today \in Days
        <3>1. rest[d] # <<>>
            BY <2>1 DEF TypeInv, AtWork, Working, Locations
        <3> QED
            BY <3>1, MsgType DEF TypeInv, TypeOK
    <2>4. k \in Nat \ {0} /\ k = limit[today][Sender(d)] + 1
        BY <2>3 DEF TypeInv, TypeOK
    <2>5. tally[d].n = 0
        BY <1>2, <2>1 DEF QuotaInv, CountOnlyAfter, Numbered
    <2> HIDE DEF k
    <2>6. CountOnlyAfter'
        BY <1>1, <2>1 DEF QuotaInv, CountOnlyAfter
    <2>7. ServedWithin'
        BY <1>1, <2>1, <2>2 DEF QuotaInv, ServedWithin
    <2>8. ASSUME NEW p \in Phones, NEW day \in Days, NEW n \in Nat \ {0}
          PROVE  OneOwner(p, day, n)'
        <3>1. OneOwner(p, day, n)
            BY DEF QuotaInv, NumbersOwned
        <3>2. ~ Holds(d, p, day, n)
            BY <2>5 DEF Holds
        <3>3. limit[day][p] \in Nat /\ limit'[day][p] \in Nat /\ limit[day][p] <= limit'[day][p]
            BY <2>1, <2>3, <2>4 DEF TypeInv, TypeOK
        <3>4. Holds(d, p, day, n)' <=> (n = k /\ day = today /\ p = Sender(d))
            BY <2>1, <2>2 DEF Holds
        <3>5. CASE n = k /\ day = today /\ p = Sender(d)
            <4>1. limit'[day][p] = n /\ limit[day][p] < n
                BY <2>1, <2>3, <2>4, <3>5 DEF TypeInv, TypeOK
            <4>2. /\ \A e \in Deliveries : ~ Holds(e, p, day, n)
                  /\ \A o \in outbox : ~ Spent(o, p, day, n)
                BY <3>1, <3>3, <4>1 DEF OneOwner
            <4> QED
                BY <1>1, <2>1, <3>3, <4>1, <4>2 DEF OneOwner
        <3>6. CASE ~ (n = k /\ day = today /\ p = Sender(d))
            <4>1. \A e \in Deliveries : Holds(e, p, day, n)' <=> Holds(e, p, day, n)
                BY <1>1, <3>2, <3>4, <3>6
            <4>2. n <= limit[day][p] => n <= limit'[day][p]
                BY <3>3
            <4> QED
                BY <1>1, <2>1, <3>1, <4>1, <4>2 DEF OneOwner
        <3> QED
            BY <3>5, <3>6
    <2> QED
        BY <2>6, <2>7, <2>8 DEF QuotaInv, NumbersOwned
<1>4. CASE GoesOn(d) \/ Starts(d)
    <2>1. /\ tally'[d] = tally[d] /\ limit' = limit
          /\ \A o \in outbox' \ outbox : o.text \notin Replies
          /\ pc[d] \in Numbered => pc'[d] \in Numbered
          /\ tally[d].n # 0 => Msg(d)' = Msg(d)
        BY <1>4 DEF GoesOn, Starts, Msg, QuotaInv, CountOnlyAfter, Numbered
    <2>2. CountOnlyAfter'
        BY <1>1, <2>1 DEF QuotaInv, CountOnlyAfter
    <2>3. ServedWithin'
        <3>1. ASSUME pc'[d] \in {"download", "gemini", "send"} PROVE Within(tally'[d].n, Msg(d)')
            <4>1. rest'[d] = rest[d] /\ pc[d] \in {"count", "download", "gemini"}
                BY <1>4, <3>1 DEF GoesOn, Starts
            <4>2. CASE pc[d] = "count"
                BY <1>2, <2>1, <4>2 DEF QuotaInv, CountOnlyAfter, Numbered, Within
            <4>3. CASE pc[d] # "count"
                BY <2>1, <4>1, <4>3 DEF QuotaInv, ServedWithin, Msg
            <4> QED
                BY <4>2, <4>3
        <3> QED
            BY <1>1, <2>1, <3>1 DEF QuotaInv, ServedWithin
    <2>4. ASSUME NEW p \in Phones, NEW day \in Days, NEW n \in Nat \ {0}
          PROVE  OneOwner(p, day, n)'
        <3>1. OneOwner(p, day, n)
            BY DEF QuotaInv, NumbersOwned
        <3>2. Holds(d, p, day, n)' <=> Holds(d, p, day, n)
            BY <2>1 DEF Holds, Sender
        <3>3. \A o \in outbox' : Spent(o, p, day, n) => o \in outbox
            BY <2>1 DEF Spent
        <3> QED
            BY <1>1, <2>1, <3>1, <3>2, <3>3 DEF OneOwner
    <2> QED
        BY <2>2, <2>3, <2>4 DEF QuotaInv, NumbersOwned
<1>5. CASE GivesUp(d)
    <2>1. tally'[d].n = 0 /\ pc'[d] = "loop" /\ limit' = limit
        BY <1>2, <1>5 DEF GivesUp
    <2>2. CountOnlyAfter'
        BY <1>1, <2>1 DEF QuotaInv, CountOnlyAfter
    <2>3. \A p \in Phones, day \in Days, n \in Nat \ {0} : ~ Holds(d, p, day, n)'
        BY <2>1 DEF Holds
    <2>4. CASE \A o \in outbox' \ outbox : o.text \notin Replies
        <3>1. ServedWithin'
            BY <1>1, <2>1, <2>4 DEF QuotaInv, ServedWithin
        <3>2. ASSUME NEW p \in Phones, NEW day \in Days, NEW n \in Nat \ {0}
              PROVE  OneOwner(p, day, n)'
            <4>1. \A o \in outbox' : Spent(o, p, day, n) => o \in outbox
                BY <2>4 DEF Spent
            <4> QED
                BY <1>1, <2>1, <2>3, <4>1 DEF QuotaInv, NumbersOwned, OneOwner
        <3> QED
            BY <2>2, <3>1, <3>2 DEF QuotaInv, NumbersOwned
    <2>5. CASE /\ pc[d] = "send"
               /\ \E sent : outbox' = outbox \union {sent} /\ Answer(d, sent)
        <3>1. PICK sent : outbox' = outbox \union {sent} /\ Answer(d, sent)
            BY <2>5
        <3>2. sent.msg = Msg(d) /\ sent.tally = tally[d]
            BY <3>1 DEF Answer
        <3>3. \A o \in outbox' : o \in outbox \/ o = sent
            BY <3>1
        <3>4. Within(sent.tally.n, sent.msg)
            BY <2>5, <3>2 DEF QuotaInv, ServedWithin
        <3>5. ServedWithin'
            BY <1>1, <2>1, <3>3, <3>4 DEF QuotaInv, ServedWithin
        <3>6. ASSUME NEW p \in Phones, NEW day \in Days, NEW n \in Nat \ {0}
              PROVE  OneOwner(p, day, n)'
            <4>1. OneOwner(p, day, n)
                BY DEF QuotaInv, NumbersOwned
            <4>2. Spent(sent, p, day, n) => Holds(d, p, day, n)
                BY <3>2 DEF Spent, Holds, Sender
            <4> QED
                BY <1>1, <2>1, <2>3, <3>3, <4>1, <4>2 DEF OneOwner
        <3> QED
            BY <2>2, <3>5, <3>6 DEF QuotaInv, NumbersOwned
    <2> QED
        BY <1>5, <2>4, <2>5 DEF GivesUp
<1> QED
    BY <1>3, <1>4, <1>5, NumberSteps

LEMMA QuotaElsewhere ==
    ASSUME TypeInv, QuotaInv, UNCHANGED <<outbox, limit>>, Crash \/ UNCHANGED handlers
    PROVE  QuotaInv'
<1>1. CASE UNCHANGED handlers
    BY <1>1 DEF handlers, QuotaInv, CountOnlyAfter, ServedWithin, NumbersOwned, OneOwner,
                Holds, Spent, Within, Exempt, Sender, Msg
<1>2. CASE Crash
    <2>1. \A d \in Deliveries : tally'[d].n = 0 /\ pc'[d] \in {"new", "done", "lost"}
        BY <1>2 DEF Crash, NoTally
    <2>2. CountOnlyAfter'
        BY <2>1 DEF CountOnlyAfter
    <2>3. ServedWithin'
        BY <2>1 DEF QuotaInv, ServedWithin, Within, Exempt
    <2>4. NumbersOwned'
        BY <2>1 DEF QuotaInv, NumbersOwned, OneOwner, Holds, Spent
    <2> QED
        BY <2>2, <2>3, <2>4 DEF QuotaInv
<1> QED
    BY <1>1, <1>2

LEMMA EnvironmentCounts == Environment => limit' = limit
BY DEF Environment, Midnight, Crash, DedupExpires, OptInExpires, HistExpires, redis

\* A sender gets at most the configured number of automatic replies per day
\* (checkDailyLimit), for any interleaving of any number of its messages.
THEOREM QuotaKept == Spec => []DailyQuota
<1>1. Init => QuotaInv
    BY DEF Init, NoTally, QuotaInv, CountOnlyAfter, ServedWithin, NumbersOwned, OneOwner, Holds
<1>2. TypeInv /\ QuotaInv /\ [Next]_vars => QuotaInv'
    <2> SUFFICES ASSUME TypeInv, QuotaInv, [Next]_vars PROVE QuotaInv'
        OBVIOUS
    <2>1. CASE UNCHANGED vars
        BY <2>1, QuotaElsewhere DEF vars, redis
    <2>2. ASSUME NEW s \in savers, Save(s) PROVE QuotaInv'
        BY <2>2, SaveKeeps, QuotaElsewhere
    <2>3. CASE Environment
        BY <2>3, EnvironmentKeeps, EnvironmentCounts, QuotaElsewhere
    <2> QED
        BY <2>1, <2>2, <2>3, QuotaProcess DEF Next, Terminated
<1>3. TypeInv /\ QuotaInv => DailyQuota
    <2> SUFFICES ASSUME TypeInv, QuotaInv, NEW p \in Phones, NEW day \in Days
                 PROVE  Cardinality(CountedReplies(p, day)) <= MaxMsgs
        BY DEF DailyQuota
    <2> DEFINE number == [o \in CountedReplies(p, day) |-> o.tally.n]
    <2>1. \A o \in CountedReplies(p, day) :
            /\ o \in outbox /\ o.tally.n \in 1 .. MaxMsgs
            /\ Spent(o, p, day, o.tally.n)
        <3> SUFFICES ASSUME NEW o \in CountedReplies(p, day)
                     PROVE  /\ o \in outbox /\ o.tally.n \in 1 .. MaxMsgs
                            /\ Spent(o, p, day, o.tally.n)
            OBVIOUS
        <3>1. /\ o \in outbox /\ o.text \in Replies /\ From[o.msg] = p /\ ~ Exempt(o.msg)
              /\ o.tally.n # 0 /\ o.tally.day = day
            BY DEF CountedReplies
        <3>2. o.tally.n \in Nat
            BY <3>1 DEF TypeInv, TypeOK, Tally
        <3> QED
            BY <3>1, <3>2, QuotaAssumption DEF QuotaInv, ServedWithin, Within, Spent
    <2>2. number \in Injection(CountedReplies(p, day), 1 .. MaxMsgs)
        <3>1. number \in [CountedReplies(p, day) -> 1 .. MaxMsgs]
            BY <2>1
        <3>2. ASSUME NEW oa \in CountedReplies(p, day), NEW ob \in CountedReplies(p, day),
                     number[oa] = number[ob]
              PROVE  oa = ob
            BY <2>1, <3>2 DEF QuotaInv, NumbersOwned, OneOwner
        <3> QED
            BY <3>1, <3>2 DEF Injection, IsInjective
    <2>3. IsFiniteSet(1 .. MaxMsgs) /\ Cardinality(1 .. MaxMsgs) = MaxMsgs
        BY QuotaAssumption, FS_Interval
    <2> HIDE DEF number
    <2> QED
        BY <2>2, <2>3, FS_Injection
<1> QED
    BY <1>1, <1>2, <1>3, TypeInvHolds, PTL DEF Spec

-----------------------------------------------------------------------------
(***************************************************************************)
(* The stored conversation is made of whole exchanges: so is what a saver  *)
(* has read and not written yet, since the cut of loadHistory falls        *)
(* between two exchanges and the saver adds one of its sender's, answered. *)
(***************************************************************************)
Whole(p, turns) ==
    \E k \in Nat :
        /\ Len(turns) = 2 * k
        /\ \A i \in 1 .. k : \E m \in Messages :
            /\ turns[2 * i - 1] = [role |-> "user", msg |-> m]
            /\ turns[2 * i] = [role |-> "model", msg |-> m]
            /\ From[m] = p /\ Replied(m)

HistInv ==
    /\ \A p \in Phones : Whole(p, hist[p]) /\ Len(hist[p]) <= MaxHistory + 2
    /\ \A s \in savers : s.at = "set" =>
        Whole(SaverPhone(s), s.snap) /\ Len(s.snap) <= MaxHistory

LEMMA HalfOfMax == \E h \in Nat : MaxHistory = 2 * h
<1>1. MaxHistory \in Nat /\ MaxHistory % 2 = 0
    BY HistoryAssumption
<1>2. MaxHistory = 2 * (MaxHistory \div 2) /\ MaxHistory \div 2 \in Nat
    BY <1>1
<1> QED
    BY <1>2

LEMMA NothingIsWhole == \A p : Whole(p, <<>>)
BY DEF Whole

LEMMA RepliedStays ==
    ASSUME outbox \subseteq outbox', NEW m, Replied(m)
    PROVE  Replied(m)'
BY DEF Replied

LEMMA WholeStays ==
    ASSUME outbox \subseteq outbox', NEW p, NEW turns, Whole(p, turns)
    PROVE  Whole(p, turns)'
BY RepliedStays DEF Whole

\* Adding an exchange keeps a conversation whole.
LEMMA WholeGrows ==
    ASSUME NEW p, NEW turns \in Seq(Turn), Whole(p, turns),
           NEW m \in Messages, From[m] = p, Replied(m)
    PROVE  /\ Whole(p, turns \o Exchange(m))
           /\ Len(turns \o Exchange(m)) = Len(turns) + 2
<1> DEFINE longer == turns \o Exchange(m)
<1>1. /\ Exchange(m) \in Seq(Turn) /\ Len(Exchange(m)) = 2
      /\ Exchange(m)[1] = [role |-> "user", msg |-> m]
      /\ Exchange(m)[2] = [role |-> "model", msg |-> m]
    BY ExchangeType DEF Exchange
<1>2. /\ Len(longer) = Len(turns) + 2
      /\ \A i \in 1 .. Len(turns) + 2 :
            longer[i] = IF i <= Len(turns) THEN turns[i] ELSE Exchange(m)[i - Len(turns)]
    <2> DEFINE added == Exchange(m)
    <2>1. added \in Seq(Turn) /\ Len(added) = 2
        BY <1>1
    <2> HIDE DEF added
    <2>2. /\ Len(turns \o added) = Len(turns) + Len(added)
          /\ \A i \in 1 .. Len(turns) + Len(added) :
                (turns \o added)[i] = IF i <= Len(turns) THEN turns[i] ELSE added[i - Len(turns)]
        BY <2>1, ConcatProperties
    <2> QED
        BY <2>1, <2>2 DEF added
<1>3. PICK k \in Nat :
        /\ Len(turns) = 2 * k
        /\ \A i \in 1 .. k : \E n \in Messages :
            /\ turns[2 * i - 1] = [role |-> "user", msg |-> n]
            /\ turns[2 * i] = [role |-> "model", msg |-> n]
            /\ From[n] = p /\ Replied(n)
    BY DEF Whole
<1> HIDE DEF longer
<1>4. Len(longer) = 2 * (k + 1) /\ k + 1 \in Nat
    BY <1>2, <1>3
<1>5. ASSUME NEW i \in 1 .. k + 1
      PROVE  \E n \in Messages :
                /\ longer[2 * i - 1] = [role |-> "user", msg |-> n]
                /\ longer[2 * i] = [role |-> "model", msg |-> n]
                /\ From[n] = p /\ Replied(n)
    <2>1. CASE i \in 1 .. k
        <3>1. longer[2 * i - 1] = turns[2 * i - 1] /\ longer[2 * i] = turns[2 * i]
            BY <1>2, <1>3, <2>1
        <3> QED
            BY <1>3, <2>1, <3>1
    <2>2. CASE i = k + 1
        <3>1. longer[2 * i - 1] = Exchange(m)[1] /\ longer[2 * i] = Exchange(m)[2]
            BY <1>2, <1>3, <2>2
        <3> QED
            BY <1>1, <3>1
    <2> QED
        BY <2>1, <2>2
<1> QED
    BY <1>2, <1>4, <1>5 DEF longer, Whole

\* So does the cut of loadHistory, the maximum being even.
LEMMA WholeRecent ==
    ASSUME NEW p, NEW turns \in Seq(Turn), Whole(p, turns)
    PROVE  Whole(p, Recent(turns)) /\ Len(Recent(turns)) <= MaxHistory
<1>0. Len(turns) \in Nat /\ turns \in [1 .. Len(turns) -> Turn] /\ MaxHistory \in Nat
    BY LenProperties, HistoryAssumption
<1>1. CASE Len(turns) > MaxHistory
    <2> DEFINE first == Len(turns) - MaxHistory + 1
    <2>1. PICK k \in Nat :
            /\ Len(turns) = 2 * k
            /\ \A i \in 1 .. k : \E n \in Messages :
                /\ turns[2 * i - 1] = [role |-> "user", msg |-> n]
                /\ turns[2 * i] = [role |-> "model", msg |-> n]
                /\ From[n] = p /\ Replied(n)
        BY DEF Whole
    <2>2. PICK h \in Nat : MaxHistory = 2 * h
        BY HalfOfMax
    <2>3. first \in Int /\ \A i \in first .. Len(turns) : turns[i] \in Turn
        BY <1>0, <1>1
    <2>4. /\ Len(Recent(turns)) = MaxHistory
          /\ \A i \in 1 .. MaxHistory : Recent(turns)[i] = turns[first + i - 1]
        BY <1>0, <1>1, <2>3, SubSeqProperties DEF Recent
    <2>5. ASSUME NEW i \in 1 .. h
          PROVE  \E n \in Messages :
                    /\ Recent(turns)[2 * i - 1] = [role |-> "user", msg |-> n]
                    /\ Recent(turns)[2 * i] = [role |-> "model", msg |-> n]
                    /\ From[n] = p /\ Replied(n)
        <3>1. i + (k - h) \in 1 .. k
            BY <1>1, <2>1, <2>2
        <3>2. /\ Recent(turns)[2 * i - 1] = turns[2 * (i + (k - h)) - 1]
              /\ Recent(turns)[2 * i] = turns[2 * (i + (k - h))]
            <4>1. 2 * i - 1 \in 1 .. MaxHistory /\ 2 * i \in 1 .. MaxHistory
                BY <2>2
            <4>2. /\ first + (2 * i - 1) - 1 = 2 * (i + (k - h)) - 1
                  /\ first + 2 * i - 1 = 2 * (i + (k - h))
                BY <2>1, <2>2
            <4> HIDE DEF first
            <4> QED
                BY <2>4, <4>1, <4>2
        <3> QED
            BY <2>1, <3>1, <3>2
    <2>6. Whole(p, Recent(turns))
        BY <2>2, <2>4, <2>5 DEF Whole
    <2> QED
        BY <1>0, <2>4, <2>6
<1>2. CASE ~ (Len(turns) > MaxHistory)
    BY <1>0, <1>2 DEF Recent
<1> QED
    BY <1>1, <1>2

\* What a saver's step does to the savers and to the history.
LEMMA SaverSteps ==
    ASSUME TypeInv, NEW s \in savers, Save(s)
    PROVE  \/ /\ \E turns \in {Recent(hist[SaverPhone(s)]), <<>>} : Loaded(s, turns)
              /\ s.at = "load" /\ hist' = hist
           \/ /\ Advance(s, "user") /\ s.at = "set"
              /\ \/ hist' = hist
                 \/ hist' = [hist EXCEPT ![SaverPhone(s)] = s.snap \o Exchange(s.msg)]
           \/ /\ Advance(s, "model") \/ savers' = savers \ {s}
              /\ s.at \in {"user", "model"} /\ hist' = hist
<1> USE DEF redis
<1>1. CASE Load(s) \/ LoadFails(s)
    BY <1>1 DEF Load, LoadFails
<1>2. CASE Store(s) \/ StoreFails(s)
    BY <1>2 DEF Store, StoreFails
<1>3. CASE Archive(s)
    BY <1>3 DEF Archive
<1> QED
    BY <1>1, <1>2, <1>3 DEF Save

LEMMA HistSave ==
    ASSUME TypeInv, ArchiveInv, HistInv, NEW s \in savers, Save(s)
    PROVE  HistInv'
<1> DEFINE p == SaverPhone(s)
<1>1. /\ s \in Saver /\ p \in Phones /\ hist[p] \in Seq(Turn) /\ s.snap \in Seq(Turn)
      /\ s.msg \in Messages /\ From[s.msg] = p
    BY MessagesAssumption DEF TypeInv, TypeOK, Saver, SaverPhone
<1>2. outbox' = outbox
    BY SaveKeeps
<1>3. \A q, turns : Whole(q, turns)' <=> Whole(q, turns)
    BY <1>2 DEF Whole, Replied
<1>4. Replied(s.msg)
    BY DEF ArchiveInv, SaversAnswered, AnsweredBy, Replied
<1>5. ASSUME NEW t \in savers', t.at = "set"
      PROVE  Whole(SaverPhone(t), t.snap) /\ Len(t.snap) <= MaxHistory
    <2>1. CASE t \in savers
        BY <1>5, <2>1 DEF HistInv
    <2>2. CASE t \notin savers
        <3>1. \E turns \in {Recent(hist[p]), <<>>} :
                t = [s EXCEPT !.at = "set", !.snap = turns]
            <4>1. CASE Advance(s, "user") \/ Advance(s, "model") \/ savers' = savers \ {s}
                BY <1>1, <1>5, <2>2, <4>1 DEF Advance, Saver
            <4>2. CASE \E turns \in {Recent(hist[p]), <<>>} : Loaded(s, turns)
                BY <1>5, <2>2, <4>2 DEF Loaded
            <4> QED
                BY <4>1, <4>2, SaverSteps
        <3>2. PICK turns \in {Recent(hist[p]), <<>>} :
                t = [s EXCEPT !.at = "set", !.snap = turns]
            BY <3>1
        <3>3. t.snap = turns /\ SaverPhone(t) = p
            BY <1>1, <3>2 DEF Saver, SaverPhone
        <3>4. Whole(p, turns) /\ Len(turns) <= MaxHistory
            <4>1. Len(<<>>) <= MaxHistory
                BY HistoryAssumption
            <4> QED
                BY <1>1, <4>1, WholeRecent, NothingIsWhole DEF HistInv
        <3> QED
            BY <3>3, <3>4
    <2> QED
        BY <2>1, <2>2
<1>6. ASSUME NEW q \in Phones PROVE Whole(q, hist'[q]) /\ Len(hist'[q]) <= MaxHistory + 2
    <2>1. CASE hist'[q] = hist[q]
        BY <2>1 DEF HistInv
    <2>2. CASE hist'[q] # hist[q]
        <3>1. s.at = "set" /\ q = p /\ hist'[q] = s.snap \o Exchange(s.msg)
            BY <2>2, SaverSteps DEF TypeInv, TypeOK
        <3>2. Whole(p, s.snap) /\ Len(s.snap) <= MaxHistory
            BY <3>1 DEF HistInv
        <3>3. /\ Whole(p, s.snap \o Exchange(s.msg))
              /\ Len(s.snap \o Exchange(s.msg)) = Len(s.snap) + 2
            BY <1>1, <1>4, <3>2, WholeGrows
        <3>4. Len(s.snap) \in Nat /\ MaxHistory \in Nat
            BY <1>1, LenProperties, HistoryAssumption
        <3> QED
            BY <3>1, <3>2, <3>3, <3>4
    <2> QED
        BY <2>1, <2>2
<1>7. \A t \in savers' : SaverPhone(t)' = SaverPhone(t)
    BY DEF SaverPhone
<1> QED
    BY <1>3, <1>5, <1>6, <1>7 DEF HistInv

LEMMA HistProcess ==
    ASSUME TypeInv, HistInv, NEW d \in Deliveries, Receive(d) \/ Process(d)
    PROVE  HistInv'
<1>1. hist' = hist /\ outbox \subseteq outbox'
    BY ProcessStores, ProcessKeeps DEF KeepsToItself
<1>2. \A s \in savers' : s.at = "set" => s \in savers
    BY NewSaver
<1> QED
    BY <1>1, <1>2, WholeStays DEF HistInv, SaverPhone

LEMMA HistEnvironment == TypeInv /\ HistInv /\ Environment => HistInv'
<1> SUFFICES ASSUME TypeInv, HistInv, Environment PROVE HistInv'
    OBVIOUS
<1>1. outbox \subseteq outbox' /\ savers' \subseteq savers
    BY EnvironmentKeeps DEF Crash
<1>2. \A p \in Phones : hist'[p] = hist[p] \/ hist'[p] = <<>>
    BY DEF Environment, Midnight, Crash, DedupExpires, OptInExpires, HistExpires, redis,
           TypeInv, TypeOK
<1>3. \A p \in Phones : Whole(p, hist'[p]) /\ Len(hist'[p]) <= MaxHistory + 2
    <2>1. Len(<<>>) <= MaxHistory + 2
        BY HistoryAssumption
    <2> QED
        BY <1>2, <2>1, NothingIsWhole DEF HistInv
<1> QED
    BY <1>1, <1>3, WholeStays DEF HistInv, SaverPhone

LEMMA WholeIsExchanges ==
    ASSUME NEW p, NEW turns \in Seq(Turn), Whole(p, turns)
    PROVE  /\ Len(turns) % 2 = 0
           /\ \A i \in 1 .. Len(turns) \div 2 :
                LET m == turns[2 * i].msg IN
                /\ SubSeq(turns, 2 * i - 1, 2 * i) = Exchange(m)
                /\ From[m] = p /\ Replied(m)
<1>1. PICK k \in Nat :
        /\ Len(turns) = 2 * k
        /\ \A i \in 1 .. k : \E n \in Messages :
            /\ turns[2 * i - 1] = [role |-> "user", msg |-> n]
            /\ turns[2 * i] = [role |-> "model", msg |-> n]
            /\ From[n] = p /\ Replied(n)
    BY DEF Whole
<1>2. Len(turns) % 2 = 0 /\ Len(turns) \div 2 = k
    BY <1>1
<1>3. turns \in [1 .. Len(turns) -> Turn]
    BY LenProperties
<1>4. ASSUME NEW i \in 1 .. k
      PROVE  LET m == turns[2 * i].msg IN
                /\ SubSeq(turns, 2 * i - 1, 2 * i) = Exchange(m)
                /\ From[m] = p /\ Replied(m)
    <2> DEFINE m == turns[2 * i].msg
    <2>1. PICK n \in Messages :
            /\ turns[2 * i - 1] = [role |-> "user", msg |-> n]
            /\ turns[2 * i] = [role |-> "model", msg |-> n]
            /\ From[n] = p /\ Replied(n)
        BY <1>1
    <2>2. m = n
        BY <2>1
    <2>3. \A j \in 2 * i - 1 .. 2 * i : turns[j] \in Turn
        BY <1>1, <1>3
    <2> DEFINE pair == SubSeq(turns, 2 * i - 1, 2 * i)
    <2>4. /\ pair \in Seq(Turn) /\ Len(pair) = 2
          /\ pair[1] = turns[2 * i - 1] /\ pair[2] = turns[2 * i]
        <3>1. /\ pair \in Seq(Turn)
              /\ Len(pair) = IF 2 * i - 1 <= 2 * i THEN 2 * i - (2 * i - 1) + 1 ELSE 0
              /\ \A j \in 1 .. 2 * i - (2 * i - 1) + 1 : pair[j] = turns[2 * i - 1 + j - 1]
            <4> DEFINE a == 2 * i - 1
                       b == 2 * i
            <4>1. a \in Int /\ b \in Int /\ \A j \in a .. b : turns[j] \in Turn
                BY <2>3
            <4> HIDE DEF a, b
            <4>2. /\ SubSeq(turns, a, b) \in Seq(Turn)
                  /\ Len(SubSeq(turns, a, b)) = IF a <= b THEN b - a + 1 ELSE 0
                  /\ \A j \in 1 .. b - a + 1 : SubSeq(turns, a, b)[j] = turns[a + j - 1]
                BY <4>1, SubSeqProperties
            <4> QED
                BY <4>2 DEF a, b
        <3>2. 2 * i - (2 * i - 1) + 1 = 2 /\ 2 * i - 1 + 1 - 1 = 2 * i - 1
              /\ 2 * i - 1 + 2 - 1 = 2 * i
            OBVIOUS
        <3> HIDE DEF pair
        <3> QED
            BY <3>1, <3>2
    <2>5. /\ Exchange(n) \in Seq(Turn) /\ Len(Exchange(n)) = 2
          /\ Exchange(n)[1] = [role |-> "user", msg |-> n]
          /\ Exchange(n)[2] = [role |-> "model", msg |-> n]
        BY ExchangeType DEF Exchange
    <2> HIDE DEF pair
    <2>6. \A j \in 1 .. Len(pair) : pair[j] = Exchange(n)[j]
        BY <2>1, <2>4, <2>5
    <2>7. pair = Exchange(n)
        BY <2>4, <2>5, <2>6, SeqEqual
    <2> QED
        BY <2>1, <2>2, <2>7 DEF pair
<1> QED
    BY <1>2, <1>4

\* The stored conversation is a sequence of whole exchanges of that sender,
\* answered, at most one longer than the cap (loadHistory, saveHistoryAsync).
THEOREM HistoryStaysWhole == Spec => []HistoryOfExchanges
<1>1. Init => HistInv
    <2>1. Len(<<>>) <= MaxHistory + 2
        BY HistoryAssumption
    <2> QED
        BY <2>1, NothingIsWhole DEF Init, HistInv
<1>2. TypeInv /\ ArchiveInv /\ HistInv /\ [Next]_vars => HistInv'
    <2> SUFFICES ASSUME TypeInv, ArchiveInv, HistInv, [Next]_vars PROVE HistInv'
        OBVIOUS
    <2>1. CASE UNCHANGED vars
        BY <2>1, WholeStays DEF vars, redis, HistInv, SaverPhone
    <2> QED
        BY <2>1, HistSave, HistProcess, HistEnvironment DEF Next, Terminated
<1>3. TypeInv /\ HistInv => HistoryOfExchanges
    BY WholeIsExchanges DEF TypeInv, TypeOK, HistInv, HistoryOfExchanges
<1> QED
    BY <1>1, <1>2, <1>3, TypeInvHolds, ArchiveInvHolds, PTL DEF Spec

-----------------------------------------------------------------------------
(***************************************************************************)
(* Lost exchanges.  While a sender is undisturbed, whoever of its savers   *)
(* has read the history has read the one stored, and is the only one to    *)
(* have read it: writing it back then loses nothing.                       *)
(***************************************************************************)
Pending(s) == s.at \in {"load", "set"}
Kept(o, p) == \E i \in 1 .. Len(hist[p]) : hist[p][i].msg = o.msg
SavedLater(o) ==
    \E s \in savers : s.delivery = o.delivery /\ s.msg = o.msg /\ Pending(s)

ReadAlone ==
    \A s \in savers : s.at = "set" /\ SaverPhone(s) \notin disturbed =>
        /\ s.snap = hist[SaverPhone(s)]
        /\ \A t \in savers : SaverPhone(t) = SaverPhone(s) /\ t.at = "set" => t = s

Recorded ==
    \A o \in outbox : o.text \in Replies /\ o.ok /\ From[o.msg] \notin disturbed =>
        Kept(o, From[o.msg]) \/ SavedLater(o)

LossInv == ReadAlone /\ Recorded

LEMMA LossProcess ==
    ASSUME TypeInv, LossInv, NEW d \in Deliveries, Receive(d) \/ Process(d)
    PROVE  LossInv'
<1>1. hist' = hist /\ disturbed' = disturbed
    BY ProcessStores
<1>2. \A s \in savers' : s.at = "set" => s \in savers
    BY NewSaver
<1>3. ReadAlone'
    BY <1>1, <1>2 DEF LossInv, ReadAlone, SaverPhone
<1>4. CASE Reply(d)
    <2>1. PICK sent : /\ outbox' = outbox \union {sent}
                      /\ Answer(d, sent)
                      /\ sent.ok => [delivery |-> d, msg |-> Msg(d), at |-> "load",
                                     snap |-> <<>>] \in savers'
                      /\ savers \subseteq savers'
        BY <1>4, ReplySent, Zenon
    <2>2. ASSUME NEW o, SavedLater(o) PROVE SavedLater(o)'
        BY <2>1, <2>2 DEF SavedLater, Pending
    <2>3. sent.ok => SavedLater(sent)'
        <3> DEFINE started == [delivery |-> d, msg |-> Msg(d), at |-> "load", snap |-> <<>>]
        <3>1. started.delivery = d /\ started.msg = Msg(d) /\ started.at = "load"
            OBVIOUS
        <3>2. sent.delivery = d /\ sent.msg = Msg(d) /\ (sent.ok => started \in savers')
            BY <2>1, Zenon DEF Answer
        <3> HIDE DEF started
        <3> QED
            BY <3>1, <3>2 DEF SavedLater, Pending
    <2>4. ASSUME NEW o \in outbox', o.text \in Replies, o.ok, From[o.msg] \notin disturbed
          PROVE  Kept(o, From[o.msg])' \/ SavedLater(o)'
        <3>1. CASE o \in outbox
            <4>1. Kept(o, From[o.msg]) \/ SavedLater(o)
                BY <2>4, <3>1, Zenon DEF LossInv, Recorded
            <4> QED
                BY <1>1, <2>2, <4>1 DEF Kept
        <3>2. CASE o = sent
            BY <2>3, <2>4, <3>2, Zenon
        <3> QED
            BY <2>1, <3>1, <3>2, Zenon
    <2>5. Recorded'
        BY <1>1, <2>4, Zenon DEF Recorded
    <2> QED
        BY <1>3, <2>5 DEF LossInv
<1>5. CASE ~ Reply(d)
    <2>1. savers' = savers /\ \A o \in outbox' : o.text \in Replies => o \in outbox
        BY <1>5, OnlyReplies
    <2>2. Recorded'
        BY <1>1, <2>1 DEF LossInv, Recorded, Kept, SavedLater, Pending
    <2> QED
        BY <1>3, <2>2 DEF LossInv
<1> QED
    BY <1>4, <1>5

\* The sender of a saver that reads is undisturbed only if what was read is
\* all there is and no other saver has read it.
LEMMA LossLoad ==
    ASSUME TypeInv, LossInv, NEW s \in savers, Load(s) \/ LoadFails(s)
    PROVE  LossInv'
<1> DEFINE p == SaverPhone(s)
<1>1. s \in Saver /\ p = From[s.msg]
    BY DEF TypeInv, TypeOK, Saver, SaverPhone
<1>2. PICK turns : /\ Loaded(s, turns) /\ s.at = "load"
                   /\ hist' = hist /\ outbox' = outbox
                   /\ disturbed \subseteq disturbed'
                   /\ p \notin disturbed' => turns = hist[p] /\ ~ Overlapped(s)
    BY DEF Load, LoadFails, redis
<1> DEFINE read == [s EXCEPT !.at = "set", !.snap = turns]
<1>3. /\ read.delivery = s.delivery /\ read.msg = s.msg
      /\ read.at = "set" /\ read.snap = turns
    BY <1>1 DEF Saver
<1>4. savers' = (savers \ {s}) \union {read}
    BY <1>2 DEF Loaded
<1> HIDE DEF read
<1>5. SaverPhone(read) = p
    BY <1>1, <1>3 DEF SaverPhone
<1>6. ASSUME NEW t \in savers', t.at = "set", SaverPhone(t) \notin disturbed'
      PROVE  /\ t.snap = hist[SaverPhone(t)]
             /\ \A u \in savers' : SaverPhone(u) = SaverPhone(t) /\ u.at = "set" => u = t
    <2>1. CASE SaverPhone(t) = p
        <3>1. \A u \in savers \ {s} : ~ (SaverPhone(u) = p /\ u.at = "set")
            BY <1>2, <1>6, <2>1 DEF Overlapped
        <3>2. t = read
            BY <1>4, <1>6, <2>1, <3>1
        <3> QED
            BY <1>2, <1>3, <1>4, <1>5, <1>6, <2>1, <3>1, <3>2
    <2>2. CASE SaverPhone(t) # p
        <3>1. t \in savers /\ SaverPhone(t) \notin disturbed
            BY <1>2, <1>4, <1>5, <1>6, <2>2
        <3> QED
            BY <1>4, <1>5, <1>6, <2>2, <3>1 DEF LossInv, ReadAlone
    <2> QED
        BY <2>1, <2>2
<1>7. \A o : SavedLater(o) => SavedLater(o)'
    BY <1>2, <1>3, <1>4 DEF SavedLater, Pending
<1>8. Recorded'
    BY <1>2, <1>7 DEF LossInv, Recorded, Kept
<1>9. ReadAlone'
    BY <1>2, <1>6 DEF ReadAlone, SaverPhone
<1> QED
    BY <1>8, <1>9 DEF LossInv

LEMMA LossStore ==
    ASSUME TypeInv, LossInv, NEW s \in savers, Store(s) \/ StoreFails(s)
    PROVE  LossInv'
<1> DEFINE p == SaverPhone(s)
           written == [s EXCEPT !.at = "user"]
<1>1. /\ s \in Saver /\ p = From[s.msg] /\ p \in Phones /\ s.msg \in Messages
      /\ s.snap \in Seq(Turn)
    BY MessagesAssumption DEF TypeInv, TypeOK, Saver, SaverPhone
<1>2. /\ s.at = "set" /\ outbox' = outbox /\ disturbed \subseteq disturbed'
      /\ savers' = (savers \ {s}) \union {written}
      /\ \A q \in Phones \ {p} : hist'[q] = hist[q]
      /\ p \notin disturbed' => hist'[p] = s.snap \o Exchange(s.msg)
    BY <1>1 DEF Store, StoreFails, Advance, redis, history, TypeInv, TypeOK
<1>3. written.at = "user" /\ written.msg = s.msg /\ SaverPhone(written) = p
    BY <1>1 DEF Saver, SaverPhone
<1> HIDE DEF written
<1>4. ASSUME NEW t \in savers', t.at = "set", SaverPhone(t) \notin disturbed'
      PROVE  /\ t.snap = hist'[SaverPhone(t)]
             /\ \A u \in savers' : SaverPhone(u) = SaverPhone(t) /\ u.at = "set" => u = t
    <2>1. t \in savers /\ t # s /\ SaverPhone(t) \notin disturbed
        BY <1>2, <1>3, <1>4
    <2>2. SaverPhone(t) # p
        BY <1>2, <1>4, <2>1 DEF LossInv, ReadAlone
    <2>3. SaverPhone(t) \in Phones
        BY <2>1, MessagesAssumption DEF TypeInv, TypeOK, SaverPhone
    <2> QED
        BY <1>2, <1>3, <1>4, <2>1, <2>2, <2>3 DEF LossInv, ReadAlone
<1>5. ASSUME NEW o \in outbox, o.text \in Replies, o.ok, From[o.msg] \notin disturbed'
      PROVE  Kept(o, From[o.msg])' \/ SavedLater(o)'
    <2>1. From[o.msg] \in Phones /\ From[o.msg] \notin disturbed
        BY <1>2, <1>5, MessagesAssumption DEF TypeInv, TypeOK
    <2>2. Kept(o, From[o.msg]) \/ SavedLater(o)
        BY <1>5, <2>1, Zenon DEF LossInv, Recorded
    <2>3. CASE From[o.msg] # p
        <3>1. Kept(o, From[o.msg]) => Kept(o, From[o.msg])'
            BY <1>2, <2>1, <2>3 DEF Kept
        <3>2. SavedLater(o) => SavedLater(o)'
            BY <1>1, <1>2, <2>3 DEF SavedLater
        <3> QED
            BY <2>2, <3>1, <3>2
    <2>4. CASE From[o.msg] = p
        <3> DEFINE added == Exchange(s.msg)
        <3>1. /\ s.snap = hist[p] /\ hist'[p] = s.snap \o added
              /\ added \in Seq(Turn) /\ Len(added) = 2 /\ added[1].msg = s.msg
            BY <1>1, <1>2, <1>5, <2>1, <2>4, ExchangeType DEF LossInv, ReadAlone, Exchange
        <3> HIDE DEF added
        <3>2. /\ Len(s.snap \o added) = Len(s.snap) + Len(added) /\ Len(s.snap) \in Nat
              /\ \A i \in 1 .. Len(s.snap) + Len(added) :
                    (s.snap \o added)[i] = IF i <= Len(s.snap) THEN s.snap[i]
                                           ELSE added[i - Len(s.snap)]
            BY <1>1, <3>1, ConcatProperties, LenProperties
        <3>3. Kept(o, p) => Kept(o, p)'
            BY <3>1, <3>2 DEF Kept
        <3>4. o.msg = s.msg => Kept(o, p)'
            <4>1. /\ Len(s.snap) + 1 \in 1 .. Len(hist'[p])
                  /\ hist'[p][Len(s.snap) + 1] = added[1]
                BY <3>1, <3>2
            <4> QED
                BY <3>1, <4>1 DEF Kept
        <3>5. SavedLater(o) /\ o.msg # s.msg => SavedLater(o)'
            BY <1>2 DEF SavedLater
        <3> QED
            BY <2>2, <2>4, <3>3, <3>4, <3>5
    <2> QED
        BY <2>3, <2>4
<1>6. Recorded'
    BY <1>2, <1>5, Zenon DEF Recorded
<1>7. ReadAlone'
    BY <1>2, <1>4 DEF ReadAlone, SaverPhone
<1> QED
    BY <1>6, <1>7 DEF LossInv

LEMMA LossArchive ==
    ASSUME TypeInv, LossInv, NEW s \in savers, Archive(s)
    PROVE  LossInv'
<1>1. /\ UNCHANGED <<hist, outbox, disturbed>> /\ s.at \in {"user", "model"}
      /\ Advance(s, "model") \/ savers' = savers \ {s}
    BY DEF Archive, redis, history
<1>2. s \in Saver
    BY DEF TypeInv, TypeOK, Saver
<1>3. \A t : Pending(t) => (t \in savers' <=> t \in savers)
    BY <1>1, <1>2 DEF Advance, Saver, Pending
<1>4. ReadAlone'
    BY <1>1, <1>3 DEF LossInv, ReadAlone, Pending, SaverPhone
<1>5. \A o : SavedLater(o) <=> SavedLater(o)'
    BY <1>3 DEF SavedLater, Pending
<1>6. Recorded'
    BY <1>1, <1>5 DEF LossInv, Recorded, Kept
<1> QED
    BY <1>4, <1>6 DEF LossInv

LEMMA LossEnvironment == TypeInv /\ LossInv /\ Environment => LossInv'
<1> SUFFICES ASSUME TypeInv, LossInv, Environment PROVE LossInv'
    OBVIOUS
<1> USE DEF redis, history
<1>1. CASE Midnight
    BY <1>1 DEF Midnight, LossInv, ReadAlone, Recorded, Kept, SavedLater, Pending, SaverPhone
<1>2. ASSUME NEW m \in Messages, DedupExpires(m) PROVE LossInv'
    BY <1>2 DEF DedupExpires, LossInv, ReadAlone, Recorded, Kept, SavedLater, Pending, SaverPhone
<1>3. ASSUME NEW p \in Phones, OptInExpires(p) PROVE LossInv'
    BY <1>3 DEF OptInExpires, LossInv, ReadAlone, Recorded, Kept, SavedLater, Pending, SaverPhone
<1>4. ASSUME NEW p \in Phones, HistExpires(p) PROVE LossInv'
    <2>1. /\ UNCHANGED <<savers, outbox>> /\ disturbed' = disturbed \union {p}
          /\ \A q : q # p => hist'[q] = hist[q]
        BY <1>4 DEF HistExpires, TypeInv, TypeOK
    <2> QED
        BY <2>1 DEF LossInv, ReadAlone, Recorded, Kept, SavedLater, Pending, SaverPhone
<1>5. CASE Crash
    <2>1. /\ savers' = {} /\ UNCHANGED <<hist, outbox>> /\ disturbed \subseteq disturbed'
          /\ \A s \in savers : Pending(s) => SaverPhone(s) \in disturbed'
        BY <1>5 DEF Crash, Pending
    <2>2. \A o : SavedLater(o) => From[o.msg] \in disturbed'
        BY <2>1 DEF SavedLater, SaverPhone
    <2>3. Recorded'
        BY <2>1, <2>2 DEF LossInv, Recorded, Kept
    <2> QED
        BY <2>1, <2>3 DEF LossInv, ReadAlone
<1> QED
    BY <1>1, <1>2, <1>3, <1>4, <1>5 DEF Environment

\* An answered message is missing from the stored conversation only if its
\* saver has not written yet or the sender was disturbed (saveHistoryAsync).
THEOREM NothingElseLosesTurns == Spec => []LossNeedsDisturbance
<1>1. Init => LossInv
    BY DEF Init, LossInv, ReadAlone, Recorded
<1>2. TypeInv /\ LossInv /\ [Next]_vars => LossInv'
    <2> SUFFICES ASSUME TypeInv, LossInv, [Next]_vars PROVE LossInv'
        OBVIOUS
    <2>1. CASE UNCHANGED vars
        BY <2>1 DEF vars, redis, history, LossInv, ReadAlone, Recorded, Kept, SavedLater, Pending,
                    SaverPhone
    <2> QED
        BY <2>1, LossProcess, LossLoad, LossStore, LossArchive, LossEnvironment
        DEF Next, Save, Terminated
<1>3. LossInv => LossNeedsDisturbance
    BY Zenon DEF LossInv, Recorded, LossNeedsDisturbance, Kept, SavedLater, Pending
<1> QED
    BY <1>1, <1>2, <1>3, TypeInvHolds, PTL DEF Spec

-----------------------------------------------------------------------------
(***************************************************************************)
(* One answer per message.  While a delivery works on a message whose key  *)
(* never expired, and up to its answer, no delivery has sent one.          *)
(***************************************************************************)
AnsweredOnce ==
    \A m \in Messages \ lapsed : \A o1, o2 \in outbox :
        o1.msg = m /\ o2.msg = m /\ o1.text \in Answers /\ o2.text \in Answers => o1 = o2

Unanswered(m) == \A o \in outbox : o.msg = m => o.text \notin Answers

AnswerToCome ==
    \A d \in Deliveries, m \in Messages \ lapsed :
        WorkingOn(d, m) /\ pc[d] # "notify" => Unanswered(m)

Once == AnsweredOnce /\ AnswerToCome

\* Goes on with the message it had, or begins with one it claims; and says
\* nothing that answers it.
Mute(d) ==
    /\ \A o \in outbox' \ outbox : o.text \notin Answers
    /\ pc'[d] \in Working \ {"notify"} =>
         \/ pc[d] \in Working \ {"notify"} /\ rest'[d] = rest[d]
         \/ Claim(d) /\ rest'[d] = rest[d]

\* Answers, and has nothing more to say but to the advisor.
Answering(d) ==
    /\ pc[d] \in Working \ {"notify"} /\ pc'[d] \in {"loop", "notify"}
    /\ \E o : /\ outbox' = outbox \union {o}
              /\ o.delivery = d /\ o.msg = Msg(d) /\ o.text \in Answers

LEMMA SendAdds ==
    ASSUME NEW d \in Deliveries, NEW text, NEW ok, SendText(d, text, ok)
    PROVE  \E o : /\ outbox' = outbox \union {o} /\ o.text = text
                  /\ o.delivery = d /\ o.msg = Msg(d)
<1> DEFINE o == [delivery |-> d, msg |-> Msg(d), text |-> text, ok |-> ok, tally |-> tally[d]]
<1>1. outbox' = outbox \union {o} /\ o.text = text /\ o.delivery = d /\ o.msg = Msg(d)
    BY DEF SendText
<1> HIDE DEF o
<1> QED
    BY <1>1

LEMMA MuteOrAnswering ==
    ASSUME TypeInv, NEW d \in Deliveries, Receive(d) \/ Process(d)
    PROVE  Mute(d) \/ Answering(d)
<1> USE DEF TypeInv, TypeOK, Working, Locations, Mute
<1>1. CASE Receive(d)
    BY <1>1 DEF Receive
<1>2. CASE Finish(d) \/ Claim(d) \/ CountFails(d) \/ Download(d) \/ Gemini(d)
    BY <1>2 DEF Finish, Claim, CountFails, Download, Gemini, Goto
<1>3. CASE Skip(d) \/ ClaimFails(d)
    BY <1>3 DEF Skip, ClaimFails, Leave
<1>4. CASE Check(d) \/ OptIn(d)
    BY <1>4 DEF Check, OptIn, Leave, Goto
<1>5. CASE Count(d)
    BY <1>5 DEF Count
<1>6. CASE Disclaim(d)
    <2>1. PICK ok \in BOOLEAN : SendText(d, "disclaimer", ok)
        BY <1>6 DEF Disclaim
    <2>2. \A o \in outbox' \ outbox : o.text \notin Answers
        <3>1. \A o \in outbox' \ outbox : o.text = "disclaimer"
            BY <2>1, SendAdds
        <3> QED
            BY <3>1 DEF Answers, Replies
    <2> QED
        BY <1>6, <2>2 DEF Disclaim, Goto
<1>7. CASE Notify(d)
    <2>1. PICK ok \in BOOLEAN : SendText(d, "advisor", ok)
        BY <1>7 DEF Notify
    <2>2. \A o \in outbox' \ outbox : o.text \notin Answers
        <3>1. \A o \in outbox' \ outbox : o.text = "advisor"
            BY <2>1, SendAdds
        <3> QED
            BY <3>1 DEF Answers, Replies
    <2> QED
        BY <1>7, <2>2 DEF Notify, Leave
<1>8. CASE Refuse(d) \/ Apologise(d) \/ Reply(d)
    <2>1. PICK ok \in BOOLEAN, text \in Answers : SendText(d, text, ok)
        BY <1>8 DEF Refuse, Apologise, Reply, Answers, Replies
    <2>2. pc[d] \in Working \ {"notify"} /\ pc'[d] \in {"loop", "notify"}
        BY <1>8 DEF Refuse, Apologise, Reply, Leave, Goto
    <2> QED
        BY <2>1, <2>2, SendAdds DEF Answering
<1> QED
    BY <1>1, <1>2, <1>3, <1>4, <1>5, <1>6, <1>7, <1>8 DEF Process, Bounded

\* Nothing was said of a message nobody acted on.
LEMMA NobodyActed ==
    ASSUME TypeInv, ClaimedByKey, NEW m \in Messages, m \notin dedup, m \notin lapsed
    PROVE  Unanswered(m)
<1> SUFFICES ASSUME NEW o \in outbox, o.msg = m, o.text \in Answers
             PROVE  FALSE
    BY DEF Unanswered
<1>1. o.delivery \in Deliveries /\ o.text \in Texts
    BY DEF TypeInv, TypeOK
<1>2. ActedOn(o.delivery, m)
    BY <1>1 DEF ActedOn, Attempted
<1> QED
    BY <1>1, <1>2 DEF ClaimedByKey

LEMMA OnceProcess ==
    ASSUME TypeInv, OneDeliveryPerMessage, ClaimedByKey, Once,
           NEW d \in Deliveries, Receive(d) \/ Process(d)
    PROVE  Once'
<1>1. lapsed' = lapsed
    BY ProcessKeys
<1>2. KeepsToItself(d)
    BY ProcessKeeps
<1>3. CASE Mute(d)
    <2>1. ASSUME NEW m \in Messages, Unanswered(m) PROVE Unanswered(m)'
        BY <1>2, <1>3, <2>1 DEF Mute, Unanswered
    <2>2. AnsweredOnce'
        BY <1>1, <1>3 DEF Mute, Once, AnsweredOnce
    <2>3. ASSUME NEW e \in Deliveries, NEW m \in Messages \ lapsed, WorkingOn(e, m)',
                 pc'[e] # "notify"
          PROVE  Unanswered(m)
        <3>1. CASE e # d
            BY <1>2, <2>3, <3>1 DEF KeepsToItself, Once, AnswerToCome, WorkingOn, Msg
        <3>2. CASE e = d /\ ~ Claim(d)
            BY <1>3, <2>3, <3>2 DEF Mute, Once, AnswerToCome, WorkingOn, Msg
        <3>3. CASE e = d /\ Claim(d)
            <4>1. m = Msg(d) /\ Msg(d) \notin dedup
                BY <2>3, <3>3 DEF Claim, Goto, WorkingOn, Msg
            <4> QED
                BY <2>3, <4>1, NobodyActed
        <3> QED
            BY <3>1, <3>2, <3>3
    <2> QED
        BY <1>1, <2>1, <2>2, <2>3 DEF Once, AnswerToCome
<1>4. CASE Answering(d)
    <2>1. PICK o : /\ outbox' = outbox \union {o}
                   /\ o.delivery = d /\ o.msg = Msg(d) /\ o.text \in Answers
        BY <1>4 DEF Answering
    <2>2. Msg(d) \in Messages /\ WorkingOn(d, Msg(d)) /\ pc[d] # "notify"
        BY <1>4, MsgType DEF Answering, WorkingOn, TypeInv, AtWork
    <2>3. Msg(d) \notin lapsed => Unanswered(Msg(d))
        BY <2>2 DEF Once, AnswerToCome
    <2>4. AnsweredOnce'
        BY <1>1, <2>1, <2>3 DEF Once, AnsweredOnce, Unanswered
    <2>5. ASSUME NEW e \in Deliveries, NEW m \in Messages \ lapsed, WorkingOn(e, m)',
                 pc'[e] # "notify"
          PROVE  Unanswered(m)'
        <3>1. e # d
            BY <1>4, <2>5 DEF Answering, WorkingOn, Working, Locations
        <3>2. WorkingOn(e, m) /\ pc[e] # "notify"
            BY <1>2, <2>5, <3>1 DEF KeepsToItself, WorkingOn, Msg
        <3>3. m # Msg(d)
            BY <2>2, <3>1, <3>2 DEF OneDeliveryPerMessage, ActedOn
        <3> QED
            BY <2>1, <3>2, <3>3 DEF Once, AnswerToCome, Unanswered
    <2> QED
        BY <1>1, <2>4, <2>5 DEF Once, AnswerToCome
<1> QED
    BY <1>3, <1>4, MuteOrAnswering

LEMMA OnceElsewhere ==
    ASSUME TypeInv, Once, outbox' = outbox, lapsed \subseteq lapsed',
           Crash \/ UNCHANGED handlers
    PROVE  Once'
<1>1. \A d \in Deliveries : \A m : WorkingOn(d, m)' => WorkingOn(d, m) /\ pc'[d] = pc[d]
    BY DEF Crash, handlers, WorkingOn, Msg, Working, Locations
<1> QED
    BY <1>1 DEF Once, AnsweredOnce, AnswerToCome, Unanswered

LEMMA OnceHolds == Spec => []Once
<1>1. Init => Once
    BY DEF Init, Once, AnsweredOnce, AnswerToCome, Unanswered
<1>2. TypeInv /\ (OneDeliveryPerMessage /\ ClaimedByKey) /\ Once /\ [Next]_vars => Once'
    <2> SUFFICES ASSUME TypeInv, OneDeliveryPerMessage, ClaimedByKey, Once, [Next]_vars
                 PROVE  Once'
        OBVIOUS
    <2>1. lapsed \subseteq lapsed'
        BY KeysLapse
    <2>2. ASSUME NEW s \in savers, Save(s) PROVE Once'
        BY <2>1, <2>2, SaveKeeps, OnceElsewhere DEF handlers
    <2>3. CASE Environment
        BY <2>1, <2>3, EnvironmentKeeps, OnceElsewhere
    <2>4. CASE UNCHANGED vars
        BY <2>1, <2>4, OnceElsewhere DEF vars
    <2> QED
        BY <2>2, <2>3, <2>4, OnceProcess DEF Next, Terminated
<1> QED
    BY <1>1, <1>2, TypeInvHolds, ClaimsHold, PTL DEF Spec

\* A message is answered once at most, with a reply, a refusal or an apology,
\* however often Meta posts it, as long as its deduplication key has not
\* expired (processTextMessage, processImageMessage).
THEOREM OneAnswer == Spec => []AnsweredOnce
<1>1. Once => AnsweredOnce
    BY DEF Once
<1> QED
    BY <1>1, OnceHolds, PTL

-----------------------------------------------------------------------------
(***************************************************************************)
(* The channel does what Reception promises as long as no deduplication    *)
(* key expires: a message is answered with what its sender has read, is    *)
(* over when its key is set and nobody has it in hand, and what is kept    *)
(* are the rows of the archive.                                            *)
(***************************************************************************)
Received(m) == {o \in outbox : o.msg = m /\ o.ok /\ o.text \in Answers}
SaidTo == [m \in Messages |-> {o.text : o \in Received(m)}]
InHand(m) == \E d \in Deliveries : WorkingOn(d, m) \/ Saving(d, m)
Closed == {m \in dedup : ~ InHand(m)}
Rows == {r.msg : r \in archive}

Desk == INSTANCE Reception WITH answered <- SaidTo, over <- Closed, kept <- Rows

LEMMA KeyOfClaim ==
    ASSUME NEW d \in Deliveries, Receive(d) \/ Process(d)
    PROVE  dedup' = dedup \/ (Claim(d) /\ dedup' = dedup \union {Msg(d)})
BY DEF Process, Bounded, Receive, Finish, Skip, Claim, ClaimFails, Check, OptIn, Disclaim, Count,
       CountFails, Refuse, Notify, Download, Gemini, Apologise, Reply, redis

LEMMA SaversStay ==
    ASSUME TypeInv, NEW d \in Deliveries, Receive(d) \/ Process(d)
    PROVE  savers \subseteq savers'
<1>1. CASE Reply(d)
    BY <1>1, ReplySent, Zenon
<1>2. CASE ~ Reply(d)
    BY <1>2, OnlyReplies
<1> QED
    BY <1>1, <1>2

\* A step of a delivery takes its own message in hand or out of it.
LEMMA HandsOfOne ==
    ASSUME TypeInv, NEW d \in Deliveries, Receive(d) \/ Process(d)
    PROVE  /\ Closed' = Closed \/ Closed' = Closed \union {Msg(d)}
           /\ pc[d] \in Working => Msg(d) \notin Closed
<1>1. KeepsToItself(d) /\ savers \subseteq savers'
    BY ProcessKeeps, SaversStay
<1>2. pc[d] \in Working => Msg(d) \notin Closed
    BY DEF Closed, InHand, WorkingOn
<1>3. ASSUME NEW m, m # Msg(d)
      PROVE  InHand(m)' <=> InHand(m)
    <2>1. ASSUME NEW e \in Deliveries PROVE WorkingOn(e, m)' <=> WorkingOn(e, m)
        BY <1>1, <1>3, ProcessGoesOn DEF KeepsToItself, WorkingOn, Msg
    <2>2. ASSUME NEW e \in Deliveries PROVE Saving(e, m)' <=> Saving(e, m)
        BY <1>1, <1>3 DEF KeepsToItself, Saving
    <2> QED
        BY <2>1, <2>2 DEF InHand
<1>4. ASSUME NEW m, m = Msg(d), m \in Closed
      PROVE  ~ InHand(m)'
    <2>1. m \in dedup /\ ~ InHand(m) /\ pc[d] \notin Working
        BY <1>2, <1>4 DEF Closed
    <2>2. pc'[d] \notin Working
        BY <1>4, <2>1, ProcessGoesOn DEF Claim
    <2>3. savers' = savers
        BY <1>1, <2>1 DEF KeepsToItself
    <2>4. ASSUME NEW e \in Deliveries PROVE ~ WorkingOn(e, m)' /\ ~ Saving(e, m)'
        <3>1. ~ WorkingOn(e, m) /\ ~ Saving(e, m)
            BY <2>1 DEF InHand
        <3>2. CASE e = d
            BY <2>2, <2>3, <3>1, <3>2 DEF WorkingOn, Saving
        <3>3. CASE e # d
            BY <1>1, <2>3, <3>1, <3>3 DEF KeepsToItself, WorkingOn, Saving, Msg
        <3> QED
            BY <3>2, <3>3
    <2> QED
        BY <2>4 DEF InHand
<1>5. PICK m : m = Msg(d)
    OBVIOUS
<1>6. dedup' = dedup \/ dedup' = dedup \union {m}
    BY <1>5, KeyOfClaim
<1>7. Closed' = Closed \/ Closed' = Closed \union {m}
    BY <1>3, <1>4, <1>5, <1>6 DEF Closed
<1> QED
    BY <1>2, <1>5, <1>7

LEMMA AnswerHeard ==
    ASSUME NEW m \in Messages, NEW o, outbox' = outbox \union {o}, o.msg = m, o.text \in Answers
    PROVE  SaidTo' = IF o.ok THEN [SaidTo EXCEPT ![m] = @ \union {o.text}] ELSE SaidTo
<1>1. ASSUME NEW n \in Messages
      PROVE  Received(n)' = IF n = m /\ o.ok THEN Received(n) \union {o} ELSE Received(n)
    BY DEF Received
<1> DEFINE Heard(n) == {a.text : a \in Received(n)}
<1>2. ASSUME NEW n \in Messages
      PROVE  Heard(n)' = IF n = m /\ o.ok THEN Heard(n) \union {o.text} ELSE Heard(n)
    BY <1>1
<1>3. SaidTo = [n \in Messages |-> Heard(n)] /\ SaidTo' = [n \in Messages |-> Heard(n)']
    BY DEF SaidTo
<1> HIDE DEF Heard
<1> QED
    BY <1>2, <1>3

LEMMA ReceptionProcess ==
    ASSUME TypeInv, TypeInv', Once, lapsed = {}, NEW d \in Deliveries, Receive(d) \/ Process(d)
    PROVE  Desk!ReceptionNext
<1>1. /\ Closed' = Closed \/ Closed' = Closed \union {Msg(d)}
      /\ pc[d] \in Working => Msg(d) \notin Closed
    BY HandsOfOne
<1>2. Rows' = Rows /\ outbox \subseteq outbox'
    BY ProcessStores, ProcessKeeps DEF Rows, KeepsToItself
<1>3. Closed' = Closed \union Closed' /\ Closed' \in SUBSET Messages
    BY <1>1 DEF Closed, TypeInv, TypeOK
<1>4. ASSUME SaidTo' = SaidTo PROVE Desk!Close
    BY <1>2, <1>3, <1>4 DEF Desk!Close
<1>5. CASE Mute(d)
    <2>1. \A m \in Messages : Received(m)' = Received(m)
        BY <1>2, <1>5 DEF Mute, Received
    <2> QED
        BY <1>4, <2>1 DEF SaidTo, Desk!ReceptionNext
<1>6. CASE Answering(d)
    <2>1. PICK o : /\ outbox' = outbox \union {o}
                   /\ o.delivery = d /\ o.msg = Msg(d) /\ o.text \in Answers
        BY <1>6 DEF Answering
    <2> DEFINE m == Msg(d)
    <2>2. m \in Messages /\ WorkingOn(d, m) /\ pc[d] # "notify" /\ m \notin Closed
        BY <1>1, <1>6, MsgType DEF Answering, WorkingOn, TypeInv, AtWork
    <2>3. o.msg = m /\ (Closed' = Closed \/ Closed' = Closed \union {m})
        BY <1>1, <2>1
    <2> HIDE DEF m
    <2>4. Unanswered(m)
        BY <2>2 DEF Once, AnswerToCome
    <2>5. SaidTo[m] = {}
        BY <2>2, <2>4 DEF SaidTo, Received, Unanswered
    <2>6. CASE o.ok
        <3>1. SaidTo' = [SaidTo EXCEPT ![m] = {o.text}]
            BY <2>1, <2>2, <2>3, <2>5, <2>6, AnswerHeard
        <3>2. Desk!Answer(m)
            BY <1>2, <2>1, <2>2, <2>3, <2>5, <3>1 DEF Desk!Answer
        <3> QED
            BY <2>2, <3>2 DEF Desk!ReceptionNext
    <2>7. CASE ~ o.ok
        BY <1>4, <2>1, <2>2, <2>3, <2>7, AnswerHeard DEF Desk!ReceptionNext
    <2> QED
        BY <2>6, <2>7
<1> QED
    BY <1>5, <1>6, MuteOrAnswering

\* A saver's step ends or goes on with what it has, and keeps no other message.
LEMMA SaverOfOne ==
    ASSUME TypeInv, NEW s \in savers, Save(s)
    PROVE  /\ savers \ {s} \subseteq savers'
           /\ \/ archive' = archive
              \/ \E r : archive' = archive \union {r} /\ r.msg = s.msg
<1> USE DEF redis
<1>1. CASE Load(s) \/ LoadFails(s)
    BY <1>1 DEF Load, LoadFails, Loaded
<1>2. CASE Store(s) \/ StoreFails(s)
    BY <1>2 DEF Store, StoreFails, Advance
<1>3. CASE Archive(s)
    <2> DEFINE r == [delivery |-> s.delivery, msg |-> s.msg, role |-> s.at]
    <2>1. savers \ {s} \subseteq savers' /\ (archive' = archive \/ archive' = archive \union {r})
        BY <1>3 DEF Archive, Advance
    <2>2. r.msg = s.msg
        OBVIOUS
    <2> HIDE DEF r
    <2> QED
        BY <2>1, <2>2
<1> QED
    BY <1>1, <1>2, <1>3 DEF Save

LEMMA ReceptionSave ==
    ASSUME TypeInv, TypeInv', Once, SaversAnswered, lapsed = {}, NEW s \in savers, Save(s)
    PROVE  Desk!ReceptionNext
<1> DEFINE m == s.msg
<1>1. m \in Messages /\ s.delivery \in Deliveries
    BY DEF TypeInv, TypeOK
<1>2. /\ UNCHANGED <<handlers, dedup, outbox>>
      /\ \A t \in savers' \ savers : t.delivery = s.delivery /\ t.msg = m
      /\ savers \ {s} \subseteq savers'
    BY SaveKeeps, SaverOfOne
<1>3. SaidTo' = SaidTo
    BY <1>2 DEF SaidTo, Received
<1>4. m \notin Closed
    BY <1>1 DEF Closed, InHand, Saving
<1>5. Closed' = Closed \/ Closed' = Closed \union {m}
    <2>1. ASSUME NEW n, n # m PROVE InHand(n)' <=> InHand(n)
        BY <1>2, <2>1 DEF InHand, WorkingOn, Saving, Msg, handlers
    <2> QED
        BY <1>2, <1>4, <2>1 DEF Closed
<1>6. CASE archive' = archive
    <2>1. Closed' = Closed \union Closed' /\ Closed' \in SUBSET Messages
        BY <1>5 DEF Closed, TypeInv, TypeOK
    <2> QED
        BY <1>3, <1>6, <2>1 DEF Desk!Close, Desk!ReceptionNext, Rows
<1>7. CASE \E r : archive' = archive \union {r} /\ r.msg = m
    <2>1. PICK o \in outbox : o.msg = m /\ o.text \in Replies /\ o.ok
        BY DEF SaversAnswered, AnsweredBy
    <2>2. o.text \in Answers
        BY <2>1 DEF Answers
    <2>3. Received(m) = {o}
        BY <1>1, <2>1, <2>2 DEF Received, Once, AnsweredOnce
    <2>4. SaidTo[m] = {o.text}
        BY <1>1, <2>3 DEF SaidTo
    <2>5. Rows' = Rows \union {m}
        BY <1>7 DEF Rows
    <2> HIDE DEF m
    <2>6. Desk!Keep(m)
        BY <1>3, <1>4, <1>5, <2>1, <2>4, <2>5 DEF Desk!Keep
    <2> QED
        BY <1>1, <2>6 DEF Desk!ReceptionNext
<1> QED
    BY <1>6, <1>7, SaverOfOne

LEMMA ReceptionElsewhere ==
    ASSUME TypeInv, TypeInv', lapsed' = {}, Environment
    PROVE  Desk!ReceptionNext
<1>1. outbox' = outbox /\ archive' = archive /\ (Crash \/ UNCHANGED <<handlers, savers>>)
    <2>1. UNCHANGED archive
        BY DEF Environment, Midnight, Crash, DedupExpires, OptInExpires, HistExpires
    <2> QED
        BY <2>1, EnvironmentKeeps
<1>2. dedup' = dedup
    <2>1. ASSUME NEW m \in Messages, DedupExpires(m) PROVE FALSE
        BY <2>1 DEF DedupExpires
    <2> QED
        BY <2>1 DEF Environment, Midnight, Crash, OptInExpires, HistExpires, redis
<1>3. \A m : InHand(m)' => InHand(m)
    <2>1. CASE Crash
        BY <2>1 DEF Crash, InHand, WorkingOn, Saving, Working, Locations
    <2>2. CASE UNCHANGED <<handlers, savers>>
        BY <2>2 DEF InHand, WorkingOn, Saving, Msg, handlers
    <2> QED
        BY <1>1, <2>1, <2>2
<1>4. Closed' = Closed \union Closed' /\ Closed' \in SUBSET Messages
    BY <1>2, <1>3 DEF Closed, TypeInv, TypeOK
<1> QED
    BY <1>1, <1>4 DEF Desk!Close, Desk!ReceptionNext, Rows, SaidTo, Received

\* As long as no deduplication key expires, every step of the channel is one
\* that Reception allows, though Meta repeats its posts, goroutines overlap and
\* the server stops (processTextMessage, processImageMessage, saveHistoryAsync).
THEOREM KeepsReception ==
    Spec /\ [](lapsed = {})
        => Desk!ReceptionInit /\ [][Desk!ReceptionNext]_(Desk!reception)
<1>1. Init => Desk!ReceptionInit
    BY DEF Init, Desk!ReceptionInit, SaidTo, Received, Closed, Rows
<1>2. TypeInv /\ TypeInv' /\ ArchiveInv /\ Once /\ lapsed = {} /\ (lapsed = {})' /\ [Next]_vars
        => [Desk!ReceptionNext]_(Desk!reception)
    <2> SUFFICES ASSUME TypeInv, TypeInv', ArchiveInv, Once, lapsed = {}, lapsed' = {}, [Next]_vars
                 PROVE  [Desk!ReceptionNext]_(Desk!reception)
        OBVIOUS
    <2>1. CASE UNCHANGED vars
        <3>1. UNCHANGED <<outbox, archive, dedup, savers, pc, rest>>
            BY <2>1 DEF vars, handlers, redis
        <3> QED
            BY <3>1 DEF Desk!reception, SaidTo, Received, Closed, InHand, WorkingOn, Saving, Msg, Rows
    <2> QED
        BY <2>1, ReceptionProcess, ReceptionSave, ReceptionElsewhere
        DEF Next, Terminated, ArchiveInv
<1> QED
    BY <1>1, <1>2, TypeInvHolds, ArchiveInvHolds, OnceHolds, PTL DEF Spec

-----------------------------------------------------------------------------
(***************************************************************************)
(* How long a delivery can go on.  CallsLeft bounds the steps its          *)
(* goroutine may still take: each message goes through at most nine, each  *)
(* at a place that lies further on than the last.                          *)
(***************************************************************************)
Place == [loop |-> 0, check |-> 1, optin |-> 2, disclaim |-> 3, count |-> 4,
          refuse |-> 5, notify |-> 6, download |-> 5, gemini |-> 6,
          apologise |-> 7, send |-> 7]

CallsLeft(d) ==
    IF pc[d] = "new" THEN 9 * Len(Payload[d]) + 9
    ELSE IF pc[d] \in {"done", "lost"} THEN 0
    ELSE 9 * Len(rest[d]) + 8 - Place[pc[d]]

\* A step of the goroutine goes forward within the message, or drops it.
Forward(d) ==
    \/ /\ pc'[d] \in Working /\ rest'[d] = rest[d]
       /\ pc[d] \in Working \union {"loop"} /\ rest[d] # <<>>
       /\ Place[pc'[d]] > Place[pc[d]]
    \/ /\ pc'[d] = "loop" /\ rest'[d] = Tail(rest[d])
       /\ pc[d] \in Working \union {"loop"} /\ rest[d] # <<>>

LEMMA GoesForward ==
    ASSUME TypeInv, NEW d \in Deliveries, Process(d)
    PROVE  Forward(d) \/ Finish(d)
<1> USE DEF Forward, Working, Locations, Place
<1>0. /\ pc \in [Deliveries -> Locations] /\ rest \in [Deliveries -> Seq(Messages)]
      /\ pc[d] \in Working => rest[d] # <<>>
    BY DEF TypeInv, TypeOK, AtWork
<1>1. CASE Skip(d) \/ ClaimFails(d)
    BY <1>0, <1>1 DEF Skip, ClaimFails, Leave
<1>2. CASE Claim(d)
    BY <1>0, <1>2 DEF Claim, Goto
<1>3. CASE Check(d)
    BY <1>0, <1>3 DEF Check, Leave, Goto
<1>4. CASE OptIn(d) \/ Disclaim(d)
    BY <1>0, <1>4 DEF OptIn, Disclaim, Goto
<1>5. CASE Count(d) \/ CountFails(d)
    BY <1>0, <1>5 DEF Count, CountFails, AfterQuota, Goto
<1>6. CASE Refuse(d) \/ Notify(d)
    BY <1>0, <1>6 DEF Refuse, Notify, Leave, Goto
<1>7. CASE Download(d) \/ Gemini(d)
    BY <1>0, <1>7 DEF Download, Gemini, Goto
<1>8. CASE Apologise(d) \/ Reply(d)
    BY <1>0, <1>8 DEF Apologise, Reply, Leave
<1> QED
    BY <1>1, <1>2, <1>3, <1>4, <1>5, <1>6, <1>7, <1>8 DEF Process, Bounded

LEMMA ForwardEnds ==
    ASSUME TypeInv, NEW d \in Deliveries, Process(d) \/ Receive(d)
    PROVE  CallsLeft(d)' \in Nat /\ CallsLeft(d)' < CallsLeft(d)
<1>0. /\ pc \in [Deliveries -> Locations] /\ rest \in [Deliveries -> Seq(Messages)]
      /\ Len(rest[d]) \in Nat /\ Len(Payload[d]) \in Nat
    BY MessagesAssumption, LenProperties DEF TypeInv, TypeOK
<1>1. CASE Receive(d)
    BY <1>0, <1>1 DEF Receive, CallsLeft, Place
<1>2. CASE Finish(d)
    BY <1>0, <1>2 DEF Finish, Goto, CallsLeft, Place
<1>3. CASE Forward(d)
    <2>1. rest[d] # <<>> /\ pc[d] \in Working \union {"loop"}
        BY <1>3 DEF Forward
    <2>2. Len(Tail(rest[d])) = Len(rest[d]) - 1 /\ Len(rest[d]) > 0
        BY <1>0, <2>1, HeadTailProperties, EmptySeq
    <2>3. \A at \in Working \union {"loop"} :
            Place[at] \in 0 .. 7 /\ at \notin {"new", "done", "lost"}
        BY DEF Place, Working, Locations
    <2>4. CallsLeft(d) = 9 * Len(rest[d]) + 8 - Place[pc[d]]
        BY <2>1, <2>3 DEF CallsLeft
    <2>5. pc'[d] \in Working \union {"loop"}
        BY <1>3 DEF Forward
    <2>6. CallsLeft(d)' = 9 * Len(rest'[d]) + 8 - Place[pc'[d]]
        BY <2>5, <2>3 DEF CallsLeft
    <2>7. Place[pc[d]] \in 0 .. 7 /\ Place[pc'[d]] \in 0 .. 7
        BY <2>1, <2>3, <2>5
    <2>8. CASE rest'[d] = rest[d] /\ Place[pc'[d]] > Place[pc[d]]
        <3> DEFINE n == Len(rest[d])
                   x == Place[pc[d]]
                   y == Place[pc'[d]]
        <3>1. n \in Nat /\ n > 0 /\ x \in 0 .. 7 /\ y \in 0 .. 7 /\ y > x
            BY <1>0, <2>2, <2>7, <2>8
        <3>2. CallsLeft(d) = 9 * n + 8 - x /\ CallsLeft(d)' = 9 * n + 8 - y
            BY <2>4, <2>6, <2>8
        <3> HIDE DEF n, x, y
        <3> QED
            BY <3>1, <3>2
    <2>9. CASE rest'[d] = Tail(rest[d]) /\ pc'[d] = "loop"
        <3> DEFINE n == Len(rest[d])
        <3>1. n \in Nat /\ n > 0 /\ Len(rest'[d]) = n - 1
            BY <1>0, <2>2, <2>9
        <3>2. /\ CallsLeft(d) = 9 * n + 8 - Place[pc[d]]
              /\ CallsLeft(d)' = 9 * (n - 1) + 8 - Place[pc'[d]]
            BY <2>4, <2>6, <3>1
        <3>3. \A k \in Nat, x, y \in 0 .. 7 : k > 0 =>
                /\ 9 * (k - 1) + 8 - x \in Nat
                /\ 9 * (k - 1) + 8 - x < 9 * k + 8 - y
            OBVIOUS
        <3> HIDE DEF n
        <3> QED
            BY <2>7, <3>1, <3>2, <3>3
    <2> QED
        BY <1>3, <2>8, <2>9 DEF Forward
<1> QED
    BY <1>1, <1>2, <1>3, GoesForward

LEMMA CallsLeftType ==
    ASSUME TypeInv, NEW d \in Deliveries
    PROVE  CallsLeft(d) \in Nat
<1>1. pc[d] \in Locations /\ Len(rest[d]) \in Nat /\ Len(Payload[d]) \in Nat
    BY MessagesAssumption, LenProperties DEF TypeInv, TypeOK
<1>2. \A at \in Locations \ {"new", "done", "lost"} : Place[at] \in 0 .. 7
    BY DEF Place, Locations
<1>3. CASE pc[d] \in {"new", "done", "lost"}
    BY <1>1, <1>3 DEF CallsLeft
<1>4. CASE pc[d] \notin {"new", "done", "lost"}
    <2> DEFINE n == Len(rest[d])
               x == Place[pc[d]]
    <2>1. n \in Nat /\ x \in 0 .. 7 /\ CallsLeft(d) = 9 * n + 8 - x
        BY <1>1, <1>2, <1>4 DEF CallsLeft
    <2> HIDE DEF n, x
    <2> QED
        BY <2>1
<1> QED
    BY <1>3, <1>4

\* Every step of a delivery's goroutine brings it closer to its end and nothing
\* takes it back: with n messages it has ended after 9n + 9 of its own steps,
\* whatever fails, repeats or expires (the loop of HandleMessage's goroutine,
\* handler.go; no call of processTextMessage is tried again).
THEOREM DeliveriesGoForward ==
    Spec => [][\A d \in Deliveries :
                /\ Receive(d) \/ Process(d) => CallsLeft(d)' < CallsLeft(d)
                /\ CallsLeft(d)' \in 0 .. CallsLeft(d)]_vars
<1>1. TypeInv /\ [Next]_vars =>
        [\A d \in Deliveries :
            /\ Receive(d) \/ Process(d) => CallsLeft(d)' < CallsLeft(d)
            /\ CallsLeft(d)' \in 0 .. CallsLeft(d)]_vars
    <2> SUFFICES ASSUME TypeInv, Next, NEW d \in Deliveries
                 PROVE  /\ Receive(d) \/ Process(d) => CallsLeft(d)' < CallsLeft(d)
                        /\ CallsLeft(d)' \in 0 .. CallsLeft(d)
        OBVIOUS
    <2>1. CallsLeft(d) \in Nat
        BY CallsLeftType
    <2>2. CASE Receive(d) \/ Process(d)
        BY <2>1, <2>2, ForwardEnds
    <2>3. CASE ~ (Receive(d) \/ Process(d))
        <3>1. ASSUME UNCHANGED <<pc[d], rest[d]>> PROVE CallsLeft(d)' = CallsLeft(d)
            BY <3>1 DEF CallsLeft
        <3>2. ASSUME NEW e \in Deliveries, Receive(e) \/ Process(e)
              PROVE  CallsLeft(d)' = CallsLeft(d)
            BY <2>3, <3>1, <3>2, ProcessKeeps DEF KeepsToItself
        <3>3. ASSUME NEW s \in savers, Save(s)
              PROVE  CallsLeft(d)' = CallsLeft(d)
            BY <3>1, <3>3, SaveKeeps DEF handlers
        <3>4. CASE Crash
            BY <2>1, <2>3, <3>4 DEF Crash, CallsLeft, TypeInv, TypeOK, Locations
        <3>5. CASE Environment /\ ~ Crash
            BY <2>1, <2>3, <3>1, <3>5, EnvironmentKeeps DEF handlers
        <3>6. CASE Terminated
            BY <2>1, <2>3, <3>1, <3>6 DEF Terminated, vars, handlers
        <3> QED
            BY <2>1, <2>3, <3>2, <3>3, <3>4, <3>5, <3>6 DEF Next
    <2> QED
        BY <2>2, <2>3
<1> QED
    BY <1>1, TypeInvHolds, PTL DEF Spec

=============================================================================
