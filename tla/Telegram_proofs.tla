--------------------------- MODULE Telegram_proofs ---------------------------
(***************************************************************************)
(* Theorems about the Telegram channel, for any messages, chats, settings, *)
(* bounds and number of rounds and retries.                                *)
(*                                                                         *)
(* Bounded is not inductive alone: that a call starts from NoTurn needs    *)
(* Idle, and that a round stays under ToolLoopMax needs RoundLeft.  The    *)
(* invariants about what a chat heard and what the advisor was told follow *)
(* the program counter from the send that matters to the end.              *)
(***************************************************************************)
EXTENDS Telegram, SequenceTheorems, TLAPS

\* Only a message that waits for the model has a call of the adapter.
Idle == \A m \in Messages : pc[m] # "wait" => turn[m] = NoTurn

\* A function is carried out only while there are rounds left.
RoundLeft == \A m \in Messages : turn[m].at = "function" => turn[m].round < ToolLoopMax

Discipline == Bounded /\ Idle /\ RoundLeft

\* m goes to a later place and the adapter has no part in it.
Plain(m) ==
    /\ turn' = turn
    /\ pc[m] # "wait" /\ pc'[m] # "wait"
    /\ pc'[m] \in DOMAIN Place
    /\ Place[pc'[m]] > Place[pc[m]]
    /\ pc' = [pc EXCEPT ![m] = pc'[m]]

\* The steps of the goroutine outside the call to the model.
PlainStep(m) ==
    \/ Receive(m)  \/ Claim(m)   \/ CheckRate(m)   \/ OptIn(m)       \/ Disclaim(m)
    \/ Count(m)    \/ Decide(m)  \/ Refuse(m)      \/ Notify(m)      \/ FallBack(m)
    \/ Download(m) \/ Apologise(m) \/ Reply(m)     \/ LoadHistory(m) \/ StoreHistory(m)
    \/ ArchiveUser(m) \/ ArchiveModel(m)

\* The steps about the call to the model.
ModelStep(m) == CallModel(m) \/ ModelWorks(m) \/ ModelReturns(m)

\* What happens from outside and leaves the goroutines alone.
OutsideStep == NextDay \/ KeyExpires \/ SettingsMove

LEMMA NextSplits ==
    ASSUME Next
    PROVE \/ \E m \in Messages : PlainStep(m) \/ ModelStep(m)
          \/ OutsideStep \/ Crash
BY DEF Next, Step, PlainStep, ModelStep, OutsideStep

LEMMA PlainSteps ==
    ASSUME NEW m \in Messages, Bounded, PlainStep(m)
    PROVE Plain(m)
<1> USE DEF Bounded, Goto, Place, Plain, model
<1>1. CASE Receive(m)
  BY <1>1 DEF Receive
<1>2. CASE Claim(m)
  BY <1>2 DEF Claim
<1>3. CASE CheckRate(m)
  BY <1>3 DEF CheckRate
<1>4. CASE OptIn(m)
  BY <1>4 DEF OptIn
<1>5. CASE Disclaim(m)
  BY <1>5 DEF Disclaim
<1>6. CASE Count(m)
  BY <1>6 DEF Count
<1>7. CASE Decide(m)
  BY <1>7 DEF Decide, Ask
<1>8. CASE Refuse(m)
  BY <1>8 DEF Refuse
<1>9. CASE Notify(m)
  BY <1>9 DEF Notify
<1>10. CASE FallBack(m)
  BY <1>10 DEF FallBack
<1>11. CASE Download(m)
  BY <1>11 DEF Download
<1>12. CASE Apologise(m)
  BY <1>12 DEF Apologise
<1>13. CASE Reply(m)
  <2>1. turn' = turn /\ \E ok \in BOOLEAN : Goto(m, "send", IF ok THEN "load" ELSE "done")
    BY <1>13 DEF Reply
  <2> QED
    BY <2>1
<1>14. CASE LoadHistory(m)
  BY <1>14 DEF LoadHistory
<1>15. CASE StoreHistory(m)
  BY <1>15 DEF StoreHistory
<1>16. CASE ArchiveUser(m)
  BY <1>16 DEF ArchiveUser, SaveTurn
<1>17. CASE ArchiveModel(m)
  BY <1>17 DEF ArchiveModel, SaveTurn
<1> QED
  BY <1>1, <1>2, <1>3, <1>4, <1>5, <1>6, <1>7, <1>8, <1>9, <1>10, <1>11, <1>12, <1>13,
     <1>14, <1>15, <1>16, <1>17 DEF PlainStep

\* What the adapter does keeps the record of the call one of its own, and every
\* step of it goes forward; the other messages' calls are left alone.
LEMMA AdapterSteps ==
    ASSUME NEW m \in Messages, Bounded, RoundLeft, AdapterStep(m)
    PROVE /\ turn' \in [Messages -> Turn]
          /\ RoundLeft'
          /\ \A n \in Messages : turn'[n] # turn[n] => n = m
          /\ Later(turn[m], turn'[m])
<1> USE AdapterAssumption
        DEF Bounded, RoundLeft, At, Move, NextRound, Turn, Stages, Later, StageOrder
<1>1. CASE StoreContext(m)
  BY <1>1 DEF StoreContext
<1>2. CASE Answer(m)
  BY <1>2 DEF Answer
<1>3. CASE CallFunction(m)
  BY <1>3 DEF CallFunction
<1>4. CASE TooManyRequests(m)
  <2>1. CASE turn[m].tools /\ turn[m].attempt < Retries
    BY <1>4, <2>1 DEF TooManyRequests
  <2>2. CASE ~(turn[m].tools /\ turn[m].attempt < Retries)
    BY <1>4, <2>2 DEF TooManyRequests
  <2> QED
    BY <2>1, <2>2
<1>5. CASE ModelFails(m)
  BY <1>5 DEF ModelFails
<1>6. CASE Query(m)
  BY <1>6 DEF Query
<1>7. CASE EscalarAHumano(m)
  <2>1. At(m, "function") /\ NextRound(m)
    BY <1>7 DEF EscalarAHumano
  <2> QED
    BY <2>1
<1> QED
  BY <1>1, <1>2, <1>3, <1>4, <1>5, <1>6, <1>7 DEF AdapterStep

LEMMA NoTurnType ==
    /\ NoTurn \in Turn
    /\ NoTurn.at = "idle" /\ NoTurn.round = 0 /\ NoTurn.attempt = 0
BY AdapterAssumption DEF NoTurn, Turn, Stages

\* A call begins: from no call to the first round.
LEMMA CallModelSteps ==
    ASSUME NEW m \in Messages, Discipline, CallModel(m)
    PROVE Discipline' /\ Place[pc'[m]] > Place[pc[m]]
                      /\ \A n \in Messages : n # m => pc'[n] = pc[n] /\ turn'[n] = turn[n]
<1> DEFINE stage == IF fresh THEN "ask" ELSE "build"
           t == [at |-> stage, tools |-> (Kind[m] = "text"), round |-> 0, attempt |-> 0]
<1>1. pc[m] = "call" /\ pc' = [pc EXCEPT ![m] = "wait"] /\ turn' = [turn EXCEPT ![m] = t]
  BY DEF CallModel, Goto, Call
<1>2. t \in Turn /\ t.at # "function"
  BY AdapterAssumption DEF Turn, Stages
<1> HIDE DEF t
<1> QED
  BY <1>1, <1>2 DEF Discipline, Bounded, Idle, RoundLeft, Place

LEMMA ModelReturnsSteps ==
    ASSUME NEW m \in Messages, Discipline, ModelReturns(m)
    PROVE Discipline' /\ Place[pc'[m]] > Place[pc[m]]
                      /\ \A n \in Messages : n # m => pc'[n] = pc[n] /\ turn'[n] = turn[n]
<1>1. /\ pc[m] = "wait" /\ turn' = [turn EXCEPT ![m] = NoTurn]
      /\ \/ pc' = [pc EXCEPT ![m] = "apologise"]
         \/ pc' = [pc EXCEPT ![m] = "send"]
  BY DEF ModelReturns, Goto
<1> QED
  BY <1>1, NoTurnType DEF Discipline, Bounded, Idle, RoundLeft, Place

LEMMA ModelWorksSteps ==
    ASSUME NEW m \in Messages, Discipline, ModelWorks(m)
    PROVE Discipline' /\ pc' = pc /\ pc[m] = "wait"
                      /\ Later(turn[m], turn'[m])
                      /\ \A n \in Messages : turn'[n] # turn[n] => n = m
<1>1. pc' = pc /\ pc[m] = "wait"
  BY DEF ModelWorks
<1>2. /\ turn' \in [Messages -> Turn] /\ RoundLeft'
      /\ \A n \in Messages : turn'[n] # turn[n] => n = m
      /\ Later(turn[m], turn'[m])
  BY AdapterSteps DEF ModelWorks, Discipline
<1>3. Idle'
  BY <1>1, <1>2 DEF Discipline, Bounded, Idle
<1> QED
  BY <1>1, <1>2, <1>3 DEF Discipline, Bounded

LEMMA PlainDiscipline ==
    ASSUME NEW m \in Messages, Discipline, Plain(m)
    PROVE Discipline'
BY DEF Discipline, Bounded, Idle, RoundLeft, Plain

LEMMA OutsideSteps ==
    ASSUME OutsideStep
    PROVE pc' = pc /\ turn' = turn
BY DEF OutsideStep, NextDay, KeyExpires, SettingsMove, model

\* After a crash no message is at work, and none goes back.
LEMMA CrashSteps ==
    ASSUME Discipline, Crash
    PROVE /\ Discipline'
          /\ \A m \in Messages : pc'[m] # pc[m] \/ turn'[m] # turn[m]
                                    => Place[pc'[m]] > Place[pc[m]]
<1>1. /\ pc' = [m \in Messages |-> IF Active(m) THEN "lost" ELSE pc[m]]
      /\ turn' = [m \in Messages |-> NoTurn]
  BY DEF Crash
<1>2. Discipline'
  BY <1>1, NoTurnType DEF Discipline, Bounded, Idle, RoundLeft, Place, Active, Over
<1>3. ASSUME NEW m \in Messages, pc'[m] # pc[m] \/ turn'[m] # turn[m]
      PROVE Place[pc'[m]] > Place[pc[m]]
  <2>1. Active(m)
    BY <1>1, <1>3 DEF Discipline, Idle, Active, Over
  <2> QED
    BY <1>1, <2>1 DEF Discipline, Bounded, Place, Active, Over
<1> QED
  BY <1>2, <1>3

LEMMA DisciplineInit ==
    ASSUME Init
    PROVE Discipline
BY NoTurnType DEF Init, AdapterInit, Discipline, Bounded, Idle, RoundLeft, Place

LEMMA DisciplineStep ==
    ASSUME Discipline, [Next]_vars
    PROVE Discipline'
<1>1. CASE \E m \in Messages : PlainStep(m) \/ ModelStep(m)
  BY <1>1, PlainSteps, PlainDiscipline, CallModelSteps, ModelWorksSteps, ModelReturnsSteps
     DEF ModelStep, Discipline
<1>2. CASE OutsideStep
  BY <1>2, OutsideSteps DEF Discipline, Bounded, Idle, RoundLeft
<1>3. CASE Crash
  BY <1>3, CrashSteps
<1>4. CASE UNCHANGED vars
  BY <1>4 DEF vars, model, Discipline, Bounded, Idle, RoundLeft
<1> QED
  BY <1>1, <1>2, <1>3, <1>4, NextSplits

\* Work on a message goes forward in every step: the place in Process and, while
\* it waits for the model, the round and the attempt.
LEMMA StepMovesOn ==
    ASSUME Discipline, [Next]_vars,
           NEW m \in Messages, pc'[m] # pc[m] \/ turn'[m] # turn[m]
    PROVE MovesOn(m)
<1>1. ASSUME NEW n \in Messages, PlainStep(n)
      PROVE MovesOn(m)
  <2>1. Plain(n)
    BY <1>1, PlainSteps DEF Discipline
  <2> QED
    BY <2>1 DEF Plain, MovesOn, Discipline, Bounded
<1>2. ASSUME NEW n \in Messages, ModelStep(n)
      PROVE MovesOn(m)
  BY <1>2, CallModelSteps, ModelWorksSteps, ModelReturnsSteps DEF ModelStep, MovesOn
<1>3. CASE OutsideStep
  BY <1>3, OutsideSteps
<1>4. CASE Crash
  BY <1>4, CrashSteps DEF MovesOn
<1>5. CASE UNCHANGED vars
  BY <1>5 DEF vars, model
<1> QED
  BY <1>1, <1>2, <1>3, <1>4, <1>5, NextSplits

\* The rounds and attempts of the adapter stay within their bounds.
THEOREM CallsAreBounded == Spec => []Bounded
<1>1. Discipline => Bounded
  BY DEF Discipline
<1> QED
  BY <1>1, DisciplineInit, DisciplineStep, PTL DEF Spec

\* Work on a message only goes forward (processText, processImage and the loop
\* of CallWithTools).
THEOREM WorkAlwaysEnds == Spec => WorkEnds
<1>1. Discipline /\ [Next]_vars =>
        [\A m \in Messages : pc'[m] # pc[m] \/ turn'[m] # turn[m] => MovesOn(m)]_vars
  BY StepMovesOn
<1> QED
  BY <1>1, DisciplineInit, DisciplineStep, PTL DEF Spec, WorkEnds
-----------------------------------------------------------------------------
\* A chat that read the promise is on its way to the advisor, or there.

LimitSent(m) == [msg |-> m, text |-> "limit", ok |-> TRUE] \in outbox

AdvisorTold(m) ==
    \E told \in advisor :
        told.msg = m /\ told.about = "limit" /\ (told.ok \/ told.via = "whatsapp")

Promise ==
    \A m \in Messages : LimitSent(m) =>
        /\ pc[m] \in {"notify", "fallback", "done", "lost"}
        /\ pc[m] = "done" => AdvisorTold(m)

\* What a step of m does to the promise made to m.
Keeps(m) ==
    /\ advisor \subseteq advisor'
    /\ \A sent \in outbox' : sent \in outbox \/ sent.msg = m
    /\ LimitSent(m)' => LimitSent(m) \/ pc'[m] = "notify"
    /\ pc[m] \notin {"done", "lost"}
    /\ pc[m] \in {"notify", "fallback"} =>
         /\ pc'[m] \in {"notify", "fallback", "done"}
         /\ pc'[m] = "done" => AdvisorTold(m)'

\* What Told leaves behind.
LEMMA ToldStays ==
    ASSUME NEW m, NEW about, NEW via, NEW ok, Told(m, about, via, ok)
    PROVE /\ advisor \subseteq advisor'
          /\ \E told \in advisor' : told.msg = m /\ told.about = about
                                     /\ told.via = via /\ told.ok = ok
<1> DEFINE new == [msg |-> m, about |-> about, round |-> turn[m].round, via |-> via, ok |-> ok]
<1>1. new.msg = m /\ new.about = about /\ new.via = via /\ new.ok = ok
  OBVIOUS
<1>2. advisor' = advisor \cup {new}
  BY DEF Told
<1> HIDE DEF new
<1> QED
  BY <1>1, <1>2

LEMMA PromiseKept ==
    ASSUME NEW m \in Messages, Bounded, PlainStep(m)
    PROVE Keeps(m)
<1> USE DEF Bounded, Goto, Place, Keeps, LimitSent, model
<1>1. CASE Receive(m)
  BY <1>1 DEF Receive
<1>2. CASE Claim(m)
  BY <1>2 DEF Claim
<1>3. CASE CheckRate(m)
  BY <1>3 DEF CheckRate
<1>4. CASE OptIn(m)
  BY <1>4 DEF OptIn
<1>5. CASE Disclaim(m)
  BY <1>5 DEF Disclaim, Send
<1>6. CASE Count(m)
  BY <1>6 DEF Count
<1>7. CASE Decide(m)
  BY <1>7 DEF Decide, Ask
<1>8. CASE Refuse(m)
  BY <1>8 DEF Refuse, Send
<1>9. CASE Notify(m)
  <2>1. PICK failed \in SUBSET {"chat"}, sent \in BOOLEAN :
          LET direct == Value("chat", failed = {}) # Nothing
          IN /\ IF direct THEN Told(m, "limit", "telegram", sent) ELSE UNCHANGED advisor
             /\ Goto(m, "notify", IF direct /\ sent THEN "done" ELSE "fallback")
    BY <1>9 DEF Notify
  <2>2. outbox' = outbox
    BY <1>9 DEF Notify
  <2>3. CASE Value("chat", failed = {}) # Nothing
    <3>1. Told(m, "limit", "telegram", sent)
      BY <2>1, <2>3
    <3>2. sent => AdvisorTold(m)'
      <4>1. PICK told \in advisor' : told.msg = m /\ told.about = "limit" /\ told.ok = sent
        BY <3>1, ToldStays
      <4>2. sent => told.ok
        BY <4>1, Zenon
      <4> QED
        BY <4>1, <4>2 DEF AdvisorTold
    <3>3. Goto(m, "notify", IF sent THEN "done" ELSE "fallback")
      BY <2>1, <2>3
    <3>4. advisor \subseteq advisor'
      BY <3>1, ToldStays
    <3> QED
      BY <2>2, <3>2, <3>3, <3>4
  <2>4. CASE ~(Value("chat", failed = {}) # Nothing)
    BY <2>1, <2>2, <2>4
  <2> QED
    BY <2>3, <2>4
<1>10. CASE FallBack(m)
  <2>1. PICK ok \in BOOLEAN : Told(m, "limit", "whatsapp", ok)
    BY <1>10 DEF FallBack
  <2>2. outbox' = outbox /\ Goto(m, "fallback", "done")
    BY <1>10 DEF FallBack
  <2>3. advisor \subseteq advisor' /\ AdvisorTold(m)'
    BY <2>1, ToldStays DEF AdvisorTold
  <2> QED
    BY <2>2, <2>3
<1>11. CASE Download(m)
  BY <1>11 DEF Download
<1>12. CASE Apologise(m)
  BY <1>12 DEF Apologise, Send
<1>13. CASE Reply(m)
  <2>1. /\ advisor' = advisor
        /\ \E ok \in BOOLEAN, text \in {"noted reply", "reply"} :
             /\ Goto(m, "send", IF ok THEN "load" ELSE "done")
             /\ outbox' = outbox \cup {[msg |-> m, text |-> text, ok |-> ok]}
    BY <1>13 DEF Reply, Send
  <2>2. PICK ok \in BOOLEAN, text \in {"noted reply", "reply"} :
          /\ Goto(m, "send", IF ok THEN "load" ELSE "done")
          /\ outbox' = outbox \cup {[msg |-> m, text |-> text, ok |-> ok]}
    BY <2>1
  <2> DEFINE new == [msg |-> m, text |-> text, ok |-> ok]
             promise == [msg |-> m, text |-> "limit", ok |-> TRUE]
  <2>3. new.msg = m /\ new.text = text /\ promise.text = "limit"
    OBVIOUS
  <2>4. outbox' = outbox \cup {new} /\ (LimitSent(m) <=> promise \in outbox)
          /\ (LimitSent(m)' <=> promise \in outbox')
    BY <2>2
  <2> HIDE DEF new, promise
  <2>5. (LimitSent(m)' => LimitSent(m)) /\ \A sent \in outbox' : sent \in outbox \/ sent.msg = m
    BY <2>3, <2>4
  <2> QED
    BY <2>1, <2>2, <2>5
<1>14. CASE LoadHistory(m)
  BY <1>14 DEF LoadHistory
<1>15. CASE StoreHistory(m)
  BY <1>15 DEF StoreHistory
<1>16. CASE ArchiveUser(m)
  BY <1>16 DEF ArchiveUser, SaveTurn
<1>17. CASE ArchiveModel(m)
  BY <1>17 DEF ArchiveModel, SaveTurn
<1> QED
  BY <1>1, <1>2, <1>3, <1>4, <1>5, <1>6, <1>7, <1>8, <1>9, <1>10, <1>11, <1>12, <1>13,
     <1>14, <1>15, <1>16, <1>17 DEF PlainStep

\* The adapter sends nothing to the chat and takes nothing back from the advisor.
LEMMA AdapterTells ==
    ASSUME NEW m \in Messages, AdapterStep(m)
    PROVE advisor \subseteq advisor'
BY DEF AdapterStep, StoreContext, Answer, CallFunction, TooManyRequests, ModelFails, Query,
       EscalarAHumano, Told

LEMMA ModelSteps ==
    ASSUME NEW m \in Messages, Discipline, ModelStep(m)
    PROVE /\ advisor \subseteq advisor' /\ outbox' = outbox
          /\ claimed' = claimed /\ denied' = denied /\ troubled' = troubled
          /\ dedup' = dedup
          /\ pc[m] \in {"call", "wait"} /\ pc'[m] \in {"wait", "apologise", "send"}
          /\ pc' = [pc EXCEPT ![m] = pc'[m]]
<1>1. CASE CallModel(m)
  BY <1>1 DEF CallModel, Call, Goto, redis, store, history, Discipline, Bounded
<1>2. CASE ModelWorks(m)
  BY <1>2, AdapterTells DEF ModelWorks, redis, store, history, Discipline, Bounded
<1>3. CASE ModelReturns(m)
  BY <1>3 DEF ModelReturns, Goto, redis, store, history, Discipline, Bounded
<1> QED
  BY <1>1, <1>2, <1>3 DEF ModelStep

LEMMA OutsideKeeps ==
    ASSUME OutsideStep
    PROVE /\ pc' = pc /\ outbox' = outbox /\ advisor' = advisor
          /\ claimed' = claimed /\ denied' = denied /\ troubled' = troubled
          /\ dedup' \subseteq dedup
BY DEF OutsideStep, NextDay, KeyExpires, SettingsMove, model, redis, store, history

LEMMA PromiseStep ==
    ASSUME Discipline, Promise, [Next]_vars
    PROVE Promise'
<1>1. ASSUME NEW m \in Messages, PlainStep(m)
      PROVE Promise'
  <2>1. Plain(m) /\ Keeps(m)
    BY <1>1, PlainSteps, PromiseKept DEF Discipline
  <2> SUFFICES ASSUME NEW n \in Messages, LimitSent(n)'
               PROVE /\ pc'[n] \in {"notify", "fallback", "done", "lost"}
                     /\ pc'[n] = "done" => AdvisorTold(n)'
    BY DEF Promise
  <2>2. CASE n = m
    BY <2>1, <2>2 DEF Promise, Keeps
  <2>3. CASE n # m
    <3>1. pc'[n] = pc[n]
      BY <2>1, <2>3 DEF Plain, Discipline, Bounded
    <3>2. LimitSent(n)
      BY <2>1, <2>3 DEF Keeps, LimitSent
    <3> QED
      BY <3>1, <3>2, <2>1 DEF Promise, Keeps, AdvisorTold
  <2> QED
    BY <2>2, <2>3
<1>2. ASSUME NEW m \in Messages, ModelStep(m)
      PROVE Promise'
  BY <1>2, ModelSteps DEF Promise, LimitSent, AdvisorTold, Discipline, Bounded
<1>3. CASE OutsideStep
  BY <1>3, OutsideKeeps DEF Promise, LimitSent, AdvisorTold
<1>4. CASE Crash
  BY <1>4 DEF Crash, Active, Over, Promise, LimitSent, AdvisorTold
<1>5. CASE UNCHANGED vars
  BY <1>5 DEF vars, model, Promise, LimitSent, AdvisorTold
<1> QED
  BY <1>1, <1>2, <1>3, <1>4, <1>5, NextSplits

\* Once the chat has read that an advisor will write (processText, the daily
\* limit) notifyAsesorLimit tells him or tries both channels.
THEOREM AdvisorIsTold == Spec => []PromisedAdvisorTold
<1>1. Init => Promise
  BY DEF Init, Promise, LimitSent
<1>2. Promise => PromisedAdvisorTold
  BY DEF Promise, PromisedAdvisorTold, LimitSent, AdvisorTold
<1> QED
  BY <1>1, <1>2, PromiseStep, DisciplineInit, DisciplineStep, PTL DEF Spec
-----------------------------------------------------------------------------
\* Silence has a cause.

\* What a claim leaves in Redis has a claimant among the messages, and a
\* claimant does not come back to the key.
Claimants ==
    /\ claimed \subseteq Messages
    /\ \A n \in claimed : pc[n] \notin {"new", "dedup"}
    /\ \A id \in dedup : \E n \in claimed : MessageID[n] = id

\* The places after a text to the chat.
Spoken == {"notify", "fallback", "load", "store", "user", "model"}

Answered == \A m \in Messages : pc[m] \in Spoken => Heard(m) \/ m \in troubled

Cause(m) ==
    \/ Heard(m)
    \/ Kind[m] = "other"
    \/ m \in denied \cup troubled
    \/ \E n \in claimed \ {m} : MessageID[n] = MessageID[m]

Silence == \A m \in Messages : pc[m] = "done" => Cause(m)

Causes == Claimants /\ Answered /\ Silence

\* What a step of m does to the causes of its silence.
Explains(m) ==
    /\ claimed \subseteq claimed' /\ denied \subseteq denied'
    /\ troubled \subseteq troubled' /\ outbox \subseteq outbox'
    /\ \/ dedup' = dedup /\ claimed' = claimed
       \/ claimed' = claimed \cup {m} /\ dedup' = dedup \cup {MessageID[m]}
       \/ claimed' = claimed /\ dedup' = dedup \cup {MessageID[m]}
            /\ \E n \in claimed : MessageID[n] = MessageID[m]
    /\ m \in claimed' \ claimed => pc'[m] \notin {"new", "dedup"}
    /\ pc[m] \notin {"new", "dedup"} => pc'[m] \notin {"new", "dedup"}
    /\ pc'[m] \in Spoken => pc[m] \in Spoken \/ Heard(m)' \/ m \in troubled'
    /\ pc'[m] = "done" => pc[m] \in Spoken \/ Cause(m)'

\* A text that was sent to the chat was heard.
LEMMA SendHeard ==
    ASSUME NEW m, NEW text, NEW ok \in BOOLEAN, Send(m, text, ok)
    PROVE /\ outbox \subseteq outbox' /\ troubled \subseteq troubled'
          /\ ok /\ text # "disclaimer" => Heard(m)'
          /\ ~ok => m \in troubled'
<1> DEFINE new == [msg |-> m, text |-> text, ok |-> ok]
<1>1. new.msg = m /\ new.text = text /\ new.ok = ok
  OBVIOUS
<1>2. outbox' = outbox \cup {new} /\ troubled' = IF ok THEN troubled ELSE troubled \cup {m}
  BY DEF Send, Try
<1> HIDE DEF new
<1>3. ASSUME ok, text # "disclaimer"
      PROVE Heard(m)'
  <2>1. new.ok
    BY <1>1, <1>3, Zenon
  <2> QED
    BY <2>1, <1>1, <1>2, <1>3 DEF Heard
<1> QED
  BY <1>2, <1>3

LEMMA SilenceExplained ==
    ASSUME NEW m \in Messages, Bounded, Claimants, PlainStep(m)
    PROVE Explains(m)
<1> USE DEF Bounded, Goto, Place, Explains, Spoken, model, redis, store, history
<1>1. CASE Receive(m)
  BY <1>1 DEF Receive, Cause
<1>2. CASE Claim(m)
  <2>1. PICK ok \in BOOLEAN :
          LET new == MessageID[m] \notin dedup
          IN /\ Try(m, ok)
             /\ Goto(m, "dedup", IF ok /\ new THEN "limiter" ELSE "done")
             /\ dedup' = IF ok THEN dedup \cup {MessageID[m]} ELSE dedup
             /\ claimed' = IF ok /\ new THEN claimed \cup {m} ELSE claimed
    BY <1>2 DEF Claim
  <2>2. denied' = denied /\ outbox' = outbox
    BY <1>2 DEF Claim
  <2>3. CASE ~ok
    BY <2>1, <2>2, <2>3 DEF Try, Cause
  <2>4. CASE ok /\ MessageID[m] \notin dedup
    BY <2>1, <2>2, <2>4 DEF Try
  <2>5. CASE ok /\ MessageID[m] \in dedup
    <3>1. PICK n \in claimed : MessageID[n] = MessageID[m]
      BY <2>5 DEF Claimants
    <3>2. n # m
      BY <3>1, <2>1 DEF Claimants
    <3>3. pc'[m] = "done" /\ claimed' = claimed /\ dedup' = dedup \cup {MessageID[m]}
            /\ troubled' = troubled
      BY <2>1, <2>5 DEF Try
    <3> QED
      BY <3>1, <3>2, <3>3, <2>2 DEF Cause
  <2> QED
    BY <2>3, <2>4, <2>5
<1>3. CASE CheckRate(m)
  BY <1>3 DEF CheckRate, Cause
<1>4. CASE OptIn(m)
  BY <1>4 DEF OptIn, Try
<1>5. CASE Disclaim(m)
  BY <1>5, SendHeard DEF Disclaim
<1>6. CASE Count(m)
  BY <1>6 DEF Count, Try
<1>7. CASE Decide(m)
  BY <1>7 DEF Decide, Ask, Try
<1>8. CASE Refuse(m)
  BY <1>8, SendHeard DEF Refuse
<1>9. CASE Notify(m)
  BY <1>9 DEF Notify, Try
<1>10. CASE FallBack(m)
  BY <1>10 DEF FallBack, Try
<1>11. CASE Download(m)
  BY <1>11 DEF Download, Try
<1>12. CASE Apologise(m)
  BY <1>12, SendHeard DEF Apologise, Cause
<1>13. CASE Reply(m)
  <2>1. PICK ok \in BOOLEAN, text \in {"noted reply", "reply"} :
          Send(m, text, ok) /\ Goto(m, "send", IF ok THEN "load" ELSE "done")
    BY <1>13 DEF Reply
  <2>2. dedup' = dedup /\ claimed' = claimed /\ denied' = denied
    BY <1>13 DEF Reply
  <2>3. /\ outbox \subseteq outbox' /\ troubled \subseteq troubled'
        /\ ok => Heard(m)'
        /\ ~ok => m \in troubled'
    BY <2>1, SendHeard
  <2> QED
    BY <2>1, <2>2, <2>3 DEF Cause
<1>14. CASE LoadHistory(m)
  BY <1>14 DEF LoadHistory, Try
<1>15. CASE StoreHistory(m)
  BY <1>15 DEF StoreHistory, Try
<1>16. CASE ArchiveUser(m)
  BY <1>16 DEF ArchiveUser, SaveTurn, Try
<1>17. CASE ArchiveModel(m)
  BY <1>17 DEF ArchiveModel, SaveTurn, Try
<1> QED
  BY <1>1, <1>2, <1>3, <1>4, <1>5, <1>6, <1>7, <1>8, <1>9, <1>10, <1>11, <1>12, <1>13,
     <1>14, <1>15, <1>16, <1>17 DEF PlainStep

\* A cause stays a cause.
LEMMA CausesStay ==
    ASSUME claimed \subseteq claimed', denied \subseteq denied',
           troubled \subseteq troubled', outbox \subseteq outbox', NEW m
    PROVE /\ Heard(m) => Heard(m)'
          /\ Cause(m) => Cause(m)'
BY DEF Cause, Heard

LEMMA PlainCauses ==
    ASSUME NEW m \in Messages, Discipline, Causes, PlainStep(m)
    PROVE Causes'
<1>1. Plain(m) /\ Explains(m)
  BY PlainSteps, SilenceExplained DEF Discipline, Causes
<1>2. \A n \in Messages : (Heard(n) => Heard(n)') /\ (Cause(n) => Cause(n)')
  BY <1>1, CausesStay DEF Explains
<1>3. \A n \in Messages : n # m => pc'[n] = pc[n]
  BY <1>1 DEF Plain, Discipline, Bounded
<1>4. pc[m] # "done"
  BY <1>1 DEF Plain, Discipline, Bounded, Place
<1>5. Claimants'
  BY <1>1, <1>3 DEF Explains, Causes, Claimants
<1>6. Answered'
  <2> SUFFICES ASSUME NEW n \in Messages, pc'[n] \in Spoken
               PROVE Heard(n)' \/ n \in troubled'
    BY DEF Answered, Spoken
  <2>1. CASE n = m
    BY <1>1, <1>2, <2>1 DEF Explains, Causes, Answered
  <2>2. CASE n # m
    BY <1>1, <1>2, <1>3, <2>2 DEF Explains, Causes, Answered
  <2> QED
    BY <2>1, <2>2
<1>7. Silence'
  <2> SUFFICES ASSUME NEW n \in Messages, pc'[n] = "done"
               PROVE Cause(n)'
    BY DEF Silence
  <2>1. CASE n = m /\ pc[m] \in Spoken
    <3>1. Heard(m)' \/ m \in troubled'
      BY <1>1, <1>2, <2>1 DEF Explains, Causes, Answered
    <3> QED
      BY <3>1, <2>1 DEF Cause
  <2>2. CASE n = m /\ pc[m] \notin Spoken
    BY <1>1, <2>2 DEF Explains
  <2>3. CASE n # m
    BY <1>2, <1>3, <2>3 DEF Causes, Silence
  <2> QED
    BY <2>1, <2>2, <2>3
<1> QED
  BY <1>5, <1>6, <1>7 DEF Causes

LEMMA CausesStep ==
    ASSUME Discipline, Causes, [Next]_vars
    PROVE Causes'
<1> USE DEF Causes, Claimants, Answered, Silence, Spoken
<1>1. ASSUME NEW m \in Messages, PlainStep(m)
      PROVE Causes'
  BY <1>1, PlainCauses
<1>2. ASSUME NEW m \in Messages, ModelStep(m)
      PROVE Causes'
  <2>1. \A n \in Messages : (Heard(n)' <=> Heard(n)) /\ (Cause(n)' <=> Cause(n))
    BY <1>2, ModelSteps DEF Cause, Heard
  <2> QED
    BY <1>2, <2>1, ModelSteps DEF Discipline, Bounded
<1>3. CASE OutsideStep
  <2>1. \A n \in Messages : (Heard(n)' <=> Heard(n)) /\ (Cause(n)' <=> Cause(n))
    BY <1>3, OutsideKeeps DEF Cause, Heard
  <2> QED
    BY <1>3, <2>1, OutsideKeeps
<1>4. CASE Crash
  <2>1. /\ outbox' = outbox /\ claimed' = claimed /\ denied' = denied
        /\ troubled' = troubled /\ dedup' = dedup
        /\ pc' = [m \in Messages |-> IF Active(m) THEN "lost" ELSE pc[m]]
    BY <1>4 DEF Crash, redis, history
  <2>2. \A n \in Messages : (Heard(n)' <=> Heard(n)) /\ (Cause(n)' <=> Cause(n))
    BY <2>1 DEF Cause, Heard
  <2> QED
    BY <2>1, <2>2 DEF Active, Over
<1>5. CASE UNCHANGED vars
  <2>1. \A n \in Messages : (Heard(n)' <=> Heard(n)) /\ (Cause(n)' <=> Cause(n))
    BY <1>5 DEF vars, history, Cause, Heard
  <2> QED
    BY <1>5, <2>1 DEF vars, history, redis
<1> QED
  BY <1>1, <1>2, <1>3, <1>4, <1>5, NextSplits

\* No message is handled without a word for no reason (Process: every early
\* return of processText and processImage).
THEOREM SilenceIsExplained == Spec => []SilenceHasACause
<1>1. Init => Causes
  BY DEF Init, Causes, Claimants, Answered, Silence, Spoken
<1>2. Causes => SilenceHasACause
  BY DEF Causes, Silence, Cause, SilenceHasACause
<1> QED
  BY <1>1, <1>2, CausesStep, DisciplineInit, DisciplineStep, PTL DEF Spec
-----------------------------------------------------------------------------
(***************************************************************************)
(* The channel does what Reception promises: a message is answered with    *)
(* what its chat has read, the notice of privacy apart, and what is kept   *)
(* are the rows of the archive.                                            *)
(***************************************************************************)
Texts == {"reply", "noted reply", "limit", "apology"}
Replies == {"reply", "noted reply"}
Received(m) == {sent \in outbox : sent.msg = m /\ sent.ok /\ sent.text # "disclaimer"}
Said(m) == {sent.text : sent \in Received(m)}
SaidTo == [m \in Messages |-> Said(m)]
Ended == {m \in Messages : pc[m] \in {"done", "lost"}}
Kept == {turned.msg : turned \in archive}

Desk == INSTANCE Reception WITH
    Answers <- Texts, answered <- SaidTo, over <- Ended, kept <- Kept

\* The places before an answer, and those after the model's.
Before == {"new", "dedup", "limiter", "optin", "disclaim", "count", "decide", "refuse",
           "download", "call", "wait", "apologise", "send"}
Saving == {"load", "store", "user", "model"}

\* Before its answer a chat has read nothing, and in the saver it has read one
\* reply of the model's.
DeskInv ==
    \A m \in Messages :
        /\ pc[m] \in Before => Said(m) = {}
        /\ pc[m] \in Saving => \E text \in Replies : Said(m) = {text}

\* What a step of m may do to what m's chat has read and to the archive.
Quiet(m) ==
    /\ SaidTo' = SaidTo /\ archive' = archive
    /\ pc'[m] \in Before => pc[m] \in Before
    /\ pc'[m] \in Saving => pc[m] \in Saving

Speaks(m) ==
    /\ pc[m] \in Before /\ pc'[m] \notin Before /\ archive' = archive
    /\ \E text \in Texts :
        /\ SaidTo' = [SaidTo EXCEPT ![m] = @ \cup {text}]
        /\ pc'[m] \in Saving => text \in Replies

Files(m) ==
    /\ pc[m] \in {"user", "model"} /\ pc'[m] \in {"model", "done"}
    /\ SaidTo' = SaidTo
    /\ \E role \in {"user", "model"} : archive' = archive \cup {[role |-> role, msg |-> m]}


\* What a text sent for m does to what the chats have read.
LEMMA SendSaid ==
    ASSUME NEW m \in Messages, NEW text, NEW ok \in BOOLEAN, Send(m, text, ok)
    PROVE SaidTo' = IF ok /\ text # "disclaimer" THEN [SaidTo EXCEPT ![m] = @ \cup {text}]
                                                  ELSE SaidTo
<1> DEFINE new == [msg |-> m, text |-> text, ok |-> ok]
<1>1. new.msg = m /\ new.text = text /\ new.ok = ok
  OBVIOUS
<1>2. outbox' = outbox \cup {new}
  BY DEF Send
<1> HIDE DEF new
<1>3. ASSUME NEW n \in Messages
      PROVE Received(n)' = IF n = m /\ ok /\ text # "disclaimer" THEN Received(n) \cup {new}
                                                                 ELSE Received(n)
  BY <1>1, <1>2 DEF Received
<1>4. ASSUME NEW n \in Messages
      PROVE Said(n)' = IF n = m /\ ok /\ text # "disclaimer" THEN Said(n) \cup {text}
                                                             ELSE Said(n)
  BY <1>1, <1>3 DEF Said
<1> QED
  BY <1>4 DEF SaidTo

LEMMA OutboxSaid ==
    ASSUME outbox' = outbox
    PROVE SaidTo' = SaidTo
BY DEF SaidTo, Said, Received

LEMMA DeskSteps ==
    ASSUME NEW m \in Messages, Bounded, PlainStep(m)
    PROVE Quiet(m) \/ Speaks(m) \/ Files(m)
<1> USE DEF Bounded, Goto, Place, Quiet, Before, Saving, store
<1>1. CASE Receive(m)
  BY <1>1, OutboxSaid DEF Receive
<1>2. CASE Claim(m)
  BY <1>2, OutboxSaid DEF Claim
<1>3. CASE CheckRate(m)
  BY <1>3, OutboxSaid DEF CheckRate
<1>4. CASE OptIn(m)
  BY <1>4, OutboxSaid DEF OptIn
<1>5. CASE Disclaim(m)
  BY <1>5, SendSaid DEF Disclaim
<1>6. CASE Count(m)
  BY <1>6, OutboxSaid DEF Count
<1>7. CASE Decide(m)
  BY <1>7, OutboxSaid DEF Decide, Ask
<1>8. CASE Refuse(m)
  <2>1. PICK ok \in BOOLEAN : Send(m, "limit", ok)
    BY <1>8 DEF Refuse
  <2>2. SaidTo' = IF ok THEN [SaidTo EXCEPT ![m] = @ \cup {"limit"}] ELSE SaidTo
    BY <2>1, SendSaid
  <2>3. pc[m] = "refuse" /\ pc'[m] = "notify" /\ archive' = archive
    BY <1>8 DEF Refuse
  <2> QED
    BY <2>2, <2>3 DEF Speaks, Texts
<1>9. CASE Notify(m)
  BY <1>9, OutboxSaid DEF Notify
<1>10. CASE FallBack(m)
  BY <1>10, OutboxSaid DEF FallBack
<1>11. CASE Download(m)
  BY <1>11, OutboxSaid DEF Download
<1>12. CASE Apologise(m)
  <2>1. PICK ok \in BOOLEAN : Send(m, "apology", ok)
    BY <1>12 DEF Apologise
  <2>2. SaidTo' = IF ok THEN [SaidTo EXCEPT ![m] = @ \cup {"apology"}] ELSE SaidTo
    BY <2>1, SendSaid
  <2>3. pc[m] = "apologise" /\ pc'[m] = "done" /\ archive' = archive
    BY <1>12 DEF Apologise
  <2> QED
    BY <2>2, <2>3 DEF Speaks, Texts
<1>13. CASE Reply(m)
  <2>1. PICK ok \in BOOLEAN, text \in Replies :
          Send(m, text, ok) /\ Goto(m, "send", IF ok THEN "load" ELSE "done")
    BY <1>13 DEF Reply, Replies
  <2>2. SaidTo' = IF ok THEN [SaidTo EXCEPT ![m] = @ \cup {text}] ELSE SaidTo
    <3>1. text # "disclaimer"
      BY DEF Replies
    <3> QED
      BY <2>1, <3>1, SendSaid
  <2>3. pc[m] = "send" /\ pc'[m] = (IF ok THEN "load" ELSE "done") /\ archive' = archive
    BY <1>13, <2>1 DEF Reply
  <2>4. text \in Texts
    BY DEF Replies, Texts
  <2> QED
    BY <2>2, <2>3, <2>4 DEF Speaks
<1>14. CASE LoadHistory(m)
  BY <1>14, OutboxSaid DEF LoadHistory
<1>15. CASE StoreHistory(m)
  BY <1>15, OutboxSaid DEF StoreHistory
<1>16. CASE ArchiveUser(m)
  <2>1. PICK ok \in BOOLEAN :
          archive' = IF ok THEN archive \cup {[role |-> "user", msg |-> m]} ELSE archive
    BY <1>16 DEF ArchiveUser, SaveTurn
  <2>2. pc[m] = "user" /\ pc'[m] = "model" /\ SaidTo' = SaidTo
    BY <1>16, OutboxSaid DEF ArchiveUser, SaveTurn
  <2> QED
    BY <2>1, <2>2 DEF Files
<1>17. CASE ArchiveModel(m)
  <2>1. PICK ok \in BOOLEAN :
          archive' = IF ok THEN archive \cup {[role |-> "model", msg |-> m]} ELSE archive
    BY <1>17 DEF ArchiveModel, SaveTurn
  <2>2. pc[m] = "model" /\ pc'[m] = "done" /\ SaidTo' = SaidTo
    BY <1>17, OutboxSaid DEF ArchiveModel, SaveTurn
  <2> QED
    BY <2>1, <2>2 DEF Files
<1> QED
  BY <1>1, <1>2, <1>3, <1>4, <1>5, <1>6, <1>7, <1>8, <1>9, <1>10, <1>11, <1>12, <1>13,
     <1>14, <1>15, <1>16, <1>17 DEF PlainStep

\* What happens outside the steps of the goroutines says and keeps nothing; a
\* message it ends is lost.
LEMMA DeskElsewhere ==
    ASSUME Bounded, OutsideStep \/ Crash \/ UNCHANGED vars
    PROVE /\ SaidTo' = SaidTo /\ archive' = archive
          /\ \A m \in Messages : pc'[m] = pc[m] \/ (pc'[m] = "lost" /\ pc[m] \notin {"done", "lost"})
<1>1. outbox' = outbox /\ archive' = archive
  BY DEF OutsideStep, NextDay, KeyExpires, SettingsMove, Crash, vars, store
<1>2. ASSUME NEW m \in Messages
      PROVE pc'[m] = pc[m] \/ (pc'[m] = "lost" /\ pc[m] \notin {"done", "lost"})
  BY DEF OutsideStep, NextDay, KeyExpires, SettingsMove, Crash, vars, Active, Over
<1> QED
  BY <1>1, <1>2, OutboxSaid

LEMMA DeskStep ==
    ASSUME Discipline, DeskInv, [Next]_vars
    PROVE DeskInv' /\ [Desk!ReceptionNext]_(Desk!reception)
<1>1. ASSUME NEW m \in Messages, PlainStep(m)
      PROVE DeskInv' /\ Desk!ReceptionNext
  <2>1. Plain(m) /\ (Quiet(m) \/ Speaks(m) \/ Files(m))
    BY <1>1, PlainSteps, DeskSteps DEF Discipline
  <2>2. /\ pc' = [pc EXCEPT ![m] = pc'[m]] /\ pc \in [Messages -> DOMAIN Place]
        /\ pc[m] \notin {"done", "lost"}
    BY <2>1 DEF Plain, Discipline, Bounded, Place
  <2>3. Ended' = Ended \/ Ended' = Ended \cup {m}
    BY <2>2 DEF Ended
  <2>4. m \notin Ended
    BY <2>2 DEF Ended
  <2>5. \A n \in Messages : SaidTo[n] = Said(n) /\ SaidTo'[n] = Said(n)'
    BY DEF SaidTo
  <2>6. CASE Quiet(m)
    <3>1. Desk!Close
      <4>1. Kept' = Kept
        BY <2>6 DEF Quiet, Kept
      <4>2. Ended' = Ended \cup {} \/ Ended' = Ended \cup {m}
        BY <2>3
      <4> QED
        BY <2>6, <4>1, <4>2 DEF Quiet, Desk!Close
    <3> QED
      BY <2>2, <2>5, <2>6, <3>1 DEF Quiet, DeskInv, Desk!ReceptionNext
  <2>7. CASE Speaks(m)
    <3>1. PICK text \in Texts :
            /\ SaidTo' = [SaidTo EXCEPT ![m] = @ \cup {text}]
            /\ pc'[m] \in Saving => text \in Replies
      BY <2>7 DEF Speaks
    <3>2. Said(m) = {} /\ SaidTo' = [SaidTo EXCEPT ![m] = {text}] /\ SaidTo[m] = {}
      <4>1. Said(m) = {}
        BY <2>7 DEF Speaks, DeskInv
      <4>2. SaidTo[m] = {}
        BY <4>1, <2>5
      <4>3. {} \cup {text} = {text}
        OBVIOUS
      <4> QED
        BY <3>1, <4>1, <4>2, <4>3
    <3>3. Kept' = Kept
      BY <2>7 DEF Speaks, Kept
    <3>4. Desk!Answer(m)
      BY <2>3, <2>4, <3>2, <3>3 DEF Desk!Answer
    <3>5. \A n \in Messages : Said(n)' = IF n = m THEN {text} ELSE Said(n)
      BY <2>5, <3>2 DEF SaidTo
    <3> QED
      BY <2>2, <2>7, <3>1, <3>4, <3>5 DEF Speaks, DeskInv, Desk!ReceptionNext
  <2>8. CASE Files(m)
    <3>1. PICK text \in Replies : Said(m) = {text}
      BY <2>8 DEF Files, DeskInv, Saving
    <3>2. PICK role \in {"user", "model"} : archive' = archive \cup {[role |-> role, msg |-> m]}
      BY <2>8 DEF Files
    <3>3. Kept' = Kept \cup {m}
      <4> DEFINE new == [role |-> role, msg |-> m]
      <4>1. archive' = archive \cup {new} /\ new.msg = m
        BY <3>2
      <4> HIDE DEF new
      <4> QED
        BY <4>1 DEF Kept
    <3>4. Desk!Keep(m)
      BY <2>3, <2>4, <2>5, <2>8, <3>1, <3>3 DEF Files, Desk!Keep
    <3> QED
      BY <2>2, <2>5, <2>8, <3>1, <3>4 DEF Files, DeskInv, Desk!ReceptionNext, Before, Saving
  <2> QED
    BY <2>1, <2>6, <2>7, <2>8
<1>2. ASSUME NEW m \in Messages, ModelStep(m)
      PROVE DeskInv' /\ UNCHANGED Desk!reception
  <2>1. /\ outbox' = outbox /\ archive' = archive
        /\ pc[m] \in Before /\ pc'[m] \in Before
        /\ pc' = [pc EXCEPT ![m] = pc'[m]] /\ pc \in [Messages -> DOMAIN Place]
    BY <1>2, ModelSteps DEF ModelStep, CallModel, ModelWorks, ModelReturns, store, Before,
                            Discipline, Bounded
  <2>2. SaidTo' = SaidTo /\ Kept' = Kept
    BY <2>1, OutboxSaid DEF Kept
  <2>3. Ended' = Ended
    BY <2>1 DEF Ended, Before
  <2>4. \A n \in Messages : Said(n)' = Said(n)
    BY <2>1 DEF Said, Received
  <2> QED
    BY <2>1, <2>2, <2>3, <2>4 DEF DeskInv, Before, Saving, Desk!reception
<1>3. ASSUME OutsideStep \/ Crash \/ UNCHANGED vars
      PROVE DeskInv' /\ Desk!ReceptionNext
  <2>1. /\ SaidTo' = SaidTo /\ archive' = archive
        /\ \A m \in Messages : pc'[m] = pc[m] \/ (pc'[m] = "lost" /\ pc[m] \notin {"done", "lost"})
    BY <1>3, DeskElsewhere DEF Discipline
  <2>2. Ended' = Ended \cup Ended' /\ Ended' \in SUBSET Messages
    BY <2>1 DEF Ended
  <2>3. Kept' = Kept
    BY <2>1 DEF Kept
  <2>4. Desk!Close
    BY <2>1, <2>2, <2>3 DEF Desk!Close
  <2>5. \A n \in Messages : Said(n)' = Said(n)
    BY <2>1 DEF SaidTo
  <2> QED
    BY <2>1, <2>4, <2>5 DEF DeskInv, Before, Saving, Desk!ReceptionNext
<1> QED
  BY <1>1, <1>2, <1>3, NextSplits

\* Every step of the channel is one that Reception allows: of one message at
\* most one answer is read, however its goroutine ends, and its rows follow a
\* reply (processText and processImage, which save only what was sent).
THEOREM KeepsReception ==
    Spec => Desk!ReceptionInit /\ [][Desk!ReceptionNext]_(Desk!reception)
<1>1. Init => DeskInv /\ Desk!ReceptionInit
  BY DEF Init, DeskInv, Desk!ReceptionInit, SaidTo, Said, Received, Ended, Kept, Saving
<1> QED
  BY <1>1, DeskStep, DisciplineInit, DisciplineStep, PTL DEF Spec

-----------------------------------------------------------------------------
(***************************************************************************)
(* The conversation of a chat is made of whole exchanges of its own, each  *)
(* of a message the model's reply to which was read.  So is what a saver   *)
(* has loaded: the cut of loadHistory falls between two exchanges, because *)
(* the maximum is even.                                                    *)
(***************************************************************************)
Turns == [role : {"user", "model"}, msg : Messages]

Replied(m) == \E text \in Replies : text \in Said(m)

Whole(c, turns) ==
    \E k \in Nat :
        /\ Len(turns) = 2 * k
        /\ \A i \in 1 .. k : \E m \in Messages :
            /\ turns[2 * i - 1] = [role |-> "user", msg |-> m]
            /\ turns[2 * i] = [role |-> "model", msg |-> m]
            /\ Chat[m] = c /\ Replied(m)

Conversations ==
    /\ \A c \in Chats : Whole(c, hist[c]) /\ Len(hist[c]) <= MaxHistory + 2
    /\ \A m \in Messages : Whole(Chat[m], read[m]) /\ Len(read[m]) <= MaxHistory

ConversationTypes == hist \in [Chats -> Seq(Turns)] /\ read \in [Messages -> Seq(Turns)]

LEMMA ExchangeType ==
    ASSUME NEW m \in Messages
    PROVE /\ Exchange(m) \in Seq(Turns) /\ Len(Exchange(m)) = 2
          /\ Exchange(m)[1] = [role |-> "user", msg |-> m]
          /\ Exchange(m)[2] = [role |-> "model", msg |-> m]
BY DEF Exchange, Turns

LEMMA HalfOfMax == \E h \in Nat : MaxHistory = 2 * h
<1>1. MaxHistory \in Nat /\ MaxHistory % 2 = 0
  BY TelegramAssumption
<1>2. MaxHistory = 2 * (MaxHistory \div 2) /\ MaxHistory \div 2 \in Nat
  BY <1>1
<1> QED
  BY <1>2

LEMMA NothingIsWhole == \A c : Whole(c, <<>>)
BY DEF Whole

LEMMA WholeStays ==
    ASSUME \A m \in Messages : Said(m) \subseteq Said(m)', NEW c, NEW turns, Whole(c, turns)
    PROVE Whole(c, turns)'
BY DEF Whole, Replied

\* Adding an exchange keeps a conversation whole.
LEMMA WholeGrows ==
    ASSUME NEW c, NEW turns \in Seq(Turns), Whole(c, turns),
           NEW m \in Messages, Chat[m] = c, Replied(m)
    PROVE /\ Whole(c, turns \o Exchange(m))
          /\ Len(turns \o Exchange(m)) = Len(turns) + 2
          /\ turns \o Exchange(m) \in Seq(Turns)
<1> DEFINE added == Exchange(m)
           longer == turns \o added
<1>1. /\ added \in Seq(Turns) /\ Len(added) = 2
      /\ added[1] = [role |-> "user", msg |-> m]
      /\ added[2] = [role |-> "model", msg |-> m]
  BY ExchangeType
<1> HIDE DEF added
<1>2. /\ longer \in Seq(Turns) /\ Len(longer) = Len(turns) + 2
      /\ \A i \in 1 .. Len(turns) + 2 :
            longer[i] = IF i <= Len(turns) THEN turns[i] ELSE added[i - Len(turns)]
  <2>1. /\ turns \o added \in Seq(Turns) /\ Len(turns \o added) = Len(turns) + Len(added)
        /\ \A i \in 1 .. Len(turns) + Len(added) :
              (turns \o added)[i] = IF i <= Len(turns) THEN turns[i] ELSE added[i - Len(turns)]
    BY <1>1, ConcatProperties
  <2> QED
    BY <1>1, <2>1
<1>3. PICK k \in Nat :
        /\ Len(turns) = 2 * k
        /\ \A i \in 1 .. k : \E n \in Messages :
            /\ turns[2 * i - 1] = [role |-> "user", msg |-> n]
            /\ turns[2 * i] = [role |-> "model", msg |-> n]
            /\ Chat[n] = c /\ Replied(n)
  BY DEF Whole
<1> HIDE DEF longer
<1>4. Len(longer) = 2 * (k + 1) /\ k + 1 \in Nat
  BY <1>2, <1>3
<1>5. ASSUME NEW i \in 1 .. k + 1
      PROVE \E n \in Messages :
                /\ longer[2 * i - 1] = [role |-> "user", msg |-> n]
                /\ longer[2 * i] = [role |-> "model", msg |-> n]
                /\ Chat[n] = c /\ Replied(n)
  <2>1. CASE i \in 1 .. k
    <3>1. 2 * i - 1 \in 1 .. 2 * k /\ 2 * i \in 1 .. 2 * k
      BY <1>3, <2>1
    <3>2. longer[2 * i - 1] = turns[2 * i - 1] /\ longer[2 * i] = turns[2 * i]
      BY <1>2, <1>3, <3>1
    <3>3. PICK n \in Messages :
            /\ turns[2 * i - 1] = [role |-> "user", msg |-> n]
            /\ turns[2 * i] = [role |-> "model", msg |-> n]
            /\ Chat[n] = c /\ Replied(n)
      BY <1>3, <2>1
    <3> QED
      BY <3>2, <3>3
  <2>2. CASE i = k + 1
    <3>0. 2 * i - 1 = 2 * k + 1 /\ 2 * i = 2 * k + 2
      BY <2>2
    <3> DEFINE n == Len(turns)
    <3>2. n = 2 * k /\ n \in Nat
      BY <1>3
    <3>3. /\ longer[n + 1] = IF n + 1 <= n THEN turns[n + 1] ELSE added[(n + 1) - n]
          /\ longer[n + 2] = IF n + 2 <= n THEN turns[n + 2] ELSE added[(n + 2) - n]
      BY <1>2, <3>2
    <3> HIDE DEF n
    <3>4. (n + 1) - n = 1 /\ (n + 2) - n = 2 /\ ~(n + 1 <= n) /\ ~(n + 2 <= n)
      BY <3>2
    <3>1. longer[2 * i - 1] = added[1] /\ longer[2 * i] = added[2]
      BY <3>0, <3>2, <3>3, <3>4
    <3> QED
      BY <1>1, <3>1
  <2>3. i \in 1 .. k \/ i = k + 1
    OBVIOUS
  <2> QED
    BY <2>1, <2>2, <2>3
<1> QED
  BY <1>2, <1>4, <1>5 DEF longer, added, Whole

\* So does the cut of loadHistory.
LEMMA WholeRecent ==
    ASSUME NEW c, NEW turns \in Seq(Turns), Whole(c, turns)
    PROVE /\ Whole(c, Recent(turns)) /\ Len(Recent(turns)) <= MaxHistory
          /\ Recent(turns) \in Seq(Turns)
<1>0. /\ Len(turns) \in Nat /\ turns \in [1 .. Len(turns) -> Turns] /\ MaxHistory \in Nat
  BY LenProperties, TelegramAssumption
<1>1. CASE Len(turns) > MaxHistory
  <2> DEFINE first == Len(turns) - MaxHistory + 1
  <2>1. PICK k \in Nat :
          /\ Len(turns) = 2 * k
          /\ \A i \in 1 .. k : \E n \in Messages :
              /\ turns[2 * i - 1] = [role |-> "user", msg |-> n]
              /\ turns[2 * i] = [role |-> "model", msg |-> n]
              /\ Chat[n] = c /\ Replied(n)
    BY DEF Whole
  <2>2. PICK h \in Nat : MaxHistory = 2 * h
    BY HalfOfMax
  <2>3. first \in Int /\ \A i \in first .. Len(turns) : turns[i] \in Turns
    BY <1>0, <1>1
  <2>4. /\ Len(Recent(turns)) = MaxHistory
        /\ \A i \in 1 .. MaxHistory : Recent(turns)[i] = turns[first + i - 1]
        /\ Recent(turns) \in Seq(Turns)
    BY <1>0, <1>1, <2>3, SubSeqProperties DEF Recent
  <2>5. ASSUME NEW i \in 1 .. h
        PROVE \E n \in Messages :
                  /\ Recent(turns)[2 * i - 1] = [role |-> "user", msg |-> n]
                  /\ Recent(turns)[2 * i] = [role |-> "model", msg |-> n]
                  /\ Chat[n] = c /\ Replied(n)
    <3>1. i + (k - h) \in 1 .. k
      BY <1>1, <2>1, <2>2
    <3>2. /\ Recent(turns)[2 * i - 1] = turns[2 * (i + (k - h)) - 1]
          /\ Recent(turns)[2 * i] = turns[2 * (i + (k - h))]
      <4>1. 2 * i - 1 \in 1 .. MaxHistory /\ 2 * i \in 1 .. MaxHistory
        BY <2>2
      <4>2. /\ first + (2 * i - 1) - 1 = 2 * (i + (k - h)) - 1
            /\ first + 2 * i - 1 = 2 * (i + (k - h))
        BY <2>1, <2>2
      <4> HIDE DEF first
      <4> QED
        BY <2>4, <4>1, <4>2
    <3> QED
      BY <2>1, <3>1, <3>2
  <2>6. Whole(c, Recent(turns))
    BY <2>2, <2>4, <2>5 DEF Whole
  <2> QED
    BY <1>0, <2>4, <2>6
<1>2. CASE ~ (Len(turns) > MaxHistory)
  BY <1>0, <1>2 DEF Recent
<1> QED
  BY <1>1, <1>2

\* What a step of m does to the conversations.
LEMMA ConversationSteps ==
    ASSUME NEW m \in Messages, PlainStep(m)
    PROVE \/ /\ hist' = hist
             /\ \E turns \in {read[m], Recent(hist[Chat[m]]), <<>>} :
                   read' = [read EXCEPT ![m] = turns] \/ read' = read
          \/ /\ hist' = [hist EXCEPT ![Chat[m]] = read[m] \o Exchange(m)]
             /\ read' = [read EXCEPT ![m] = <<>>] /\ pc[m] = "store"
<1> USE DEF redis, store
<1>1. CASE LoadHistory(m)
  BY <1>1 DEF LoadHistory
<1>2. CASE StoreHistory(m)
  BY <1>2 DEF StoreHistory, Goto
<1>3. CASE ~ (LoadHistory(m) \/ StoreHistory(m))
  <2>1. hist' = hist /\ read' = read
    BY <1>3 DEF PlainStep, Receive, Claim, CheckRate, OptIn, Disclaim, Count, Decide, Refuse,
                Notify, FallBack, Download, Apologise, Reply, ArchiveUser, ArchiveModel, SaveTurn
  <2> QED
    BY <2>1
<1> QED
  BY <1>1, <1>2, <1>3

\* What was said to a chat is not unsaid.
LEMMA SaidStays ==
    ASSUME Discipline, [Next]_vars
    PROVE \A m \in Messages : Said(m) \subseteq Said(m)'
<1>0. \A m \in Messages : SaidTo[m] = Said(m) /\ SaidTo'[m] = Said(m)'
  BY DEF SaidTo
<1>1. ASSUME NEW m \in Messages, PlainStep(m)
      PROVE SaidTo' = SaidTo \/ \E text : SaidTo' = [SaidTo EXCEPT ![m] = @ \cup {text}]
  BY <1>1, DeskSteps DEF Discipline, Quiet, Speaks, Files
<1>2. ASSUME NEW m \in Messages, ModelStep(m)
      PROVE SaidTo' = SaidTo
  BY <1>2, ModelSteps, OutboxSaid
<1>3. ASSUME OutsideStep \/ Crash \/ UNCHANGED vars
      PROVE SaidTo' = SaidTo
  BY <1>3, DeskElsewhere DEF Discipline
<1>4. SaidTo' = SaidTo \/ \E m \in Messages : \E text : SaidTo' = [SaidTo EXCEPT ![m] = @ \cup {text}]
  BY <1>1, <1>2, <1>3, NextSplits
<1> QED
  BY <1>0, <1>4 DEF SaidTo

LEMMA ConversationStep ==
    ASSUME Discipline, DeskInv, Conversations, ConversationTypes, [Next]_vars
    PROVE Conversations' /\ ConversationTypes'
<1>0. /\ \A m \in Messages : Chat[m] \in Chats
      /\ MaxHistory \in Nat /\ <<>> \in Seq(Turns) /\ Len(<<>>) = 0
  BY TelegramAssumption DEF Chats
<1>1. \A c, turns : Whole(c, turns) => Whole(c, turns)'
  BY SaidStays, WholeStays
<1>2. \A c : Whole(c, <<>>)
  BY NothingIsWhole
<1>3. ASSUME NEW m \in Messages, PlainStep(m)
      PROVE Conversations' /\ ConversationTypes'
  <2> DEFINE c == Chat[m]
             loaded == Recent(hist[c])
             stored == read[m] \o Exchange(m)
  <2>1. c \in Chats /\ hist[c] \in Seq(Turns) /\ read[m] \in Seq(Turns)
    BY <1>0 DEF ConversationTypes
  <2>2. Whole(c, loaded) /\ Len(loaded) <= MaxHistory /\ loaded \in Seq(Turns)
    BY <2>1, WholeRecent DEF Conversations
  <2>3. pc[m] = "store" =>
          Whole(c, stored) /\ Len(stored) <= MaxHistory + 2 /\ stored \in Seq(Turns)
    <3>1. pc[m] = "store" => Replied(m)
      BY DEF DeskInv, Saving, Replied
    <3>2. Whole(c, read[m]) /\ Len(read[m]) \in Nat /\ Len(read[m]) <= MaxHistory
      BY <2>1 DEF Conversations
    <3> QED
      BY <1>0, <2>1, <3>1, <3>2, WholeGrows
  <2>4. \/ /\ hist' = hist
           /\ \E turns \in {read[m], loaded, <<>>} :
                 read' = [read EXCEPT ![m] = turns] \/ read' = read
        \/ /\ hist' = [hist EXCEPT ![c] = stored]
           /\ read' = [read EXCEPT ![m] = <<>>] /\ pc[m] = "store"
    BY <1>3, ConversationSteps
  <2> HIDE DEF loaded, stored
  <2>5. /\ Whole(c, read[m]) /\ Len(read[m]) <= MaxHistory /\ Len(<<>>) <= MaxHistory
        /\ hist \in [Chats -> Seq(Turns)] /\ read \in [Messages -> Seq(Turns)]
    BY <1>0 DEF Conversations, ConversationTypes
  <2>6. ConversationTypes'
    BY <1>0, <2>1, <2>2, <2>3, <2>4, <2>5 DEF ConversationTypes
  <2>7. ASSUME NEW b \in Chats
        PROVE Whole(b, hist'[b]) /\ Len(hist'[b]) <= MaxHistory + 2
    BY <2>1, <2>3, <2>4, <2>5 DEF Conversations
  <2>8. ASSUME NEW n \in Messages
        PROVE Whole(Chat[n], read'[n]) /\ Len(read'[n]) <= MaxHistory
    <3>1. Whole(Chat[n], read[n]) /\ Len(read[n]) <= MaxHistory
      BY DEF Conversations
    <3>2. CASE n # m
      <4>0. read' = read \/ \E turns : read' = [read EXCEPT ![m] = turns]
        BY <2>4
      <4>1. read'[n] = read[n]
        BY <2>5, <3>2, <4>0
      <4> QED
        BY <3>1, <4>1
    <3>3. CASE n = m
      <4>1. read'[m] \in {read[m], loaded, <<>>}
        BY <2>4, <2>5
      <4> QED
        BY <1>2, <2>2, <2>5, <3>3, <4>1
    <3> QED
      BY <3>2, <3>3
  <2> QED
    BY <1>1, <2>6, <2>7, <2>8 DEF Conversations
<1>4. ASSUME NEW m \in Messages, ModelStep(m)
      PROVE hist' = hist /\ read' = read
  BY <1>4 DEF ModelStep, CallModel, ModelWorks, ModelReturns, redis, store
<1>5. ASSUME OutsideStep \/ Crash \/ UNCHANGED vars
      PROVE /\ \/ hist' = hist
               \/ \E c \in Chats : hist' = [hist EXCEPT ![c] = <<>>]
            /\ read' = read \/ read' = [m \in Messages |-> <<>>]
  BY <1>5 DEF OutsideStep, NextDay, KeyExpires, SettingsMove, Crash, vars, redis, store
<1>6. ASSUME /\ \/ hist' = hist
                \/ \E c \in Chats : hist' = [hist EXCEPT ![c] = <<>>]
             /\ read' = read \/ read' = [m \in Messages |-> <<>>]
      PROVE Conversations' /\ ConversationTypes'
  <2>1. ConversationTypes'
    BY <1>0, <1>6 DEF ConversationTypes
  <2>2. ASSUME NEW b \in Chats
        PROVE Whole(b, hist'[b]) /\ Len(hist'[b]) <= MaxHistory + 2
    BY <1>0, <1>2, <1>6 DEF Conversations, ConversationTypes
  <2>3. ASSUME NEW n \in Messages
        PROVE Whole(Chat[n], read'[n]) /\ Len(read'[n]) <= MaxHistory
    BY <1>0, <1>2, <1>6 DEF Conversations, ConversationTypes
  <2> QED
    BY <1>1, <2>1, <2>2, <2>3 DEF Conversations
<1> QED
  BY <1>3, <1>4, <1>5, <1>6, NextSplits

\* However savers overlap, fail or are lost, the history of a chat is a row of
\* its own answered exchanges, at most one above the maximum (saveHistoryAsync,
\* loadHistory).
THEOREM ConversationsStayWhole == Spec => []Conversations
<1>1. Init => Conversations /\ ConversationTypes
  <2> SUFFICES ASSUME Init PROVE Conversations /\ ConversationTypes
    OBVIOUS
  <2>1. /\ hist = [c \in Chats |-> <<>>] /\ read = [m \in Messages |-> <<>>]
        /\ <<>> \in Seq(Turns) /\ Len(<<>>) = 0 /\ MaxHistory \in Nat
    BY TelegramAssumption DEF Init
  <2> QED
    BY <2>1, NothingIsWhole DEF Conversations, ConversationTypes
<1>2. Init => DeskInv
  BY DEF Init, DeskInv, Said, Received, Saving
<1> QED
  BY <1>1, <1>2, ConversationStep, DeskStep, DisciplineInit, DisciplineStep, PTL DEF Spec

=============================================================================
