----------------------------- MODULE WaProcessor -----------------------------
(***************************************************************************)
(* The WhatsApp channel: what happens to the messages Meta delivers,       *)
(* internal/whatsapp/handler.go and processor.go.                          *)
(*                                                                         *)
(* Meta posts a webhook (a delivery) with one or more messages and may     *)
(* post the same one again.  The handler acknowledges it at once and       *)
(* processes it in a goroutine of its own: the messages of one delivery    *)
(* one after another, different deliveries concurrently.  A message goes   *)
(* through deduplication, the daily limiter, the privacy notice, the       *)
(* sender's daily quota, Gemini and the reply; after a reply a further     *)
(* goroutine (a saver) updates the conversation kept in Redis and archives *)
(* both turns in PostgreSQL.                                               *)
(*                                                                         *)
(* An action is one call to Redis, Meta, Vertex AI or PostgreSQL with the  *)
(* decision taken on its result: between two of them anything else may     *)
(* run, a key may expire, a call may fail, the server may be restarted.    *)
(* What only shapes the text of the prompt (the history loaded before the  *)
(* call, the customer's profile) is left out, and so are the tools Gemini  *)
(* may call.                                                               *)
(***************************************************************************)
EXTENDS Integers, Sequences, FiniteSets

CONSTANTS
    Deliveries,   \* webhook posts, each handled by one goroutine
    Messages,     \* message ids assigned by Meta (wamid)
    Phones,       \* senders
    Payload,      \* Payload[d]: the messages of delivery d, in order
    From,         \* From[m]: the sender of m
    Kind,         \* Kind[m]: "text", "image" or "other"
    Asesor,       \* the sender that is the human advisor (TelAsesor)
    MaxMsgs,      \* wa_max_mensajes_dia, 20 by default
    MaxHistory,   \* maxHistoryTurns, 50
    LastDay,      \* bound: Costa Rica days 0 .. LastDay
    MaxFaults,    \* bound: calls that fail
    MaxExpiries,  \* bound: keys that reach their TTL
    MaxCrashes    \* bound: restarts of the server

Kinds == {"text", "image", "other"}

ASSUME MessagesAssumption ==
    /\ From \in [Messages -> Phones]
    /\ Kind \in [Messages -> Kinds]
    /\ Payload \in [Deliveries -> Seq(Messages)]
\* Turns are kept in pairs; the code's constant is even.
ASSUME HistoryAssumption == MaxHistory \in Nat /\ MaxHistory % 2 = 0
ASSUME QuotaAssumption == MaxMsgs \in Nat
ASSUME BoundsAssumption ==
    LastDay \in Nat /\ MaxFaults \in Nat /\ MaxExpiries \in Nat /\ MaxCrashes \in Nat

Days == 0 .. LastDay

VARIABLES
    \* the processing goroutines
    pc,         \* pc[d]: what delivery d does next
    rest,       \* rest[d]: its messages still to process, the current one first
    tally,      \* tally[d]: the daily count its current message got
    savers,     \* the goroutines started by `go saveHistoryAsync`
    \* Redis
    dedup,      \* messages whose wa:dedup key is set
    optin,      \* senders whose wa:optin key is set
    limit,      \* limit[day][p]: the counter wa:limit:{p}:{day}
    hist,       \* hist[p]: the turns under wa:hist:{p}; <<>> if there is none
    \* PostgreSQL and Meta
    archive,    \* rows of whatsapp_conversations
    outbox,     \* every SendText to the sender or the advisor, and its outcome
    \* the environment
    today,      \* the date in Costa Rica
    faults, expiries, crashes,
    \* history variables
    lapsed,     \* messages whose deduplication key has expired
    optinLapsed,\* senders whose opt-in key has expired
    admitted,   \* <<d, m>> that passed deduplication and the limiter
    disturbed   \* senders whose stored history may have lost turns

handlers == <<pc, rest, tally>>
redis == <<dedup, optin, limit, hist>>
env == <<today, faults, expiries, crashes>>
history == <<lapsed, optinLapsed, admitted, disturbed>>
vars == <<handlers, savers, redis, archive, outbox, env, history>>

\* A count and the day it was taken; no count has n = 0 (INCR gives at least 1).
Tally == [day : Days, n : Nat]
NoTally == [day |-> 0, n |-> 0]

Turn == [role : {"user", "model"}, msg : Messages]
Exchange(m) == <<[role |-> "user", msg |-> m], [role |-> "model", msg |-> m]>>

Locations == {"new", "loop", "check", "optin", "disclaim", "count", "refuse",
              "notify", "download", "gemini", "apologise", "send",
              "done", "lost"}
\* Where a delivery is while it works on a message it has claimed.
Working == Locations \ {"new", "loop", "done", "lost"}

SaverPoints == {"load", "set", "user", "model"}

\* What is sent: the privacy notice, the two messages of a refusal, an apology
\* for a failure, the reply, and the reply with the "te quedan 2" note.
Texts == {"disclaimer", "limit", "advisor", "apology", "reply", "noted reply"}
Replies == {"reply", "noted reply"}

Init ==
    /\ pc = [d \in Deliveries |-> "new"]
    /\ rest = [d \in Deliveries |-> <<>>]
    /\ tally = [d \in Deliveries |-> NoTally]
    /\ savers = {}
    /\ dedup = {} /\ optin = {}
    /\ limit = [day \in Days |-> [p \in Phones |-> 0]]
    /\ hist = [p \in Phones |-> <<>>]
    /\ archive = {} /\ outbox = {}
    /\ today = 0 /\ faults = 0 /\ expiries = 0 /\ crashes = 0
    /\ lapsed = {} /\ optinLapsed = {} /\ admitted = {} /\ disturbed = {}

-----------------------------------------------------------------------------
\* The goroutine of a delivery.

Msg(d) == Head(rest[d])
Sender(d) == From[Msg(d)]

Goto(d, from, to) ==
    /\ pc[d] = from
    /\ pc' = [pc EXCEPT ![d] = to]
    /\ UNCHANGED <<rest, tally>>

\* processTextMessage or processImageMessage returns; the loop goes on.
Leave(d, from) ==
    /\ pc[d] = from
    /\ pc' = [pc EXCEPT ![d] = "loop"]
    /\ rest' = [rest EXCEPT ![d] = Tail(@)]
    /\ tally' = [tally EXCEPT ![d] = NoTally]

Fault ==
    /\ faults < MaxFaults
    /\ faults' = faults + 1
    /\ UNCHANGED <<today, expiries, crashes>>

\* SendText, which may fail: ok says whether it reported success.
SendText(d, text, ok) ==
    /\ outbox' = outbox \union
           {[delivery |-> d, msg |-> Msg(d), text |-> text, ok |-> ok,
             tally |-> tally[d]]}
    /\ IF ok THEN UNCHANGED env ELSE Fault

\* HandleMessage acknowledges the post and starts Process.
Receive(d) ==
    /\ pc[d] = "new"
    /\ pc' = [pc EXCEPT ![d] = "loop"]
    /\ rest' = [rest EXCEPT ![d] = Payload[d]]
    /\ UNCHANGED <<tally, savers, redis, archive, outbox, env, history>>

Finish(d) ==
    /\ rest[d] = <<>>
    /\ Goto(d, "loop", "done")
    /\ UNCHANGED <<savers, redis, archive, outbox, env, history>>

\* A type the channel does not serve, or a message whose key is still set.
Skip(d) ==
    /\ rest[d] # <<>>
    /\ Kind[Msg(d)] = "other" \/ Msg(d) \in dedup
    /\ Leave(d, "loop")
    /\ UNCHANGED <<savers, redis, archive, outbox, env, history>>

\* Mutant: the answer of SETNX is ignored.
ClaimBlindly(d) ==
    /\ rest[d] # <<>> /\ Kind[Msg(d)] # "other"
    /\ Goto(d, "loop", "check")
    /\ dedup' = dedup \union {Msg(d)}
    /\ UNCHANGED <<savers, optin, limit, hist, archive, outbox, env, history>>

\* Mutant: a lock for each sender, held while one of its messages is worked on.
ClaimLocked(d) ==
    /\ rest[d] # <<>> /\ Kind[Msg(d)] # "other" /\ Msg(d) \notin dedup
    /\ \A e \in Deliveries \ {d} : pc[e] \in Working => Sender(e) # Sender(d)
    /\ Goto(d, "loop", "check")
    /\ dedup' = dedup \union {Msg(d)}
    /\ UNCHANGED <<savers, optin, limit, hist, archive, outbox, env, history>>

\* SETNX of the deduplication key claims the message, atomically.
Claim(d) ==
    /\ rest[d] # <<>> /\ Kind[Msg(d)] # "other" /\ Msg(d) \notin dedup
    /\ Goto(d, "loop", "check")
    /\ dedup' = dedup \union {Msg(d)}
    /\ UNCHANGED <<savers, optin, limit, hist, archive, outbox, env, history>>

\* Without an answer from Redis the message is given up.
ClaimFails(d) ==
    /\ rest[d] # <<>> /\ Kind[Msg(d)] # "other"
    /\ Leave(d, "loop")
    /\ Fault
    /\ UNCHANGED <<savers, redis, archive, outbox, history>>

\* The limiter's verdict: only Deny matters here (module RateLimiter).
Check(d) ==
    /\ \/ /\ Leave(d, "check")
          /\ UNCHANGED admitted
       \/ /\ Goto(d, "check", "optin")
          /\ admitted' = admitted \union {<<d, Msg(d)>>}
    /\ UNCHANGED <<savers, redis, archive, outbox, env,
                   lapsed, optinLapsed, disturbed>>

\* Mutant: the opt-in key is read instead of claimed.
OptInUnclaimed(d) ==
    /\ pc[d] = "optin"
    /\ Goto(d, "optin", IF Sender(d) \in optin THEN "count" ELSE "disclaim")
    /\ UNCHANGED <<savers, redis, archive, outbox, env, history>>

\* SETNX of the opt-in key; a failure counts as "not the first contact".
OptIn(d) ==
    /\ pc[d] = "optin"
    /\ \/ /\ Sender(d) \notin optin
          /\ optin' = optin \union {Sender(d)}
          /\ Goto(d, "optin", "disclaim")
          /\ UNCHANGED env
       \/ /\ Sender(d) \in optin
          /\ Goto(d, "optin", "count")
          /\ UNCHANGED <<optin, env>>
       \/ /\ Goto(d, "optin", "count")
          /\ Fault
          /\ UNCHANGED optin
    /\ UNCHANGED <<savers, dedup, limit, hist, archive, outbox, history>>

Disclaim(d) ==
    /\ Goto(d, "disclaim", "count")
    /\ \E ok \in BOOLEAN : SendText(d, "disclaimer", ok)
    /\ UNCHANGED <<savers, redis, archive, history>>

\* The advisor is exempt when it writes text, not when it sends an image.
Exempt(m) == From[m] = Asesor /\ Kind[m] = "text"

AfterQuota(m) == IF Kind[m] = "image" THEN "download" ELSE "gemini"

\* Mutant: the maximum is compared with the count before this message.
CountBefore(d) == LET n == limit[today][Sender(d)] + 1 IN
    /\ pc[d] = "count"
    /\ limit' = [limit EXCEPT ![today][Sender(d)] = n]
    /\ tally' = [tally EXCEPT ![d] = [day |-> today, n |-> n]]
    /\ pc' = [pc EXCEPT ![d] = IF n - 1 > MaxMsgs /\ ~ Exempt(Msg(d))
                               THEN "refuse" ELSE AfterQuota(Msg(d))]
    /\ UNCHANGED <<rest, savers, dedup, optin, hist, archive, outbox, env, history>>

\* checkDailyLimit increments and returns the counter; above the maximum the
\* message is refused.
Count(d) == LET n == limit[today][Sender(d)] + 1 IN
    /\ pc[d] = "count"
    /\ limit' = [limit EXCEPT ![today][Sender(d)] = n]
    /\ tally' = [tally EXCEPT ![d] = [day |-> today, n |-> n]]
    /\ pc' = [pc EXCEPT ![d] = IF n > MaxMsgs /\ ~ Exempt(Msg(d))
                               THEN "refuse" ELSE AfterQuota(Msg(d))]
    /\ UNCHANGED <<rest, savers, dedup, optin, hist, archive, outbox, env, history>>

\* INCR fails: the message is served without a count.
CountFails(d) ==
    /\ Goto(d, "count", AfterQuota(Msg(d)))
    /\ Fault
    /\ UNCHANGED <<savers, redis, archive, outbox, history>>

\* A refusal: the notice to the customer, then the one to the advisor.
Refuse(d) ==
    /\ Goto(d, "refuse", "notify")
    /\ \E ok \in BOOLEAN : SendText(d, "limit", ok)
    /\ UNCHANGED <<savers, redis, archive, history>>

Notify(d) ==
    /\ Leave(d, "notify")
    /\ \E ok \in BOOLEAN : SendText(d, "advisor", ok)
    /\ UNCHANGED <<savers, redis, archive, history>>

Download(d) ==
    /\ \/ Goto(d, "download", "gemini") /\ UNCHANGED env
       \/ Goto(d, "download", "apologise") /\ Fault
    /\ UNCHANGED <<savers, redis, archive, outbox, history>>

\* Mutant: an error of Gemini ends the message without a word.
GeminiSilent(d) ==
    /\ \/ Goto(d, "gemini", "send") /\ UNCHANGED env
       \/ Leave(d, "gemini") /\ Fault
    /\ UNCHANGED <<savers, redis, archive, outbox, history>>

\* CallWithTools or CallWithImage: a response, or an error after its retries, or
\* neither: the context of the call has no deadline.
Gemini(d) ==
    /\ \/ Goto(d, "gemini", "send") /\ UNCHANGED env
       \/ Goto(d, "gemini", "apologise") /\ Fault
    /\ UNCHANGED <<savers, redis, archive, outbox, history>>

Apologise(d) ==
    /\ Leave(d, "apologise")
    /\ \E ok \in BOOLEAN : SendText(d, "apology", ok)
    /\ UNCHANGED <<savers, redis, archive, history>>

\* The note is added to the text whose count leaves two messages for the day.
NoteDue(d) ==
    /\ Kind[Msg(d)] = "text" /\ ~ Exempt(Msg(d))
    /\ tally[d].n # 0 /\ tally[d].n = MaxMsgs - 2

\* Mutant: the exchange is saved whether or not the reply was sent.
ReplySavedAnyway(d) ==
    /\ Leave(d, "send")
    /\ \E ok \in BOOLEAN :
        SendText(d, IF NoteDue(d) THEN "noted reply" ELSE "reply", ok)
    /\ savers' = savers \union {[delivery |-> d, msg |-> Msg(d),
                                 at |-> "load", snap |-> <<>>]}
    /\ UNCHANGED <<redis, archive, history>>

Reply(d) ==
    /\ Leave(d, "send")
    /\ \E ok \in BOOLEAN :
        /\ SendText(d, IF NoteDue(d) THEN "noted reply" ELSE "reply", ok)
        /\ savers' = IF ok
                     THEN savers \union {[delivery |-> d, msg |-> Msg(d),
                                          at |-> "load", snap |-> <<>>]}
                     ELSE savers
    /\ UNCHANGED <<redis, archive, history>>

-----------------------------------------------------------------------------
\* The saver of a reply: saveHistoryAsync.

SaverPhone(s) == From[s.msg]

Advance(s, to) == savers' = (savers \ {s}) \union {[s EXCEPT !.at = to]}

\* Mutant: one turn fewer is kept.
RecentOffByOne(turns) ==
    IF Len(turns) > MaxHistory
    THEN SubSeq(turns, Len(turns) - MaxHistory + 2, Len(turns))
    ELSE turns

\* loadHistory keeps the last MaxHistory turns.
Recent(turns) ==
    IF Len(turns) > MaxHistory
    THEN SubSeq(turns, Len(turns) - MaxHistory + 1, Len(turns))
    ELSE turns

Loaded(s, turns) ==
    savers' = (savers \ {s}) \union {[s EXCEPT !.at = "set", !.snap = turns]}

\* A saver of the same sender has read the history and not written it yet.
Overlapped(s) ==
    \E t \in savers \ {s} : SaverPhone(t) = SaverPhone(s) /\ t.at = "set"

Load(s) == LET turns == hist[SaverPhone(s)] IN
    /\ s.at = "load"
    /\ Loaded(s, Recent(turns))
    /\ disturbed' = IF Overlapped(s) \/ Recent(turns) # turns
                    THEN disturbed \union {SaverPhone(s)}
                    ELSE disturbed
    /\ UNCHANGED <<handlers, redis, archive, outbox, env,
                   lapsed, optinLapsed, admitted>>

\* A failed GET is taken for an empty history.
LoadFails(s) ==
    /\ s.at = "load"
    /\ Loaded(s, <<>>)
    /\ Fault
    /\ disturbed' = disturbed \union {SaverPhone(s)}
    /\ UNCHANGED <<handlers, redis, archive, outbox,
                   lapsed, optinLapsed, admitted>>

\* Mutant: the new exchange replaces the history.
StoreOnlyNew(s) ==
    /\ s.at = "set"
    /\ hist' = [hist EXCEPT ![SaverPhone(s)] = Exchange(s.msg)]
    /\ Advance(s, "user")
    /\ UNCHANGED <<handlers, dedup, optin, limit, archive, outbox, env, history>>

\* The whole history is written back with the new exchange at its end.
Store(s) ==
    /\ s.at = "set"
    /\ hist' = [hist EXCEPT ![SaverPhone(s)] = s.snap \o Exchange(s.msg)]
    /\ Advance(s, "user")
    /\ UNCHANGED <<handlers, dedup, optin, limit, archive, outbox, env, history>>

StoreFails(s) ==
    /\ s.at = "set"
    /\ Advance(s, "user")
    /\ Fault
    /\ disturbed' = disturbed \union {SaverPhone(s)}
    /\ UNCHANGED <<handlers, redis, archive, outbox,
                   lapsed, optinLapsed, admitted>>

\* Mutant: only the first turn is archived.
ArchiveFirst(s) ==
    /\ s.at = "user"
    /\ savers' = savers \ {s}
    /\ archive' = archive \union
           {[delivery |-> s.delivery, msg |-> s.msg, role |-> s.at]}
    /\ UNCHANGED <<handlers, redis, outbox, env, history>>

\* SaveTurn of the user's turn, then of the model's; errors are only logged.
Archive(s) ==
    /\ s.at \in {"user", "model"}
    /\ IF s.at = "user" THEN Advance(s, "model") ELSE savers' = savers \ {s}
    /\ \/ /\ archive' = archive \union
                {[delivery |-> s.delivery, msg |-> s.msg, role |-> s.at]}
          /\ UNCHANGED env
       \/ /\ Fault
          /\ UNCHANGED archive
    /\ UNCHANGED <<handlers, redis, outbox, history>>

-----------------------------------------------------------------------------
\* The environment: TTLs, midnight, restarts.

Expire ==
    /\ expiries < MaxExpiries
    /\ expiries' = expiries + 1
    /\ UNCHANGED <<today, faults, crashes>>

DedupExpires(m) ==      \* deduplicationTTL, 60 s
    /\ m \in dedup
    /\ dedup' = dedup \ {m}
    /\ lapsed' = lapsed \union {m}
    /\ Expire
    /\ UNCHANGED <<handlers, savers, optin, limit, hist, archive, outbox,
                   optinLapsed, admitted, disturbed>>

OptInExpires(p) ==      \* 30 days
    /\ p \in optin
    /\ optin' = optin \ {p}
    /\ optinLapsed' = optinLapsed \union {p}
    /\ Expire
    /\ UNCHANGED <<handlers, savers, dedup, limit, hist, archive, outbox,
                   lapsed, admitted, disturbed>>

HistExpires(p) ==       \* sessionTTL, 4 h
    /\ hist[p] # <<>>
    /\ hist' = [hist EXCEPT ![p] = <<>>]
    /\ disturbed' = disturbed \union {p}
    /\ Expire
    /\ UNCHANGED <<handlers, savers, dedup, optin, limit, archive, outbox,
                   lapsed, optinLapsed, admitted>>

\* The counters' keys carry the date: a new day starts new counters.
Midnight ==
    /\ today < LastDay
    /\ today' = today + 1
    /\ UNCHANGED <<handlers, savers, redis, archive, outbox,
                   faults, expiries, crashes, history>>

\* Every goroutine is gone; Redis and PostgreSQL stay.  Meta has been
\* acknowledged and does not post the lost deliveries again.
Crash ==
    /\ crashes < MaxCrashes
    /\ crashes' = crashes + 1
    /\ pc' = [d \in Deliveries |->
                IF pc[d] \in {"new", "done"} THEN pc[d] ELSE "lost"]
    /\ rest' = [d \in Deliveries |-> <<>>]
    /\ tally' = [d \in Deliveries |-> NoTally]
    /\ disturbed' = disturbed \union
           {SaverPhone(s) : s \in {t \in savers : t.at \in {"load", "set"}}}
    /\ savers' = {}
    /\ UNCHANGED <<redis, archive, outbox, today, faults, expiries,
                   lapsed, optinLapsed, admitted>>

-----------------------------------------------------------------------------
\* The calls that are bound to return, with an answer or an error.
Bounded(d) ==
    \/ Finish(d) \/ Skip(d) \/ Claim(d) \/ ClaimFails(d) \/ Check(d)
    \/ OptIn(d) \/ Disclaim(d) \/ Count(d) \/ CountFails(d)
    \/ Refuse(d) \/ Notify(d) \/ Download(d) \/ Apologise(d) \/ Reply(d)

Process(d) == Bounded(d) \/ Gemini(d)

Save(s) == Load(s) \/ LoadFails(s) \/ Store(s) \/ StoreFails(s) \/ Archive(s)

Environment ==
    \/ Midnight \/ Crash
    \/ \E m \in Messages : DedupExpires(m)
    \/ \E p \in Phones : OptInExpires(p) \/ HistExpires(p)

\* Everything received has been dealt with; Meta may have nothing more to post.
AllDone ==
    /\ \A d \in Deliveries : pc[d] \in {"done", "lost"}
    /\ savers = {}

Terminated == AllDone /\ UNCHANGED vars

Next ==
    \/ \E d \in Deliveries : Receive(d) \/ Process(d)
    \/ \E s \in savers : Save(s)
    \/ Environment
    \/ Terminated

(***************************************************************************)
(* Goroutines are scheduled, and the calls to Redis, Meta and PostgreSQL   *)
(* return: the HTTP clients and the Redis client have timeouts.  Nothing   *)
(* is assumed of Gemini, whose calls for an answer have no deadline, and   *)
(* nothing obliges Meta to post a delivery.                                *)
(***************************************************************************)
Fairness ==
    /\ \A d \in Deliveries : WF_vars(Bounded(d))
    /\ \A d \in Deliveries, m \in Messages :
        WF_vars(\E s \in savers : s.delivery = d /\ s.msg = m /\ Save(s))

Spec == Init /\ [][Next]_vars /\ Fairness

-----------------------------------------------------------------------------
TypeOK ==
    /\ pc \in [Deliveries -> Locations]
    /\ rest \in [Deliveries -> Seq(Messages)]
    /\ tally \in [Deliveries -> Tally]
    /\ savers \subseteq [delivery : Deliveries, msg : Messages,
                         at : SaverPoints, snap : Seq(Turn)]
    /\ dedup \subseteq Messages /\ optin \subseteq Phones
    /\ limit \in [Days -> [Phones -> Nat]]
    /\ hist \in [Phones -> Seq(Turn)]
    /\ archive \subseteq
         [delivery : Deliveries, msg : Messages, role : {"user", "model"}]
    /\ outbox \subseteq [delivery : Deliveries, msg : Messages, text : Texts,
                         ok : BOOLEAN, tally : Tally]
    /\ today \in Days
    /\ faults \in Nat /\ expiries \in Nat /\ crashes \in Nat
    /\ lapsed \subseteq Messages /\ optinLapsed \subseteq Phones
    /\ admitted \subseteq Deliveries \X Messages
    /\ disturbed \subseteq Phones

WorkingOn(d, m) == pc[d] \in Working /\ Msg(d) = m
\* SendText was called for m with one of the texts, whatever came of it.
Attempted(d, m, texts) ==
    \E o \in outbox : o.delivery = d /\ o.msg = m /\ o.text \in texts
Saving(d, m) == \E s \in savers : s.delivery = d /\ s.msg = m
ActedOn(d, m) == WorkingOn(d, m) \/ Attempted(d, m, Texts) \/ Saving(d, m)

(***************************************************************************)
(* "Meta puede enviar el mismo webhook mas de una vez": as long as the     *)
(* deduplication key of a message has not expired, only one delivery ever  *)
(* works on it, whatever the interleaving, the failures and the restarts.  *)
(***************************************************************************)
OneDeliveryPerMessage ==
    \A m \in Messages \ lapsed : \A d1, d2 \in Deliveries :
        ActedOn(d1, m) /\ ActedOn(d2, m) => d1 = d2

(***************************************************************************)
(* The privacy notice is sent at most once per contact while its key lasts *)
(* ("1 vez cada 30 dias"), though texts and images of the same new contact *)
(* are processed concurrently.                                             *)
(***************************************************************************)
DisclaimerOnce ==
    \A o1, o2 \in outbox :
        /\ o1.text = "disclaimer" /\ o2.text = "disclaimer"
        /\ From[o1.msg] = From[o2.msg]
        /\ From[o1.msg] \notin optinLapsed
        => o1 = o2

\* The replies to p counted on a day.
CountedReplies(p, day) ==
    {o \in outbox : /\ o.text \in Replies /\ From[o.msg] = p
                    /\ ~ Exempt(o.msg)
                    /\ o.tally.n # 0 /\ o.tally.day = day}

(***************************************************************************)
(* A sender gets at most the configured number of automatic replies per    *)
(* Costa Rica day, images and texts together and however many of its       *)
(* messages are in progress at once; only messages that could not be       *)
(* counted (Redis failed) and the advisor's texts escape.                  *)
(***************************************************************************)
DailyQuota ==
    \A p \in Phones, day \in Days :
        Cardinality(CountedReplies(p, day)) <= MaxMsgs

\* What ends a message for its sender, one way or the other.
Answers == Replies \union {"limit", "apology"}
Delivered(d, m) ==
    \E o \in outbox : o.delivery = d /\ o.msg = m /\ o.text \in Answers /\ o.ok
SendFailed(d, m) ==
    \E o \in outbox : o.delivery = d /\ o.msg = m /\ o.text \in Answers /\ ~ o.ok

(***************************************************************************)
(* Who is left in silence.  An error of Redis, of the download or of       *)
(* Gemini (processor.go:310, "en lugar de dejarlo en silencio") never      *)
(* swallows an admitted message: it is being worked on, or a reply, a      *)
(* refusal or an apology was delivered.  What remains are two causes the   *)
(* code does not make good: Meta did not take that very text (it is sent   *)
(* once and the error is logged), or the server was restarted meanwhile.   *)
(***************************************************************************)
SilenceHasCause ==
    \A a \in admitted : LET d == a[1] m == a[2] IN
        \/ WorkingOn(d, m)
        \/ Delivered(d, m)
        \/ SendFailed(d, m)
        \/ pc[d] = "lost"

Replied(m) == \E o \in outbox : o.msg = m /\ o.text \in Replies /\ o.ok

(***************************************************************************)
(* The stored conversation is a sequence of whole exchanges, a question of *)
(* that sender and its answer, never one without the other and only of     *)
(* messages that were answered, and no longer than the cap plus one        *)
(* exchange: truncation never splits a pair, concurrent savers never mix.  *)
(***************************************************************************)
HistoryOfExchanges ==
    \A p \in Phones :
        /\ Len(hist[p]) % 2 = 0 /\ Len(hist[p]) <= MaxHistory + 2
        /\ \A i \in 1 .. Len(hist[p]) \div 2 :
            LET m == hist[p][2 * i].msg IN
            /\ SubSeq(hist[p], 2 * i - 1, 2 * i) = Exchange(m)
            /\ From[m] = p /\ Replied(m)

(***************************************************************************)
(* An answered message is missing from the stored conversation only if its *)
(* saver has not written yet, or the sender's history was disturbed: two   *)
(* savers overlapped (the later write wins), Redis failed, the history     *)
(* expired or was cut, or a restart killed the saver.                      *)
(***************************************************************************)
LossNeedsDisturbance ==
    \A o \in outbox : LET p == From[o.msg] IN
        o.text \in Replies /\ o.ok /\ p \notin disturbed =>
            \/ \E i \in 1 .. Len(hist[p]) : hist[p][i].msg = o.msg
            \/ \E s \in savers : /\ s.delivery = o.delivery /\ s.msg = o.msg
                                 /\ s.at \in {"load", "set"}

(***************************************************************************)
(* What is archived was answered, by that delivery; and without failures   *)
(* an answer is never archived without its question.                       *)
(***************************************************************************)
ArchiveBacked ==
    \A r \in archive :
        /\ \E o \in outbox : /\ o.delivery = r.delivery /\ o.msg = r.msg
                             /\ o.text \in Replies /\ o.ok
        /\ r.role = "model" /\ faults = 0 => [r EXCEPT !.role = "user"] \in archive

(***************************************************************************)
(* A call to Gemini that never returns stalls the rest of its own delivery *)
(* and nothing else: every other delivery that was received is eventually  *)
(* finished (or lost to a restart), those of the same sender included,     *)
(* whatever fails, expires or is posted twice.                             *)
(***************************************************************************)
StallsOnlyAtGemini ==
    <>[](\A d \in Deliveries : pc[d] \in {"new", "done", "lost", "gemini"})

(***************************************************************************)
(* In the end every answer is archived with its question, unless a call    *)
(* failed or the server was restarted: nothing else loses a turn.          *)
(***************************************************************************)
AnswersArchived ==
    <>[](\/ faults > 0 \/ crashes > 0
         \/ \A o \in outbox : o.text \in Replies /\ o.ok =>
                \A r \in {"user", "model"} :
                    [delivery |-> o.delivery, msg |-> o.msg, role |-> r] \in archive)
=============================================================================
