------------------------------ MODULE Telegram ------------------------------
(***************************************************************************)
(* The Telegram channel, internal/telegram/handler.go, processor.go and    *)
(* sender.go, with the adapter it asks and the settings it consults.       *)
(*                                                                         *)
(* A webhook is acknowledged at once and handled by a goroutine: the key   *)
(* against duplicates, the limiter, the privacy notice, the chat's daily   *)
(* maximum, the question to Gemini, the reply; then, in a goroutine of its *)
(* own, the conversation kept in Redis and the two rows of the archive.    *)
(* The second goroutine starts when the first has nothing left to do, so   *)
(* one program counter per message follows both.                           *)
(*                                                                         *)
(* An action is one call to Redis, Telegram, Meta or PostgreSQL with the   *)
(* decision taken on its result.  The limiter is RateLimiter.tla; here its *)
(* verdict is free.  The summary and the history put into the prompt only  *)
(* shape texts, and the parts of a long text (splitMessage) go as one.     *)
(***************************************************************************)
EXTENDS GeminiAdapter, Sequences

CONSTANTS
    Chat,         \* Chat[m]: the chat m comes from, a number
    MessageID,    \* MessageID[m]: its number, which Telegram assigns
    Kind,         \* Kind[m]: "text", "image" or "other"
    MaxHistory,   \* maxHistoryTurns, 50
    MaxActive     \* bound: goroutines at the same time

Chats == {Chat[m] : m \in Messages}

ASSUME TelegramAssumption ==
    /\ Chat \in [Messages -> Nat \ {0}]
    /\ Kind \in [Messages -> {"text", "image", "other"}]
    /\ MaxHistory \in Nat /\ MaxHistory % 2 = 0

VARIABLES
    pc,        \* pc[m]: what the goroutine of m does next
    count,     \* count[m]: what INCR gave, 0 if it failed or the sender is exempt
    dedup,     \* tg:dedup: the message numbers seen
    optin,     \* tg:optin: the chats that got the privacy notice
    limit,     \* tg:limit: today's counters
    hist,      \* tg:hist: hist[c], the turns of chat c
    read,      \* read[m]: the turns saveHistoryAsync has loaded
    archive,   \* rows of whatsapp_conversations
    outbox,    \* texts sent to the chat of a message, with their outcome
    \* history variables
    claimed,   \* messages whose goroutine set the key
    denied,    \* messages the limiter denied
    troubled   \* messages one of whose calls failed

redis == <<dedup, optin, limit, hist>>
store == <<archive, read>>
history == <<claimed, denied>>
model == <<turn, advisor, provider>>
vars == <<pc, count, redis, store, outbox, history, troubled, model, events>>

Init ==
    /\ ProviderInit /\ AdapterInit
    /\ pc = [m \in Messages |-> "new"]
    /\ count = [m \in Messages |-> 0]
    /\ dedup = {} /\ optin = {}
    /\ limit = [c \in Chats |-> 0]
    /\ hist = [c \in Chats |-> <<>>]
    /\ read = [m \in Messages |-> <<>>]
    /\ archive = {} /\ outbox = {}
    /\ claimed = {} /\ denied = {} /\ troubled = {}

Over == {"new", "done", "lost"}
Active(m) == pc[m] \notin Over

Goto(m, from, to) ==
    /\ pc[m] = from
    /\ pc' = [pc EXCEPT ![m] = to]

\* A call on behalf of m, with its outcome.
Try(m, ok) ==
    /\ Outcome(ok)
    /\ troubled' = IF ok THEN troubled ELSE troubled \cup {m}

Send(m, text, ok) ==
    /\ Try(m, ok)
    /\ outbox' = outbox \cup {[msg |-> m, text |-> text, ok |-> ok]}

-----------------------------------------------------------------------------
\* HandleWebhook and Process: a message without text or picture is ignored.
Receive(m) ==
    /\ Cardinality({n \in Messages : Active(n)}) < MaxActive
    /\ Goto(m, "new", IF Kind[m] = "other" THEN "done" ELSE "dedup")
    /\ UNCHANGED <<count, redis, store, outbox, history, troubled, model, events>>

\* SetNX of tg:dedup, which names the message and not its chat.
Claim(m) ==
    /\ \E ok \in BOOLEAN :
         LET new == MessageID[m] \notin dedup
         IN /\ Try(m, ok)
            /\ Goto(m, "dedup", IF ok /\ new THEN "limiter" ELSE "done")
            /\ dedup' = IF ok THEN dedup \cup {MessageID[m]} ELSE dedup
            /\ claimed' = IF ok /\ new THEN claimed \cup {m} ELSE claimed
    /\ UNCHANGED <<count, optin, limit, hist, store, outbox, denied, model>>

\* rateLimiter.Check: a denied message is dropped without a word.
CheckRate(m) ==
    /\ \/ Goto(m, "limiter", "optin") /\ UNCHANGED denied
       \/ Goto(m, "limiter", "done") /\ denied' = denied \cup {m}
    /\ UNCHANGED <<count, redis, store, outbox, claimed, troubled, model, events>>

\* SetNX of tg:optin; an error counts as not the first contact.
OptIn(m) ==
    /\ \E ok \in BOOLEAN :
         /\ Try(m, ok)
         /\ Goto(m, "optin", IF ok /\ Chat[m] \notin optin THEN "disclaim" ELSE "count")
         /\ optin' = IF ok THEN optin \cup {Chat[m]} ELSE optin
    /\ UNCHANGED <<count, dedup, limit, hist, store, outbox, history, model>>

Disclaim(m) ==
    /\ Goto(m, "disclaim", "count")
    /\ \E ok \in BOOLEAN : Send(m, "disclaimer", ok)
    /\ UNCHANGED <<count, redis, store, history, model>>

\* checkDailyLimit.
Count(m) ==
    /\ Goto(m, "count", "decide")
    /\ \E ok \in BOOLEAN :
         /\ Try(m, ok)
         /\ limit' = IF ok THEN [limit EXCEPT ![Chat[m]] = @ + 1] ELSE limit
         /\ count' = IF ok THEN [count EXCEPT ![m] = limit[Chat[m]] + 1] ELSE count
    /\ UNCHANGED <<dedup, optin, hist, store, outbox, history, model>>

Ask(m) == IF Kind[m] = "image" THEN "download" ELSE "call"

\* The advisor is exempt, and so is everybody when the count failed.
Decide(m) ==
    /\ \E failed \in SUBSET Settings :
         LET exempt == Value("chat", "chat" \notin failed) = Chat[m]
             limited == count[m] # 0 /\ ~exempt
             consulted == IF limited THEN {"chat", "max"} ELSE {"chat"}
             most == Value("max", "max" \notin failed)
         IN /\ Try(m, failed = {})
            /\ Consult(consulted, failed)
            /\ Goto(m, "decide", IF limited /\ count[m] > most THEN "refuse" ELSE Ask(m))
            /\ count' = IF exempt THEN [count EXCEPT ![m] = 0] ELSE count
    /\ UNCHANGED <<redis, store, outbox, history, turn, advisor, config, fresh, draft>>

Refuse(m) ==
    /\ Goto(m, "refuse", "notify")
    /\ \E ok \in BOOLEAN : Send(m, "limit", ok)
    /\ count' = [count EXCEPT ![m] = 0]
    /\ UNCHANGED <<redis, store, history, model>>

\* Mutant: a failed notice by Telegram is not followed by WhatsApp.
NotifyOnce(m) ==
    /\ \E sent \in BOOLEAN :
         LET direct == Value("chat", TRUE) # Nothing
         IN /\ direct \/ sent
            /\ Try(m, sent)
            /\ Consult({"chat"}, {})
            /\ IF direct THEN Told(m, "limit", "telegram", sent) ELSE UNCHANGED advisor
            /\ Goto(m, "notify", IF direct THEN "done" ELSE "fallback")
    /\ UNCHANGED <<count, redis, store, outbox, history, turn, config, fresh, draft>>

\* notifyAsesorLimit: by Telegram when a chat is configured...
Notify(m) ==
    /\ \E failed \in SUBSET {"chat"}, sent \in BOOLEAN :
         LET direct == Value("chat", failed = {}) # Nothing
         IN /\ direct \/ sent
            /\ Try(m, failed = {} /\ sent)
            /\ Consult({"chat"}, failed)
            /\ IF direct THEN Told(m, "limit", "telegram", sent) ELSE UNCHANGED advisor
            /\ Goto(m, "notify", IF direct /\ sent THEN "done" ELSE "fallback")
    /\ UNCHANGED <<count, redis, store, outbox, history, turn, config, fresh, draft>>

\* ...and by WhatsApp when there is none or that failed.
FallBack(m) ==
    /\ Goto(m, "fallback", "done")
    /\ \E failed \in SUBSET {"phone"}, sent \in BOOLEAN :
         /\ Try(m, failed = {} /\ sent)
         /\ Consult({"phone"}, failed)
         /\ Told(m, "limit", "whatsapp", sent)
    /\ UNCHANGED <<count, redis, store, outbox, history, turn, config, fresh, draft>>

\* GetFileBytes: getFile, then the download.
Download(m) ==
    /\ \E ok \in BOOLEAN :
         /\ Try(m, ok)
         /\ Goto(m, "download", IF ok THEN "call" ELSE "apologise")
    /\ UNCHANGED <<count, redis, store, outbox, history, model>>

\* CallWithTools or CallWithImage; the adapter takes its steps meanwhile.
CallModel(m) ==
    /\ Goto(m, "call", "wait")
    /\ Call(m, Kind[m] = "text")
    /\ UNCHANGED <<count, redis, store, outbox, history, troubled>>

ModelWorks(m) ==
    /\ pc[m] = "wait"
    /\ AdapterStep(m)
    /\ UNCHANGED <<pc, count, redis, store, outbox, history, troubled>>

\* Mutant: an error of the model is only logged.
ModelReturnsQuietly(m) ==
    /\ turn[m].at \in Results
    /\ Goto(m, "wait", IF At(m, "failed") THEN "done" ELSE "send")
    /\ turn' = [turn EXCEPT ![m] = NoTurn]
    /\ UNCHANGED <<count, redis, store, outbox, history, troubled, advisor, provider, events>>

ModelReturns(m) ==
    /\ turn[m].at \in Results
    /\ Goto(m, "wait", IF At(m, "failed") THEN "apologise" ELSE "send")
    /\ turn' = [turn EXCEPT ![m] = NoTurn]
    /\ UNCHANGED <<count, redis, store, outbox, history, troubled, advisor, provider,
                   events>>

Apologise(m) ==
    /\ Goto(m, "apologise", "done")
    /\ \E ok \in BOOLEAN : Send(m, "apology", ok)
    /\ count' = [count EXCEPT ![m] = 0]
    /\ UNCHANGED <<redis, store, history, model>>

\* "Nota: te quedan 2", on texts only; the maximum is consulted once more.
Limited(m) == Kind[m] = "text" /\ count[m] # 0

Reply(m) ==
    /\ \E ok \in BOOLEAN :
         LET noted == Limited(m) /\ count[m] = Value("max", TRUE) - 2
         IN /\ Send(m, IF noted THEN "noted reply" ELSE "reply", ok)
            /\ Consult(IF Limited(m) THEN {"max"} ELSE {}, {})
            /\ Goto(m, "send", IF ok THEN "load" ELSE "done")
    /\ count' = [count EXCEPT ![m] = 0]
    /\ UNCHANGED <<redis, store, history, turn, advisor, config, fresh, draft>>

-----------------------------------------------------------------------------
\* saveHistoryAsync; what fails here is only logged.

Exchange(m) == <<[role |-> "user", msg |-> m], [role |-> "model", msg |-> m]>>

Recent(turns) ==
    IF Len(turns) <= MaxHistory THEN turns
    ELSE SubSeq(turns, Len(turns) - MaxHistory + 1, Len(turns))

\* loadHistory: an error looks like a conversation that has not begun.
LoadHistory(m) ==
    /\ Goto(m, "load", "store")
    /\ \E ok \in BOOLEAN :
         /\ Try(m, ok)
         /\ read' = [read EXCEPT ![m] = IF ok THEN Recent(hist[Chat[m]]) ELSE <<>>]
    /\ UNCHANGED <<count, redis, archive, outbox, history, model>>

StoreHistory(m) ==
    /\ Goto(m, "store", "user")
    /\ \E ok \in BOOLEAN :
         /\ Try(m, ok)
         /\ hist' = IF ok THEN [hist EXCEPT ![Chat[m]] = read[m] \o Exchange(m)] ELSE hist
    /\ read' = [read EXCEPT ![m] = <<>>]
    /\ UNCHANGED <<count, dedup, optin, limit, archive, outbox, history, model>>

SaveTurn(m, role, from, to) ==
    /\ Goto(m, from, to)
    /\ \E ok \in BOOLEAN :
         /\ Try(m, ok)
         /\ archive' = IF ok THEN archive \cup {[role |-> role, msg |-> m]} ELSE archive
    /\ UNCHANGED <<count, redis, read, outbox, history, model>>

ArchiveUser(m) == SaveTurn(m, "user", "user", "model")
ArchiveModel(m) == SaveTurn(m, "model", "model", "done")

-----------------------------------------------------------------------------
\* The environment.

\* Midnight in Costa Rica: the counters of the new date have not been touched.
NextDay ==
    /\ Event
    /\ limit' = [c \in Chats |-> 0]
    /\ UNCHANGED <<pc, count, dedup, optin, hist, store, outbox, history, troubled, model>>

\* deduplicationTTL, the privacy notice's thirty days, sessionTTL.
KeyExpires ==
    /\ Event
    /\ \/ \E id \in dedup : dedup' = dedup \ {id} /\ UNCHANGED <<optin, hist>>
       \/ \E c \in optin : optin' = optin \ {c} /\ UNCHANGED <<dedup, hist>>
       \/ \E c \in Chats : /\ hist[c] # <<>> /\ hist' = [hist EXCEPT ![c] = <<>>]
                           /\ UNCHANGED <<dedup, optin>>
    /\ UNCHANGED <<pc, count, limit, store, outbox, history, troubled, model>>

\* The acknowledged messages are gone: Telegram does not send them again.
Crash ==
    /\ Event
    /\ pc' = [m \in Messages |-> IF Active(m) THEN "lost" ELSE pc[m]]
    /\ count' = [m \in Messages |-> 0]
    /\ read' = [m \in Messages |-> <<>>]
    /\ turn' = [m \in Messages |-> NoTurn]
    /\ ForgetAll
    /\ UNCHANGED <<redis, archive, outbox, history, troubled, advisor>>

SettingsMove ==
    /\ ProviderEnv
    /\ UNCHANGED <<pc, count, redis, store, outbox, history, troubled, turn, advisor>>

-----------------------------------------------------------------------------
Step(m) ==
    \/ Claim(m)      \/ CheckRate(m)   \/ OptIn(m)        \/ Disclaim(m)
    \/ Count(m)      \/ Decide(m)      \/ Refuse(m)       \/ Notify(m)
    \/ FallBack(m)   \/ Download(m)    \/ CallModel(m)    \/ ModelWorks(m)
    \/ ModelReturns(m) \/ Apologise(m) \/ Reply(m)        \/ LoadHistory(m)
    \/ StoreHistory(m) \/ ArchiveUser(m) \/ ArchiveModel(m)

Next ==
    \/ \E m \in Messages : Receive(m) \/ Step(m)
    \/ NextDay \/ KeyExpires \/ Crash \/ SettingsMove

Spec == Init /\ [][Next]_vars

-----------------------------------------------------------------------------
\* Properties.

\* What m's chat has been told, apart from the privacy notice.
Heard(m) == \E sent \in outbox : sent.msg = m /\ sent.ok /\ sent.text # "disclaimer"

\* A message that was handled without a word to its chat is one of a kind the
\* bot ignores, was denied, met a failing call, or has the number of a message
\* whose goroutine set the key: of its own copy, or of another chat's message.
SilenceHasACause ==
    \A m \in Messages : pc[m] \in {"done"} /\ ~Heard(m) =>
        \/ Kind[m] = "other"
        \/ m \in denied \cup troubled
        \/ \E n \in claimed \ {m} : MessageID[n] = MessageID[m]

\* A chat that reads "un asesor te va a contactar" is known to the advisor once
\* its message is done, or both ways to tell him were tried: Telegram if a chat
\* was configured, and WhatsApp.
PromisedAdvisorTold ==
    \A m \in Messages :
        pc[m] = "done" /\ [msg |-> m, text |-> "limit", ok |-> TRUE] \in outbox =>
            \E told \in advisor :
                /\ told.msg = m /\ told.about = "limit"
                /\ told.ok \/ told.via = "whatsapp"

\* Work on a message only goes forward, and there is no place in it to go round
\* for ever: the retries of sendWithRetry and the rounds of functions are
\* bounded (Bounded), and nothing else is repeated.  So a message ends as long as
\* every call returns; that of the Gemini client has no deadline.
Place == [new |-> 0, dedup |-> 1, limiter |-> 2, optin |-> 3, disclaim |-> 4, count |-> 5,
          decide |-> 6, refuse |-> 7, notify |-> 8, fallback |-> 9, download |-> 10,
          call |-> 11, wait |-> 12, apologise |-> 13, send |-> 14, load |-> 15,
          store |-> 16, user |-> 17, model |-> 18, done |-> 19, lost |-> 19]

MovesOn(m) ==
    \/ Place[pc'[m]] > Place[pc[m]]
    \/ pc[m] = "wait" /\ pc'[m] = "wait" /\ Later(turn[m], turn'[m])

Bounded == pc \in [Messages -> DOMAIN Place] /\ turn \in [Messages -> Turn]

WorkEnds ==
    [][\A m \in Messages : pc'[m] # pc[m] \/ turn'[m] # turn[m] => MovesOn(m)]_vars
=============================================================================
