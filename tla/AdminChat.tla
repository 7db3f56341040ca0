------------------------------- MODULE AdminChat -------------------------------
(***************************************************************************)
(* The internal assistant of an administrator: the sessions and the        *)
(* history kept by internal/handlers/admin/chat/handler.go (SendMessage,   *)
(* Reset, loadHistory) and repository.go.                                  *)
(*                                                                         *)
(* A conversation lives twice: in PostgreSQL, as a session with its        *)
(* messages, and in Redis, as two keys with TTLs of their own, the history *)
(* sent to Gemini and the id of the session.  A request reads the keys,    *)
(* falls back to the database, may open a session, calls Gemini and writes *)
(* the history back; messages are inserted by goroutines it leaves behind. *)
(*                                                                         *)
(* Keys and sessions of different administrators are disjoint: this is one *)
(* administrator, with several tabs or impatient clicks.  A page that is   *)
(* loaded asks for the history and may so rebuild the keys.  An action is  *)
(* one call to Redis, PostgreSQL or Gemini.                                *)
(***************************************************************************)
EXTENDS Integers, Sequences, FiniteSets

CONSTANTS
    Requests,    \* POSTs of /chat/message, each with one question, or GETs
                 \* of /chat/history, when the page is loaded
    MaxActive,   \* bound: requests under way at the same time
    MaxResets,   \* bound: uses of "Nueva conversacion"
    MaxExpiries, \* bound: keys that reach their TTL
    MaxFaults    \* bound: calls that fail

ASSUME BoundsAssumption ==
    /\ MaxActive \in Nat \ {0} /\ MaxResets \in Nat
    /\ MaxExpiries \in Nat /\ MaxFaults \in Nat

\* A session is named by the request that creates it.
Sessions == Requests
CONSTANT NoSession
ASSUME NoSessionAssumption == NoSession \notin Sessions

VARIABLES
    \* requests under way
    pc, history, session,
    savers,      \* goroutines of persistMessage
    resetting,   \* a Reset has closed the sessions, not yet cleared Redis
    \* Redis
    histKey,     \* admin:chat:hist, <<>> when it does not exist
    sessionKey,  \* admin:chat:session, or NoSession
    \* PostgreSQL
    started,     \* sessions in the order of started_at
    open,        \* those with ended_at IS NULL
    rows,        \* rows[s]: the messages of session s, in order
    \* bounds and history variables
    resets, expiries, faults,
    epoch,       \* epoch[q]: the resets finished when q began
    before,      \* before[q]: the requests finished, savers too, when q began
    overlapped,  \* requests that were under way together with another one
    together,    \* pairs of requests that were about to create a session at once
    split        \* a request found the history but not the session's key, or
                 \* no session while another was opening one, or a Reset ran
                 \* while a request was under way
requests == <<pc, history, session>>
redis == <<histKey, sessionKey>>
database == <<started, open, rows>>
env == <<resets, expiries, faults>>
ghosts == <<epoch, before, overlapped, together, split>>
vars == <<requests, savers, resetting, redis, database, env, ghosts>>

Roles == {"user", "model"}
Turn == [role : Roles, of : Requests]
TurnOf(role, q) == [role |-> role, of |-> q]

Has(turns, turn) == \E i \in 1 .. Len(turns) : turns[i] = turn

Locations == {"new", "hist", "key", "find", "messages", "rebuild", "rekey",
              "endall", "create", "setkey", "ask", "gemini", "save",
              "done", "shown", "failed"}

Init ==
    /\ pc = [q \in Requests |-> "new"]
    /\ history = [q \in Requests |-> <<>>]
    /\ session = [q \in Requests |-> NoSession]
    /\ savers = {} /\ resetting = FALSE
    /\ histKey = <<>> /\ sessionKey = NoSession
    /\ started = <<>> /\ open = {}
    /\ rows = [s \in Sessions |-> <<>>]
    /\ resets = 0 /\ expiries = 0 /\ faults = 0
    /\ epoch = [q \in Requests |-> 0]
    /\ before = [q \in Requests |-> {}]
    /\ overlapped = {} /\ together = {} /\ split = FALSE

Goto(q, from, to) ==
    /\ pc[q] = from
    /\ pc' = [pc EXCEPT ![q] = to]

\* The request ends at from: what it had loaded is gone.
Answer(q, from, to) ==
    /\ Goto(q, from, to)
    /\ history' = [history EXCEPT ![q] = <<>>]

\* loadHistory returns at from: SendMessage goes on, GetHistory answers.
Loads(q, from, to) ==
    \/ Goto(q, from, to) /\ UNCHANGED history
    \/ Answer(q, from, "shown")

Fault ==
    /\ faults < MaxFaults
    /\ faults' = faults + 1
    /\ UNCHANGED <<resets, expiries>>

-----------------------------------------------------------------------------
\* SendMessage begins.
Active == {q \in Requests : pc[q] \notin {"new", "done", "shown", "failed"}}

Begin(q) ==
    /\ Cardinality(Active) < MaxActive
    /\ Goto(q, "new", "hist")
    /\ epoch' = [epoch EXCEPT ![q] = resets]
    /\ before' = [before EXCEPT ![q] =
                    {r \in Requests : /\ pc[r] = "done"
                                      /\ \A s \in savers : s.turn.of # r}]
    /\ overlapped' = IF Active = {} THEN overlapped
                                   ELSE overlapped \union Active \union {q}
    /\ split' = (split \/ resetting)
    /\ UNCHANGED <<history, session, savers, resetting, redis, database, env,
                   together>>

\* loadHistory, 1: the history key.  An error counts as a miss.
GetHist(q) ==
    /\ \/ /\ histKey # <<>>
          /\ Goto(q, "hist", "key")
          /\ history' = [history EXCEPT ![q] = histKey]
          /\ UNCHANGED env
       \/ /\ histKey = <<>>
          /\ Goto(q, "hist", "find")
          /\ UNCHANGED <<history, env>>
       \/ /\ Goto(q, "hist", "find")
          /\ Fault
          /\ UNCHANGED history
    /\ UNCHANGED <<session, savers, resetting, redis, database, ghosts>>

\* The session key; without it there is "no active session".
GetKey(q) ==
    /\ \/ /\ sessionKey # NoSession
          /\ Loads(q, "key", "ask")
          /\ session' = [session EXCEPT ![q] = sessionKey]
          /\ UNCHANGED <<split, env>>
       \/ /\ Loads(q, "key", "endall")
          /\ split' = (split \/ pc'[q] = "endall")
          /\ UNCHANGED session
          /\ (sessionKey = NoSession /\ UNCHANGED env) \/ Fault
    /\ UNCHANGED <<savers, resetting, redis, database, epoch, before,
                   overlapped, together>>

\* LoadActiveSession: the open session started last.
Latest(s) ==
    \E i \in 1 .. Len(started) :
        /\ started[i] = s /\ s \in open
        /\ \A j \in i + 1 .. Len(started) : started[j] \notin open

Opening == {q \in Requests : pc[q] \in {"endall", "create", "setkey"}}

Find(q) ==
    /\ \/ /\ open = {}
          /\ Loads(q, "find", "endall")
          /\ split' = (split \/ (pc'[q] = "endall" /\ Opening # {}))
          /\ UNCHANGED session
       \/ /\ Goto(q, "find", "messages")
          /\ UNCHANGED <<history, split>>
          /\ \E s \in open :
              /\ Latest(s)
              /\ session' = [session EXCEPT ![q] = s]
    /\ UNCHANGED <<savers, resetting, redis, database, env, epoch, before,
                   overlapped, together>>

\* Mutant: the session is found again and its messages are not loaded.
NoMessages(q) ==
    /\ Goto(q, "messages", "rekey")
    /\ UNCHANGED <<history, session, savers, resetting, redis, database, env, ghosts>>

Messages(q) ==
    /\ Goto(q, "messages", IF rows[session[q]] = <<>> THEN "rekey" ELSE "rebuild")
    /\ history' = [history EXCEPT ![q] = rows[session[q]]]
    /\ UNCHANGED <<session, savers, resetting, redis, database, env, ghosts>>

\* Either query may fail; the request answers with an error.
LoadFails(q) ==
    /\ \E from \in {"find", "messages"} : Goto(q, from, "failed")
    /\ Fault
    /\ UNCHANGED <<history, session, savers, resetting, redis, database, ghosts>>

\* What the database had is put back in Redis; errors are only logged.
Rebuild(q) ==
    /\ Goto(q, "rebuild", "rekey")
    /\ \/ histKey' = history[q] /\ UNCHANGED env
       \/ Fault /\ UNCHANGED histKey
    /\ UNCHANGED <<history, session, savers, resetting, sessionKey, database, ghosts>>

SetSessionKey(q) ==
    \/ sessionKey' = session[q] /\ UNCHANGED env
    \/ Fault /\ UNCHANGED sessionKey

Rekey(q) ==
    /\ Loads(q, "rekey", "ask")
    /\ SetSessionKey(q)
    /\ UNCHANGED <<session, savers, resetting, histKey, database, ghosts>>

-----------------------------------------------------------------------------
\* No active session: orphans are closed and a session is created.

\* Mutant: only the session Redis knows is closed.
EndKnown(q) ==
    /\ Goto(q, "endall", "create")
    /\ open' = open \ {sessionKey}
    /\ together' = together \union
           {{q, other} : other \in {r \in Requests : pc[r] = "create"}}
    /\ UNCHANGED <<history, session, savers, resetting, redis, started, rows, env,
                   epoch, before, overlapped, split>>

EndAll(q) ==
    /\ Goto(q, "endall", "create")
    /\ \/ open' = {} /\ UNCHANGED env
       \/ Fault /\ UNCHANGED open
    /\ together' = together \union
           {{q, other} : other \in {r \in Requests : pc[r] = "create"}}
    /\ UNCHANGED <<history, session, savers, resetting, redis, started, rows,
                   epoch, before, overlapped, split>>

Create(q) ==
    /\ Goto(q, "create", "setkey")
    /\ started' = Append(started, q)
    /\ open' = open \union {q}
    /\ session' = [session EXCEPT ![q] = q]
    /\ UNCHANGED <<history, savers, resetting, redis, rows, env, ghosts>>

CreateFails(q) ==
    /\ Goto(q, "create", "failed")
    /\ Fault
    /\ UNCHANGED <<history, session, savers, resetting, redis, database, ghosts>>

SetKey(q) ==
    /\ Goto(q, "setkey", "ask")
    /\ SetSessionKey(q)
    /\ UNCHANGED <<history, session, savers, resetting, histKey, database, ghosts>>

-----------------------------------------------------------------------------
\* The question, the answer and their two persistMessage goroutines.

Persist(q, role) ==
    savers' = savers \union {[session |-> session[q], turn |-> TurnOf(role, q)]}

Ask(q) ==
    /\ Goto(q, "ask", "gemini")
    /\ Persist(q, "user")
    /\ UNCHANGED <<history, session, resetting, redis, database, env, ghosts>>

\* Mutant: the answer is not persisted.
GeminiUnsaved(q) ==
    /\ Goto(q, "gemini", "save")
    /\ UNCHANGED <<history, session, savers, resetting, redis, database, env, ghosts>>

Gemini(q) ==
    /\ Goto(q, "gemini", "save")
    /\ Persist(q, "model")
    /\ UNCHANGED <<history, session, resetting, redis, database, env, ghosts>>

\* An error, or the request's 60 seconds are over.
GeminiFails(q) ==
    /\ Answer(q, "gemini", "failed")
    /\ UNCHANGED <<session, savers, resetting, redis, database, env, ghosts>>

\* The history this request began with is written back with its two turns.
SaveHistory(q) ==
    /\ Answer(q, "save", "done")
    /\ histKey' = history[q] \o <<TurnOf("user", q), TurnOf("model", q)>>
    /\ UNCHANGED <<session, savers, resetting, sessionKey, database, env,
                   ghosts>>

SaveHistoryFails(q) ==
    /\ Answer(q, "save", "done")
    /\ Fault
    /\ UNCHANGED <<session, savers, resetting, redis, database, ghosts>>

\* Mutant: only open sessions take messages.
SaveIfOpen(s) ==
    /\ savers' = savers \ {s}
    /\ rows' = IF s.session \in open
               THEN [rows EXCEPT ![s.session] = Append(@, s.turn)] ELSE rows
    /\ UNCHANGED <<requests, resetting, redis, started, open, env, ghosts>>

\* SaveMessage: a transaction of its own, with its own ten seconds.
SaveMessage(s) ==
    /\ savers' = savers \ {s}
    /\ rows' = [rows EXCEPT ![s.session] = Append(@, s.turn)]
    /\ UNCHANGED <<requests, resetting, redis, started, open, env, ghosts>>

SaveMessageFails(s) ==
    /\ savers' = savers \ {s}
    /\ Fault
    /\ UNCHANGED <<requests, resetting, redis, database, ghosts>>

-----------------------------------------------------------------------------
\* Reset: first the sessions are closed, then both keys deleted at once.

ResetSessions ==
    /\ ~ resetting /\ resets < MaxResets
    /\ resetting' = TRUE
    /\ \/ open' = {} /\ UNCHANGED env
       \/ Fault /\ UNCHANGED open
    /\ split' = (split \/ Active # {})
    /\ UNCHANGED <<requests, savers, redis, started, rows, epoch, before,
                   overlapped, together>>

\* The error of the Del is not looked at: the keys may survive, and the Reset
\* answers "ok" all the same.
ResetKeys ==
    /\ resetting
    /\ resetting' = FALSE
    /\ \/ histKey' = <<>> /\ sessionKey' = NoSession /\ UNCHANGED faults
       \/ faults < MaxFaults /\ faults' = faults + 1 /\ UNCHANGED redis
    /\ resets' = resets + 1
    /\ UNCHANGED <<requests, savers, database, expiries, ghosts>>

\* Each key has its own TTL of four hours: the session's runs from its
\* creation, the history's from the last answer, so the savers of what it
\* holds are long done (they have ten seconds).
Expire ==
    /\ expiries < MaxExpiries
    /\ expiries' = expiries + 1
    /\ UNCHANGED <<resets, faults>>

HistExpires ==
    /\ histKey # <<>> /\ histKey' = <<>>
    /\ \A s \in savers : ~ Has(histKey, s.turn)
    /\ Expire
    /\ UNCHANGED <<requests, savers, resetting, sessionKey, database, ghosts>>

KeyExpires ==
    /\ sessionKey # NoSession /\ sessionKey' = NoSession
    /\ Expire
    /\ UNCHANGED <<requests, savers, resetting, histKey, database, ghosts>>

-----------------------------------------------------------------------------
SendMessage(q) ==
    \/ GetHist(q) \/ GetKey(q) \/ Find(q) \/ Messages(q) \/ LoadFails(q)
    \/ Rebuild(q) \/ Rekey(q) \/ EndAll(q) \/ Create(q) \/ CreateFails(q)
    \/ SetKey(q) \/ Ask(q) \/ Gemini(q) \/ GeminiFails(q)
    \/ SaveHistory(q) \/ SaveHistoryFails(q)

AllDone ==
    /\ \A q \in Requests : pc[q] \in {"done", "shown", "failed"}
    /\ savers = {} /\ ~ resetting

Terminated == AllDone /\ UNCHANGED vars

Next ==
    \/ \E q \in Requests : Begin(q) \/ SendMessage(q)
    \/ \E s \in savers : SaveMessage(s) \/ SaveMessageFails(s)
    \/ ResetSessions \/ ResetKeys
    \/ HistExpires \/ KeyExpires
    \/ Terminated

\* The request has a deadline and so have the savers: each goes on or fails.
Fairness ==
    /\ \A q \in Requests : WF_vars(SendMessage(q))
    /\ \A q \in Requests, role \in Roles :
        WF_vars(\E s \in savers : /\ s.turn = TurnOf(role, q)
                                  /\ SaveMessage(s) \/ SaveMessageFails(s))
    /\ WF_vars(ResetKeys)

Spec == Init /\ [][Next]_vars /\ Fairness

-----------------------------------------------------------------------------
TypeOK ==
    /\ pc \in [Requests -> Locations]
    /\ history \in [Requests -> Seq(Turn)]
    /\ session \in [Requests -> Sessions \union {NoSession}]
    /\ savers \subseteq [session : Sessions, turn : Turn]
    /\ resetting \in BOOLEAN
    /\ histKey \in Seq(Turn)
    /\ sessionKey \in Sessions \union {NoSession}
    /\ started \in Seq(Sessions)
    /\ open \subseteq Sessions
    /\ rows \in [Sessions -> Seq(Turn)]
    /\ resets \in Nat /\ expiries \in Nat /\ faults \in Nat
    /\ epoch \in [Requests -> Nat]
    /\ before \in [Requests -> SUBSET Requests]
    /\ overlapped \subseteq Requests
    /\ together \subseteq SUBSET Requests
    /\ split \in BOOLEAN

(***************************************************************************)
(* Closing the orphans before creating a session leaves at most one open,  *)
(* except for requests that were between the two steps at the same time    *)
(* (or a failed UPDATE): sequential use never has two.                     *)
(***************************************************************************)
OpenSessionsOverlapped ==
    faults = 0 => \A s1, s2 \in open : s1 # s2 => {s1, s2} \in together

Archived(turn) == \E s \in Sessions : Has(rows[s], turn)
Saving(turn) == \E s \in savers : s.turn = turn
Safe(turn) == Archived(turn) \/ Saving(turn)

(***************************************************************************)
(* Whatever Gemini is shown as the conversation is in the database, or a   *)
(* saver still holds it: losing Redis loses no turn, unless a call failed. *)
(***************************************************************************)
CacheIsArchived ==
    faults = 0 => \A i \in 1 .. Len(histKey) : Safe(histKey[i])

(***************************************************************************)
(* A question asked after another one was answered and stored is sent to   *)
(* Gemini with that exchange in its history, whatever keys expired in      *)
(* between (loadHistory's fallback finds the right session).  It needs no  *)
(* Reset since then, an exchange that overlapped with no request (the last *)
(* to write the history wins), no failed call, and a conversation that was *)
(* not split: of two sessions opened at once the key may name one and the  *)
(* database find the other.                                                *)
(***************************************************************************)
Loaded == {"endall", "create", "setkey", "ask", "gemini", "save"}

MemoryKept ==
    faults = 0 /\ ~ split =>
        \A q \in Requests : pc[q] \in Loaded =>
            \A r \in before[q] \ overlapped :
                resets = epoch[r] /\ ~ resetting =>
                    \A role \in Roles : Has(history[q], TurnOf(role, r))

ArchivedFor(q, role) == Has(rows[session[q]], TurnOf(role, q))

(***************************************************************************)
(* Every request that begins ends, its question archived in the session it *)
(* worked in, closed meanwhile or not, and the answer too if there was     *)
(* one, unless a call failed.                                              *)
(***************************************************************************)
EverythingArchived ==
    <>[](\A q \in Requests :
            \/ pc[q] \in {"new", "shown"}
            \/ pc[q] = "failed" /\ (faults > 0 \/ ArchivedFor(q, "user"))
            \/ pc[q] = "done" /\ (faults > 0 \/ \A role \in Roles : ArchivedFor(q, role)))

-----------------------------------------------------------------------------
(***************************************************************************)
(* "Reset cierra la sesion activa del gestor y limpia Redis"               *)
(* (handler.go:142): a request that begins after a Reset does not see what *)
(* was said before it.  A request still waiting for Gemini writes the old  *)
(* history back.                                                           *)
(***************************************************************************)
ResetForgets ==
    \A q \in Requests : \A i \in 1 .. Len(history[q]) :
        epoch[history[q][i].of] >= epoch[q]

=============================================================================
