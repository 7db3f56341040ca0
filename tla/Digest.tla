-------------------------------- MODULE Digest --------------------------------
(***************************************************************************)
(* The e-mail digest of the WhatsApp conversations: SendDigest of          *)
(* internal/whatsapp/summary_mailer.go, beside the goroutines that archive *)
(* the conversations (saveHistoryAsync of processor.go).                   *)
(*                                                                         *)
(* A run of SendDigest mails the archived turns created since the last     *)
(* one and then moves a watermark in Redis, fabricalaser:whatsapp:digest:  *)
(* last_sent.  Runs are started by cron (cmd/digest) and by the            *)
(* administrator, in different processes and without a lock.  A turn is    *)
(* stamped with the time first and inserted in the table later.            *)
(*                                                                         *)
(* An action is one call (Redis, PostgreSQL, SMTP) or one reading of the   *)
(* clock.  Summaries and grouping by contact only shape the mail.          *)
(***************************************************************************)
EXTENDS Integers

CONSTANTS
    Turns,      \* rows that may be archived
    Runners,    \* who runs SendDigest: cron, the administrator
    Cron,       \* the one that runs again and again
    Window,     \* digestHours: what a first digest covers
    Day,        \* the least age of what the administrator may delete
    Second,     \* the watermark is stored in seconds, the clock is finer
    MaxTime,    \* bound: the clock stops there
    MaxFaults   \* bound: calls that fail

ASSUME RunnersAssumption == Cron \in Runners
ASSUME ClockAssumption ==
    /\ Window \in Nat \ {0} /\ Day \in Nat \ {0} /\ Second \in Nat \ {0}
    /\ MaxTime \in Nat /\ MaxFaults \in Nat

Never == -1
Time == 0 .. MaxTime

VARIABLES
    now,
    row,        \* row[t]: "none", "stamped", "inserted", "lost", "purged"
    created,    \* created[t]: its created_at
    lastSent,   \* the watermark, or Never when the key does not exist
    pc,         \* where each runner is in SendDigest
    since, sentAt, batch,   \* its local variables
    faults,
    mailed,     \* turns some digest has carried (history)
    lastMail,   \* lastMail[t]: sentAt of the last digest with t (history)
    excused,    \* turns that no digest has to carry any more (history)
    disturbed   \* some call failed, or two runs overlapped (history)

locals == <<since, sentAt, batch>>
reports == <<mailed, lastMail>>
vars == <<now, row, created, lastSent, pc, locals, faults, reports, excused, disturbed>>

Locations == {"idle", "clock", "query", "mail", "set"}

\* Redis has kept the watermark of an earlier digest, or has none yet.
Init ==
    /\ now = 0
    /\ row = [t \in Turns |-> "none"]
    /\ created = [t \in Turns |-> 0]
    /\ lastSent \in {Never, 0}
    /\ pc = [r \in Runners |-> "idle"]
    /\ since = [r \in Runners |-> 0]
    /\ sentAt = [r \in Runners |-> 0]
    /\ batch = [r \in Runners |-> {}]
    /\ faults = 0
    /\ mailed = {}
    /\ lastMail = [t \in Turns |-> Never]
    /\ excused = {}
    /\ disturbed = FALSE

Tick ==
    /\ now < MaxTime
    /\ now' = now + 1
    /\ UNCHANGED <<row, created, lastSent, pc, locals, faults, reports,
                   excused, disturbed>>

Fault ==
    /\ faults < MaxFaults
    /\ faults' = faults + 1
    /\ disturbed' = TRUE

-----------------------------------------------------------------------------
\* saveHistoryAsync.

Stamp(t) ==
    /\ row[t] = "none"
    /\ row' = [row EXCEPT ![t] = "stamped"]
    /\ created' = [created EXCEPT ![t] = now]
    /\ UNCHANGED <<now, lastSent, pc, locals, faults, reports, excused, disturbed>>

\* A digest has already decided without t: its watermark is, or is going to
\* be, past t, or it was read past t.
Overtaken(t) ==
    \/ created[t] <= lastSent
    \/ \E r \in Runners :
        \/ pc[r] # "idle" /\ created[t] <= since[r]
        \/ pc[r] \in {"mail", "set"} /\ created[t] <= sentAt[r]

Insert(t) ==
    /\ row[t] = "stamped"
    /\ row' = [row EXCEPT ![t] = "inserted"]
    /\ excused' = IF Overtaken(t) THEN excused \union {t} ELSE excused
    /\ UNCHANGED <<now, created, lastSent, pc, locals, faults, reports, disturbed>>

\* A failed INSERT is logged and the turn is gone.
InsertFails(t) ==
    /\ row[t] = "stamped"
    /\ row' = [row EXCEPT ![t] = "lost"]
    /\ Fault
    /\ UNCHANGED <<now, created, lastSent, pc, locals, reports, excused>>

\* The administrator deletes what is older than some days.
Purge(age) ==
    /\ row' = [t \in Turns |-> IF row[t] = "inserted" /\ created[t] < now - age
                              THEN "purged" ELSE row[t]]
    /\ row' # row
    /\ UNCHANGED <<now, created, lastSent, pc, locals, faults, reports, excused,
                   disturbed>>

-----------------------------------------------------------------------------
\* SendDigest.

Goto(r, from, to) ==
    /\ pc[r] = from
    /\ pc' = [pc EXCEPT ![r] = to]

\* SendDigest ends at from: its local variables are gone.
Return(r, from) ==
    /\ Goto(r, from, "idle")
    /\ since' = [since EXCEPT ![r] = 0]
    /\ sentAt' = [sentAt EXCEPT ![r] = 0]
    /\ batch' = [batch EXCEPT ![r] = {}]

\* getLastSent without a watermark: the first digest covers the last hours.
CoverWindow(r) ==
    /\ since' = [since EXCEPT ![r] = now - Window]
    /\ excused' = excused \union
           {t \in Turns : row[t] = "inserted" /\ created[t] <= now - Window}

GetLastSent(r) ==
    /\ Goto(r, "idle", "clock")
    /\ \/ /\ lastSent # Never
          /\ since' = [since EXCEPT ![r] = lastSent]
          /\ UNCHANGED <<faults, excused>>
       \/ /\ lastSent = Never
          /\ CoverWindow(r)
          /\ UNCHANGED faults
       \/ /\ CoverWindow(r)
          /\ Fault
    /\ disturbed' = (disturbed \/ faults' # faults \/ \E q \in Runners : pc[q] # "idle")
    /\ UNCHANGED <<now, row, created, lastSent, sentAt, batch, reports>>

ReadClock(r) ==
    /\ Goto(r, "clock", "query")
    /\ sentAt' = [sentAt EXCEPT ![r] = now]
    /\ UNCHANGED <<now, row, created, lastSent, since, batch, faults, reports,
                   excused, disturbed>>

\* Mutant: the turn the watermark stands at is taken again.
QueryFrom(r) == LET found == {t \in Turns : row[t] = "inserted" /\ created[t] >= since[r]} IN
    /\ Goto(r, "query", IF found = {} THEN "set" ELSE "mail")
    /\ batch' = [batch EXCEPT ![r] = found]
    /\ UNCHANGED <<now, row, created, lastSent, since, sentAt, faults, reports,
                   excused, disturbed>>

\* GetDigestMessagesSince; without messages no mail is sent.
Query(r) == LET found == {t \in Turns : row[t] = "inserted" /\ created[t] > since[r]} IN
    /\ Goto(r, "query", IF found = {} THEN "set" ELSE "mail")
    /\ batch' = [batch EXCEPT ![r] = found]
    /\ UNCHANGED <<now, row, created, lastSent, since, sentAt, faults, reports,
                   excused, disturbed>>

QueryFails(r) ==
    /\ Return(r, "query")
    /\ Fault
    /\ UNCHANGED <<now, row, created, lastSent, reports, excused>>

Deliver(r) ==
    /\ mailed' = mailed \union batch[r]
    /\ lastMail' = [t \in Turns |-> IF t \in batch[r] THEN sentAt[r] ELSE lastMail[t]]

Mail(r) ==
    /\ Goto(r, "mail", "set")
    /\ Deliver(r)
    /\ UNCHANGED <<now, row, created, lastSent, locals, faults, excused, disturbed>>

\* Mutant: the watermark moves whether or not the mail was sent.
MailFailsAndGoesOn(r) ==
    /\ Goto(r, "mail", "set")
    /\ Fault
    /\ UNCHANGED <<now, row, created, lastSent, locals, reports, excused>>

\* An error of the SMTP dialogue, which may come after the mail was taken.
MailFails(r) ==
    /\ Return(r, "mail")
    /\ Fault
    /\ Deliver(r) \/ UNCHANGED reports
    /\ UNCHANGED <<now, row, created, lastSent, excused>>

\* Unix(): the fraction of the second is dropped.
Truncate(time) == time - (time % Second)

\* Mutant: the watermark is the time the digest ended.
SetLastSentNow(r) ==
    /\ Return(r, "set")
    /\ lastSent' = Truncate(now)
    /\ UNCHANGED <<now, row, created, faults, reports, excused, disturbed>>

SetLastSent(r) ==
    /\ Return(r, "set")
    /\ lastSent' = Truncate(sentAt[r])
    /\ UNCHANGED <<now, row, created, faults, reports, excused, disturbed>>

SetFails(r) ==
    /\ Return(r, "set")
    /\ Fault
    /\ UNCHANGED <<now, row, created, lastSent, reports, excused>>

-----------------------------------------------------------------------------
SendDigest(r) ==
    \/ ReadClock(r) \/ Query(r) \/ QueryFails(r) \/ Mail(r) \/ MailFails(r)
    \/ SetLastSent(r) \/ SetFails(r)

Next ==
    \/ Tick
    \/ \E t \in Turns : Stamp(t) \/ Insert(t) \/ InsertFails(t)
    \/ \E age \in Day .. MaxTime : Purge(age)
    \/ \E r \in Runners : GetLastSent(r) \/ SendDigest(r)

(***************************************************************************)
(* cron starts a run again and again, the administrator when it likes; the *)
(* calls of a run return, and so does a saver's INSERT.  That of the mail  *)
(* server has no deadline (summary_mailer.go:331): it is assumed to end.   *)
(***************************************************************************)
Fairness ==
    /\ WF_vars(GetLastSent(Cron))
    /\ \A r \in Runners : WF_vars(SendDigest(r))
    /\ \A t \in Turns : WF_vars(Insert(t) \/ InsertFails(t))

Spec == Init /\ [][Next]_vars /\ Fairness

-----------------------------------------------------------------------------
TypeOK ==
    /\ now \in Time
    /\ row \in [Turns -> {"none", "stamped", "inserted", "lost", "purged"}]
    /\ created \in [Turns -> Time]
    /\ lastSent \in Time \union {Never}
    /\ pc \in [Runners -> Locations]
    /\ since \in [Runners -> (-Window) .. MaxTime]
    /\ sentAt \in [Runners -> Time]
    /\ batch \in [Runners -> SUBSET Turns]
    /\ faults \in 0 .. MaxFaults
    /\ mailed \subseteq Turns
    /\ lastMail \in [Turns -> Time \union {Never}]
    /\ excused \subseteq Turns
    /\ disturbed \in BOOLEAN

(***************************************************************************)
(* No turn falls between two digests: one the watermark has passed was     *)
(* mailed, whatever failed and however runs of cron and the administrator  *)
(* overlap, unless it was inserted after a digest that ought to have had   *)
(* it, or was older than the window of a digest without watermark.         *)
(***************************************************************************)
NothingSkipped ==
    \A t \in Turns :
        row[t] = "inserted" /\ created[t] <= lastSent => t \in mailed \union excused

(***************************************************************************)
(* A digest repeats a turn only if it was created after the watermark of   *)
(* the digest that had it (while the table was being read, or in the       *)
(* second that Unix() cuts off), as long as no call failed and no two runs *)
(* overlapped.                                                             *)
(***************************************************************************)
RepeatsAreRecent ==
    [][\A r \in Runners, t \in Turns :
        Mail(r) /\ t \in batch[r] \intersect mailed /\ ~ disturbed
            => created[t] > Truncate(lastMail[t])]_vars

(***************************************************************************)
(* A failed run does not lose its turns: as digests go on being started,   *)
(* every archived turn is mailed or excused.                               *)
(***************************************************************************)
EventuallyMailed ==
    <>[](\A t \in Turns : row[t] = "inserted" => t \in mailed \union excused)
=============================================================================
