----------------------------- MODULE RateLimiter -----------------------------
(***************************************************************************)
(* The daily conversation limiter shared by the WhatsApp and the Telegram  *)
(* channel: RateLimiter.Check of internal/whatsapp/rate_limiter.go.        *)
(*                                                                         *)
(* Check is a sequence of Redis commands, each atomic on its own, and one  *)
(* goroutine per webhook runs it with no lock: the steps of different      *)
(* callers interleave.  A caller's program counter names the command it    *)
(* sends next.  Every command may fail instead; the code then fails open.  *)
(* A command is applied at most once; it may be applied without its reply  *)
(* ever arriving, which matters for INCR alone: nobody learns the count.   *)
(*                                                                         *)
(* The warnings to the administrator leave from goroutines of their own,   *)
(* which end whenever the mail server lets them (sendMail has no deadline) *)
(* or fail.  Each denial mails a notice too (sendLimitAlert); nothing      *)
(* depends on it and it is left out.  A restart of the server ends callers *)
(* and goroutines alike; Redis keeps the keys.                             *)
(*                                                                         *)
(* The keys carry the UTC date read once at the beginning of Check, so a   *)
(* call that straddles midnight finishes on the day it began.  Their TTL   *)
(* of 48 hours outlives every call that can still use them.                *)
(***************************************************************************)
EXTENDS Integers, FiniteSets

CONSTANTS
    Callers,    \* goroutines that may be inside Check at the same time
    Phones,     \* contact identifiers ("506...", "tg:...")
    LastDay,    \* bound: the days considered are 0 .. LastDay
    Limit,      \* WHATSAPP_DAILY_LIMIT, 230 by default
    AlertAt     \* WHATSAPP_ALERT_THRESHOLD, 200 by default

\* envInt accepts only values of at least one.
ASSUME LimitsAssumption == Limit \in Nat \ {0} /\ AlertAt \in Nat \ {0}
ASSUME CallersAssumption == IsFiniteSet(Callers)
ASSUME PhonesAssumption == Phones # {}
ASSUME DaysAssumption == LastDay \in Nat

Days == 0 .. LastDay

\* What an idle caller's contact is: any, so that they do not differ by it.
Nobody == CHOOSE p \in Phones : TRUE

\* The most conversations a day can count: see OvershootBound.
Capacity == Limit + Cardinality(Callers) - 1

VARIABLES
    today,      \* the current UTC date
    phones,     \* Redis sets   wa:daily:phones:{date}
    count,      \* Redis counts wa:daily:count:{date}
    pc,         \* where each caller is in Check
    phone,      \* the contact each caller asks about
    day,        \* the dateKey each caller read
    newCount,   \* what INCR made of the count, until its caller acts on it
    verdict,    \* what Check returned to each caller
    sending,    \* sending[d]: counts whose sendThresholdAlert is under way
    mailed,     \* mailed[d]: counts whose alert the mail server accepted
    lost,       \* lost[d]: counts whose alert never will be mailed (history)
    missed      \* missed[d]: some SADD or INCR of the day failed (history)

redis == <<phones, count>>
alertVars == <<sending, mailed, lost>>
callerVars == <<pc, phone, day, newCount, verdict>>
vars == <<today, phones, count, pc, phone, day, newCount, verdict,
          sending, mailed, lost, missed>>

Allow == "Allow"
AllowContinuation == "AllowContinuation"
Deny == "Deny"
NoVerdict == "NoVerdict"
CheckResult == {Allow, AllowContinuation, Deny}

\* The go statement of Check.
Go(d, n) == sending' = [sending EXCEPT ![d] = @ \union {n}]

Locations == {"idle", "SIsMember", "Get", "SAdd", "Incr", "Announce"}

Init ==
    /\ today = 0
    /\ phones = [d \in Days |-> {}]
    /\ count = [d \in Days |-> 0]
    /\ pc = [c \in Callers |-> "idle"]
    /\ phone = [c \in Callers |-> Nobody]
    /\ day = [c \in Callers |-> 0]
    /\ newCount = [c \in Callers |-> 0]
    /\ verdict = [c \in Callers |-> NoVerdict]
    /\ sending = [d \in Days |-> {}]
    /\ mailed = [d \in Days |-> {}]
    /\ lost = [d \in Days |-> {}]
    /\ missed = [d \in Days |-> FALSE]

Goto(c, from, to) ==
    /\ pc[c] = from
    /\ pc' = [pc EXCEPT ![c] = to]

\* Check returns and its locals are gone.
Return(c, from, v) ==
    /\ Goto(c, from, "idle")
    /\ phone' = [phone EXCEPT ![c] = Nobody]
    /\ day' = [day EXCEPT ![c] = 0]
    /\ verdict' = [verdict EXCEPT ![c] = v]

\* A webhook's goroutine calls Check for the sender; the date is read first.
Call(c) ==
    /\ Goto(c, "idle", "SIsMember")
    /\ \E p \in Phones : phone' = [phone EXCEPT ![c] = p]
    /\ day' = [day EXCEPT ![c] = today]
    /\ verdict' = [verdict EXCEPT ![c] = NoVerdict]
    /\ UNCHANGED <<today, redis, newCount, alertVars, missed>>

\* Mutant: SADD, whose answer also tells members, in place of SISMEMBER.
SIsMemberAdding(c) ==
    /\ \/ /\ phone[c] \in phones[day[c]]
          /\ Return(c, "SIsMember", AllowContinuation)
       \/ /\ phone[c] \notin phones[day[c]]
          /\ Goto(c, "SIsMember", "Get")
          /\ UNCHANGED <<phone, day, verdict>>
    /\ phones' = [phones EXCEPT ![day[c]] = @ \union {phone[c]}]
    /\ UNCHANGED <<today, count, newCount, alertVars, missed>>

\* 1. A registered contact is a continuation and is not counted again.
SIsMember(c) ==
    /\ \/ /\ phone[c] \in phones[day[c]]
          /\ Return(c, "SIsMember", AllowContinuation)
       \/ /\ phone[c] \notin phones[day[c]]
          /\ Goto(c, "SIsMember", "Get")
          /\ UNCHANGED <<phone, day, verdict>>
    /\ UNCHANGED <<today, redis, newCount, alertVars, missed>>

\* Mutant: the limit itself is let through.
GetOneMore(c) ==
    /\ \/ /\ count[day[c]] > Limit
          /\ Return(c, "Get", Deny)
       \/ /\ count[day[c]] <= Limit
          /\ Goto(c, "Get", "SAdd")
          /\ UNCHANGED <<phone, day, verdict>>
    /\ UNCHANGED <<today, redis, newCount, alertVars, missed>>

\* Mutant: contacts are turned away one conversation too early.
GetOneLess(c) ==
    /\ \/ /\ count[day[c]] + 1 >= Limit
          /\ Return(c, "Get", Deny)
       \/ /\ count[day[c]] + 1 < Limit
          /\ Goto(c, "Get", "SAdd")
          /\ UNCHANGED <<phone, day, verdict>>
    /\ UNCHANGED <<today, redis, newCount, alertVars, missed>>

\* 2. The limit is compared with the count as it is now (a missing key is 0).
Get(c) ==
    /\ \/ /\ count[day[c]] >= Limit
          /\ Return(c, "Get", Deny)
       \/ /\ count[day[c]] < Limit
          /\ Goto(c, "Get", "SAdd")
          /\ UNCHANGED <<phone, day, verdict>>
    /\ UNCHANGED <<today, redis, newCount, alertVars, missed>>

\* Without an answer from Redis to either question the contact is let through.
FailOpen(c) ==
    /\ \E from \in {"SIsMember", "Get"} : Return(c, from, Allow)
    /\ UNCHANGED <<today, redis, newCount, alertVars, missed>>

\* 3. The contact is registered; a failure is logged and the call goes on.
SAdd(c) ==
    /\ Goto(c, "SAdd", "Incr")
    /\ \/ /\ phones' = [phones EXCEPT ![day[c]] = @ \union {phone[c]}]
          /\ UNCHANGED missed
       \/ /\ missed' = [missed EXCEPT ![day[c]] = TRUE]
          /\ UNCHANGED phones
    /\ UNCHANGED <<today, count, phone, day, newCount, verdict, alertVars>>

\* The conversation is counted; INCR answers with the new count.
Incr(c) ==
    /\ Goto(c, "Incr", "Announce")
    /\ count' = [count EXCEPT ![day[c]] = @ + 1]
    /\ newCount' = [newCount EXCEPT ![c] = count'[day[c]]]
    /\ UNCHANGED <<today, phones, phone, day, verdict, alertVars, missed>>

IncrFails(c) ==
    /\ Return(c, "Incr", Allow)
    /\ missed' = [missed EXCEPT ![day[c]] = TRUE]
    /\ UNCHANGED <<today, redis, newCount, alertVars>>

\* Mutant: the first announcement comes one conversation late.
AnnounceLate(c) ==
    /\ Return(c, "Announce", Allow)
    /\ newCount' = [newCount EXCEPT ![c] = 0]
    /\ \/ /\ newCount[c] > AlertAt
          /\ Go(day[c], newCount[c])
          /\ UNCHANGED lost
       \/ /\ newCount[c] <= AlertAt
          /\ UNCHANGED <<sending, lost>>
       \/ /\ lost' = [lost EXCEPT ![day[c]] = @ \union {newCount[c]}]
          /\ UNCHANGED sending
    /\ UNCHANGED <<today, redis, mailed, missed>>

\* 4. The reply of INCR arrives, and the count is announced from the threshold
\* on; or the reply is lost, and who was counted is announced by nobody.
Announce(c) ==
    /\ Return(c, "Announce", Allow)
    /\ newCount' = [newCount EXCEPT ![c] = 0]
    /\ \/ /\ newCount[c] >= AlertAt
          /\ Go(day[c], newCount[c])
          /\ UNCHANGED lost
       \/ /\ newCount[c] < AlertAt
          /\ UNCHANGED <<sending, lost>>
       \/ /\ lost' = [lost EXCEPT ![day[c]] = @ \union {newCount[c]}]
          /\ UNCHANGED sending
    /\ UNCHANGED <<today, redis, mailed, missed>>

\* The goroutine of an alert ends: the mail is accepted, or its failure logged.
SendAlert(d) ==
    /\ \E n \in sending[d] :
        /\ sending' = [sending EXCEPT ![d] = @ \ {n}]
        /\ \/ /\ mailed' = [mailed EXCEPT ![d] = @ \union {n}]
              /\ UNCHANGED lost
           \/ /\ lost' = [lost EXCEPT ![d] = @ \union {n}]
              /\ UNCHANGED mailed
    /\ UNCHANGED <<today, redis, callerVars, missed>>

\* UTC midnight: from now on Check uses the next day's keys.
Midnight ==
    /\ today < LastDay
    /\ today' = today + 1
    /\ UNCHANGED <<redis, callerVars, alertVars, missed>>

\* Callers that registered their contact on day d and have not counted yet.
Uncounted(d) == {c \in Callers : pc[c] = "Incr" /\ day[c] = d}

\* Callers that counted on day d and have not announced the count yet.
Unannounced(d) == {c \in Callers : pc[c] = "Announce" /\ day[c] = d}

\* The server stops and starts again: what is in memory is gone, and what a
\* call left half done stays so.
Restart ==
    /\ pc' = [c \in Callers |-> "idle"]
    /\ newCount' = [c \in Callers |-> 0]
    /\ sending' = [d \in Days |-> {}]
    /\ lost' = [d \in Days |-> lost[d] \union sending[d]
                   \union {newCount[c] : c \in Unannounced(d)}]
    /\ missed' = [d \in Days |-> missed[d] \/ Uncounted(d) # {}]
    /\ phone' = [c \in Callers |-> Nobody]
    /\ day' = [c \in Callers |-> 0]
    /\ UNCHANGED <<today, redis, verdict, mailed>>

Step(c) ==
    \/ SIsMember(c) \/ Get(c) \/ FailOpen(c)
    \/ SAdd(c) \/ Incr(c) \/ IncrFails(c) \/ Announce(c)

Next ==
    \/ Midnight
    \/ Restart
    \/ \E c \in Callers : Call(c) \/ Step(c)
    \/ \E d \in Days : SendAlert(d)

\* A Redis command returns or times out, so a call under way always goes on.
\* A mail server owes no answer, so nothing is assumed of SendAlert.
Fairness == \A c \in Callers : WF_vars(Step(c))

Spec == Init /\ [][Next]_vars /\ Fairness

-----------------------------------------------------------------------------
TypeOK ==
    /\ today \in Days
    /\ phones \in [Days -> SUBSET Phones]
    /\ count \in [Days -> Nat]
    /\ pc \in [Callers -> Locations]
    /\ phone \in [Callers -> Phones]
    /\ day \in [Callers -> Days]
    /\ verdict \in [Callers -> CheckResult \union {NoVerdict}]
    /\ newCount \in [Callers -> Nat]
    /\ sending \in [Days -> SUBSET Nat]
    /\ mailed \in [Days -> SUBSET Nat]
    /\ lost \in [Days -> SUBSET Nat]
    /\ missed \in [Days -> BOOLEAN]

\* Callers that passed the limit test of day d and have not counted yet.
Passed(d) == {c \in Callers : pc[c] \in {"SAdd", "Incr"} /\ day[c] = d}

(***************************************************************************)
(* The limit is tested and the count incremented by different commands, so *)
(* concurrent newcomers can overshoot it, but by less than the number of   *)
(* callers inside Check: this is what the margin between the default limit *)
(* (230) and Meta's own (250) has to absorb.                               *)
(***************************************************************************)
OvershootBound ==
    \A d \in Days : count[d] <= Capacity

\* The inductive form: those who passed the test already have their place.
ReservedBound ==
    \A d \in Days : count[d] + Cardinality(Passed(d)) <= Capacity

(***************************************************************************)
(* Unless a command failed that day or a restart came between the two,     *)
(* every registered contact has been counted or is about to be:            *)
(* registering first and counting second never lets a contact in for free, *)
(* whatever the interleaving.                                              *)
(***************************************************************************)
EveryContactCounted ==
    \A d \in Days : ~ missed[d] =>
        Cardinality(phones[d]) <= count[d] + Cardinality(Uncounted(d))

(***************************************************************************)
(* What becomes of the warnings.  A contact may be turned away before any  *)
(* warning left the server: counting, the go statement and the mail are    *)
(* three steps, and others count in between.  But no warning is forgotten: *)
(* from the threshold on, the alert of every count a day reached has been  *)
(* mailed or is under way, or the caller that counted has yet to start it, *)
(* unless SMTP failed, the reply of INCR was lost or a restart came.       *)
(***************************************************************************)
NoWarningForgotten ==
    \A d \in Days : \A n \in AlertAt .. count[d] :
        \/ n \in sending[d] \union mailed[d] \union lost[d]
        \/ \E c \in Unannounced(d) : newCount[c] = n

(***************************************************************************)
(* The limiter implements its abstract promise.  Registering is visible    *)
(* with SADD, a caller's question is open while it is inside Check, and    *)
(* counted from INCR on.                                                   *)
(***************************************************************************)
Asking == [c \in Callers |-> IF pc[c] = "idle" THEN <<>>
                             ELSE <<phone[c], day[c], pc[c] = "Announce">>]

Promise == INSTANCE DailyAdmission WITH
    known <- phones,
    counted <- count,
    asking <- Asking

ImplementsDailyAdmission == Promise!Spec
=============================================================================
