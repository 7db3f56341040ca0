--------------------------- MODULE DailyAdmission ---------------------------
(***************************************************************************)
(* What the daily rate limiter of the messaging channels promises to a     *)
(* caller, without saying how: internal/whatsapp/rate_limiter.go keeps,    *)
(* for each UTC day, the contacts that already started a conversation and  *)
(* how many conversations were counted, and answers every question         *)
(* "may this contact be processed?" with a verdict.                        *)
(*                                                                         *)
(*  - a contact is treated as a continuation only if it is registered;     *)
(*  - a contact is turned away only if the day's count reached the limit;  *)
(*  - a question is counted at most once, only the admitted are counted,   *)
(*    and the day's count never exceeds a known capacity;                  *)
(*  - nothing registered or counted is ever taken back, and every question *)
(*    is eventually answered, unless a restart drops it.                   *)
(*                                                                         *)
(* RateLimiter implements this specification step by step.                 *)
(***************************************************************************)
EXTENDS Integers

CONSTANTS
    Callers,    \* goroutines that may be asking at the same time
    Phones,     \* contact identifiers, of either channel
    Days,       \* the UTC days under consideration
    Limit,      \* WHATSAPP_DAILY_LIMIT
    Capacity    \* the most conversations a day may ever count

VARIABLES
    known,      \* known[d]: contacts registered on day d
    counted,    \* counted[d]: conversations counted on day d
    asking,     \* asking[c]: the <<contact, day, counted>> c asks about, or none
    verdict     \* verdict[c]: the last answer c got

vars == <<known, counted, asking, verdict>>

\* CheckResult of rate_limiter.go, and the absence of an answer.
Allow == "Allow"
AllowContinuation == "AllowContinuation"
Deny == "Deny"
NoVerdict == "NoVerdict"
CheckResult == {Allow, AllowContinuation, Deny}

NoQuestion == <<>>

Init ==
    /\ known = [d \in Days |-> {}]
    /\ counted = [d \in Days |-> 0]
    /\ asking = [c \in Callers |-> NoQuestion]
    /\ verdict = [c \in Callers |-> NoVerdict]

Ask(c) ==
    /\ asking[c] = NoQuestion
    /\ \E p \in Phones, d \in Days : asking' = [asking EXCEPT ![c] = <<p, d, FALSE>>]
    /\ verdict' = [verdict EXCEPT ![c] = NoVerdict]
    /\ UNCHANGED <<known, counted>>

\* The contact asked about is recorded as having a conversation that day.
Register(c) ==
    /\ asking[c] # NoQuestion
    /\ known' = [known EXCEPT ![asking[c][2]] = @ \union {asking[c][1]}]
    /\ UNCHANGED <<counted, asking, verdict>>

\* The conversation is counted, once for a question and while there is room.
Count(c) ==
    /\ asking[c] # NoQuestion
    /\ ~ asking[c][3]
    /\ counted[asking[c][2]] < Capacity
    /\ counted' = [counted EXCEPT ![asking[c][2]] = @ + 1]
    /\ asking' = [asking EXCEPT ![c] = <<asking[c][1], asking[c][2], TRUE>>]
    /\ UNCHANGED <<known, verdict>>

\* The answer; who was counted is admitted.
Answer(c) ==
    /\ asking[c] # NoQuestion
    /\ \E v \in CheckResult :
        /\ v = AllowContinuation => asking[c][1] \in known[asking[c][2]]
        /\ v = Deny => counted[asking[c][2]] >= Limit
        /\ asking[c][3] => v = Allow
        /\ verdict' = [verdict EXCEPT ![c] = v]
    /\ asking' = [asking EXCEPT ![c] = NoQuestion]
    /\ UNCHANGED <<known, counted>>

\* A restart of the server drops every open question.
DropAll ==
    /\ asking' = [c \in Callers |-> NoQuestion]
    /\ UNCHANGED <<known, counted, verdict>>

Next == DropAll \/ \E c \in Callers : Ask(c) \/ Register(c) \/ Count(c) \/ Answer(c)

Fairness == \A c \in Callers : WF_vars(Answer(c))

Spec == Init /\ [][Next]_vars /\ Fairness

=============================================================================
