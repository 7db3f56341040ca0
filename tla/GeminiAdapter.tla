---------------------------- MODULE GeminiAdapter ----------------------------
(***************************************************************************)
(* One question to the model, internal/whatsapp/gemini_adapter.go:         *)
(* CallWithTools sends it, carries out the function calls of the answer    *)
(* (calcular_cotizacion, consultar_blank, escalar_a_humano) and sends back *)
(* their results, at most ToolLoopMax times; every send is tried again     *)
(* while Vertex AI answers 429, at most Retries times more.  CallWithImage *)
(* sends a picture once, without functions.                                *)
(*                                                                         *)
(* Both are called with a context that is never cancelled, so the waits    *)
(* between attempts always end.  Of an answer we keep what the loop looks  *)
(* at: whether it calls a function, has text, or neither.                  *)
(***************************************************************************)
EXTENDS ContextProvider

CONSTANTS
    Channel,      \* Channel[m]: "telegram" or "whatsapp"
    ToolLoopMax,  \* toolLoopMax, 5
    Retries       \* the delays of sendWithRetry, 3

ASSUME AdapterAssumption ==
    /\ Channel \in [Messages -> {"telegram", "whatsapp"}]
    /\ ToolLoopMax \in Nat /\ Retries \in Nat

VARIABLES
    turn,     \* turn[m]: the state of the call for message m
    advisor   \* what was sent to the human advisor, with its outcome

Stages == {"idle", "build", "ask", "function", "answered", "fallback", "failed"}
\* What a call returns: the model's text, the adapter's own excuse, an error.
Results == {"answered", "fallback", "failed"}

Turn == [at : Stages, tools : BOOLEAN, round : 0 .. ToolLoopMax, attempt : 0 .. Retries]
NoTurn == [at |-> "idle", tools |-> FALSE, round |-> 0, attempt |-> 0]

AdapterInit ==
    /\ turn = [m \in Messages |-> NoTurn]
    /\ advisor = {}

At(m, stage) == turn[m].at = stage
Move(m, stage) == turn' = [turn EXCEPT ![m].at = stage]

\* CallWithTools (tools) or CallWithImage begins with GetDynamicContext.
Call(m, tools) ==
    /\ At(m, "idle")
    /\ turn' = [turn EXCEPT ![m] = [at |-> IF fresh THEN "ask" ELSE "build", tools |-> tools,
                                    round |-> 0, attempt |-> 0]]
    /\ UNCHANGED advisor
    /\ IF fresh THEN UNCHANGED <<provider, events>>
       ELSE \E failed \in SUBSET Settings : BuildContext(m, failed)

StoreContext(m) ==
    /\ At(m, "build")
    /\ Move(m, "ask")
    /\ InstallContext(m)
    /\ UNCHANGED <<advisor, events>>

\* An answer with text ends the call; one with neither ends it too.
Answer(m) ==
    /\ At(m, "ask")
    /\ \E result \in {"answered", "fallback"} : Move(m, result)
    /\ UNCHANGED <<advisor, provider, events>>

\* An answer that calls a function, while there are rounds left.
CallFunction(m) ==
    /\ At(m, "ask") /\ turn[m].tools
    /\ turn[m].round < ToolLoopMax
    /\ Move(m, "function")
    /\ UNCHANGED <<advisor, provider, events>>

\* sendWithRetry: 429, ResourceExhausted.
TooManyRequests(m) ==
    /\ At(m, "ask")
    /\ turn' = IF turn[m].tools /\ turn[m].attempt < Retries
               THEN [turn EXCEPT ![m].attempt = @ + 1]
               ELSE [turn EXCEPT ![m].at = "failed"]
    /\ UNCHANGED <<advisor, provider, events>>

\* Any other error ends the call, also when functions have been carried out.
ModelFails(m) ==
    /\ At(m, "ask")
    /\ Move(m, "failed")
    /\ Outcome(FALSE)
    /\ UNCHANGED <<advisor, provider>>

\* A call goes forward: to a later round, or to a later stage of its round, or
\* to another attempt at the same stage.
StageOrder == [idle |-> 0, build |-> 1, ask |-> 2, function |-> 3,
               answered |-> 4, fallback |-> 4, failed |-> 4]
Later(t, u) ==
    \/ u.round > t.round
    \/ u.round = t.round /\ StageOrder[u.at] > StageOrder[t.at]
    \/ u.round = t.round /\ u.at = t.at /\ u.attempt > t.attempt

\* Mutant: the rounds are not counted.
NextRoundUncounted(m) ==
    turn' = [turn EXCEPT ![m].at = "ask", ![m].attempt = 0]

\* The result, or the error in its place, goes back to the model.
NextRound(m) ==
    turn' = [turn EXCEPT ![m].at = "ask", ![m].round = @ + 1, ![m].attempt = 0]

\* calcular_cotizacion, consultar_blank, or a name that does not exist.
Query(m) ==
    /\ At(m, "function")
    /\ NextRound(m)
    /\ UNCHANGED <<advisor, provider, events>>

Told(m, about, via, ok) ==
    advisor' = advisor \cup
        {[msg |-> m, about |-> about, round |-> turn[m].round, via |-> via, ok |-> ok]}

\* escalar_a_humano: the advisor is told by the customer's channel.  There is a
\* second one for a Telegram customer only when no chat is configured: a send
\* that fails is reported to the model and not tried elsewhere.
EscalarAHumano(m) ==
    /\ At(m, "function")
    /\ NextRound(m)
    /\ UNCHANGED <<config, fresh, draft>>
    /\ \E failed \in SUBSET Settings, sent \in BOOLEAN :
         LET telegram == Channel[m] = "telegram"
             direct == telegram /\ Value("chat", "chat" \notin failed) # Nothing
             consulted == (IF telegram THEN {"chat"} ELSE {})
                          \cup (IF direct THEN {} ELSE {"phone"})
         IN /\ Consult(consulted, failed)
            /\ Told(m, "order", IF direct THEN "telegram" ELSE "whatsapp", sent)
            /\ Outcome(failed = {} /\ sent)

AdapterStep(m) ==
    \/ StoreContext(m)
    \/ Answer(m)
    \/ CallFunction(m)
    \/ TooManyRequests(m)
    \/ ModelFails(m)
    \/ Query(m)
    \/ EscalarAHumano(m)
=============================================================================
