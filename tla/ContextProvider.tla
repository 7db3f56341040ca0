--------------------------- MODULE ContextProvider ---------------------------
(***************************************************************************)
(* What the bots know of the shop's settings,                              *)
(* internal/whatsapp/context_provider.go: three rows of system_config kept *)
(* in memory beside the text added to every prompt, which expires after    *)
(* five minutes (contextCacheTTL).                                         *)
(*                                                                         *)
(* Only the text has an age.  A setting is served from memory for as long  *)
(* as it is there, however old, and it is replaced when somebody rebuilds  *)
(* the text, that is when a message reaches Gemini.  The text itself and   *)
(* the catalogue queries that fill it are left out: what matters of them   *)
(* is when the settings are read and when they are stored.                 *)
(***************************************************************************)
EXTENDS Integers, FiniteSets

CONSTANTS
    Messages,     \* incoming messages, each handled by a goroutine of its own
    Values,       \* Values[s]: what the administrator may set s to, or Unset
    Initially,    \* the settings at the start
    MaxEvents     \* bound: what happens from outside, all kinds together

\* wa_max_mensajes_dia, TelegramAsesorChatID and TelAsesor.
Settings == {"max", "chat", "phone"}

\* A row that is missing or does not parse.
Unset == -1
\* The zero of a field of the provider: nothing is remembered.
Nothing == 0

\* defaultMaxMsgs, no chat, defaultAsesorPhone.
DefaultMax == 20
DefaultPhone == 1
Default == [s \in Settings |-> CASE s = "max" -> DefaultMax
                                 [] s = "chat" -> Nothing
                                 [] s = "phone" -> DefaultPhone]

ASSUME SettingsAssumption ==
    /\ \A s \in Settings : Values[s] \subseteq Nat \cup {Unset}
    /\ \A s \in Settings : Initially[s] \in Values[s]
ASSUME BoundsAssumption == MaxEvents \in Nat

VARIABLES
    config,   \* config[s]: the row of system_config
    cache,    \* cache[s]: asesorPhone, asesorTelegramChatID and maxMensajes
    fresh,    \* cachedContext is there and younger than contextCacheTTL
    draft,    \* draft[m]: the settings buildContext has read for message m
    events    \* failing calls, edits, expiries, midnights and restarts so far

provider == <<config, cache, fresh, draft>>

ProviderInit ==
    /\ config = Initially
    /\ cache = [s \in Settings |-> Nothing]
    /\ fresh = FALSE
    /\ draft = [m \in Messages |-> Default]
    /\ events = 0

Event == events < MaxEvents /\ events' = events + 1

\* A call that may fail: ok says whether it succeeded.
Outcome(ok) == IF ok THEN UNCHANGED events ELSE Event

Configured(s) == IF config[s] = Unset THEN Default[s] ELSE config[s]
\* FindByKey, with its fallback.
Found(s, ok) == IF ok THEN Configured(s) ELSE Default[s]

\* GetMaxMensajesDia, GetAsesorTelegramChatID and GetAsesorPhone.
Value(s, ok) == IF cache[s] # Nothing THEN cache[s] ELSE Found(s, ok)
\* They remember what they return; a zero counts as not remembered.  The rows
\* whose reading failed are among those that were not in memory.
Consult(consulted, failed) ==
    /\ failed \subseteq {s \in consulted : cache[s] = Nothing}
    /\ cache' = [s \in Settings |->
                   IF s \in consulted THEN Value(s, s \notin failed) ELSE cache[s]]

-----------------------------------------------------------------------------
\* GetDynamicContext, when the text has expired: the rows are read, each by a
\* query of its own...
BuildContext(m, failed) ==
    /\ draft' = [draft EXCEPT ![m] = [s \in Settings |-> Found(s, s \notin failed)]]
    /\ Outcome(failed = {})
    /\ UNCHANGED <<config, cache, fresh>>

\* ...and stored later, whatever has been stored meanwhile.
InstallContext(m) ==
    /\ cache' = draft[m]
    /\ fresh' = TRUE
    /\ draft' = [draft EXCEPT ![m] = Default]
    /\ UNCHANGED config

\* The administrator changes a setting; nobody tells the provider.
EditSetting(s) ==
    /\ Event
    /\ \E v \in Values[s] \ {config[s]} : config' = [config EXCEPT ![s] = v]
    /\ UNCHANGED <<cache, fresh, draft>>

\* contextCacheTTL goes by.
ContextLapses ==
    /\ Event
    /\ fresh' = FALSE
    /\ UNCHANGED <<config, cache, draft>>

\* A restart forgets what was remembered.
ForgetAll ==
    /\ cache' = [s \in Settings |-> Nothing]
    /\ fresh' = FALSE
    /\ draft' = [m \in Messages |-> Default]
    /\ UNCHANGED config

ProviderEnv ==
    \/ \E s \in Settings : EditSetting(s)
    \/ ContextLapses
=============================================================================
