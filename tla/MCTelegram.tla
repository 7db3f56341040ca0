----------------------------- MODULE MCTelegram -----------------------------
(***************************************************************************)
(* Small instances of Telegram: two texts of one chat, and a picture of    *)
(* another chat with the number of the first.                              *)
(***************************************************************************)
EXTENDS Telegram, TLC

CONSTANTS t1, t2, p1

Ana == 7
Beto == 8

ThreeMessages == {t1, t2, p1}
ChatOf == t1 :> Ana @@ t2 :> Ana @@ p1 :> Beto
IDOf == t1 :> 1 @@ t2 :> 2 @@ p1 :> 1
KindOf == t1 :> "text" @@ t2 :> "text" @@ p1 :> "image"
ChannelOf == [m \in ThreeMessages |-> "telegram"]

\* Beto may be the advisor; the daily maximum is one message, or three.
Ranges == [s \in Settings |-> CASE s = "max" -> {1, 3}
                                [] s = "chat" -> {Unset, Beto}
                                [] s = "phone" -> {DefaultPhone}]
AtStart == [s \in Settings |-> CASE s = "max" -> 1
                                 [] s = "chat" -> Beto
                                 [] s = "phone" -> DefaultPhone]
=============================================================================
