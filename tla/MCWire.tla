------------------------------- MODULE MCWire -------------------------------
(***************************************************************************)
(* Small instance of Wire: a close, with a small answer, that may notify   *)
(* its own client, a view with a large one, and the timer that notifies.   *)
(***************************************************************************)
EXTENDS Wire, TLC

MCAnswerSize == "login" :> 1 @@ "logout" :> 0 @@ "close" :> 1 @@ "view" :> 2
MCRoom == "login" :> 1 @@ "logout" :> 1 @@ "close" :> 1 @@ "view" :> 2
=============================================================================
