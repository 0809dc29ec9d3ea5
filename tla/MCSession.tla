----------------------------- MODULE MCSession ------------------------------
(***************************************************************************)
(* Module Session for TLC: two sessions of two clients.                    *)
(***************************************************************************)
EXTENDS Session, TLC

CONSTANTS s1, s2, a, b

TwoClients == s1 :> a @@ s2 :> b
=============================================================================
