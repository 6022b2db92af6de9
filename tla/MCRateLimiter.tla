---------------------------- MODULE MCRateLimiter ----------------------------
(***************************************************************************)
(* Instances of RateLimiter for TLC: a strict route and a looser one, as   *)
(* the limits of /verification/token and /webhook are.                     *)
(***************************************************************************)
EXTENDS RateLimiter, TLC

CONSTANTS token, webhook

Limits == (token :> 1) @@ (webhook :> 2)
TokenOnly == token :> 1

AnyClient == Permutations(Client)
=============================================================================
