-------------------------- MODULE MCProxyDirectory --------------------------
(* One user with two programs, on two hosts; one of them starts twice.       *)
EXTENDS ProxyDirectory, TLC

CONSTANTS u1, p1, p2

MCOf == p1 :> u1 @@ p2 :> u1
MCMaxStarts == p1 :> 2 @@ p2 :> 1
=============================================================================
