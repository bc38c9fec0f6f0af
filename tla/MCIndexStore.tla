---------------------------- MODULE MCIndexStore ----------------------------
(* Constants of the TLC run of IndexStore.                                 *)
EXTENDS IndexStore, TLC

CONSTANTS s1, s2

Two == {s1, s2}
Digests == <<5>> :> <<1, 1, 1>> @@ <<6, 6>> :> <<2, 2, 2>>
Names == s1 :> <<7, 7>> @@ s2 :> <<8, 8>>
Files == s1 :> 3 @@ s2 :> 5
Chunks == s1 :> 1 @@ s2 :> 2
=============================================================================
