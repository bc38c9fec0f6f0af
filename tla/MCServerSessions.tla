-------------------------- MODULE MCServerSessions --------------------------
(* Constants of the TLC runs of ServerSessions.                            *)
EXTENDS ServerSessions, TLC

CONSTANTS c1, c2, c3, i1, i2

ThreeConns == {c1, c2, c3}
TwoClients == {i1, i2}

Symm == Permutations(Conn) \union Permutations(Client)
=============================================================================
