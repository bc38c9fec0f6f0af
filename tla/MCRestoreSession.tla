-------------------------- MODULE MCRestoreSession --------------------------
(* Constants of the TLC runs of RestoreSession.                            *)
EXTENDS RestoreSession, TLC

CONSTANTS a, b, c, k1, k2, k3

TwoChunks == {a, b}
ThreeChunks == {a, b, c}
TwoIDs == {k1, k2}
ThreeIDs == {k1, k2, k3}

Ask(n) == UNION {[1 .. m -> Chunk] : m \in 0 .. n}
AskOne == Ask(1)
AskThree == Ask(3)
\* Two or three different fingerprints.
AskDistinct == {q \in Ask(3) : Len(q) >= 2 /\ IsInjective(q)}

Symm == Permutations(Chunk) \union Permutations(ContainerID)
=============================================================================
