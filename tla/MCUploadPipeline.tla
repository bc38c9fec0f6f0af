-------------------------- MODULE MCUploadPipeline --------------------------
(* Constants of the TLC runs of UploadPipeline.                            *)
EXTENDS UploadInvariant, TLC

CONSTANTS s1, s2, a, b, c, k1, k2, k3, k4

TwoSessions == {s1, s2}
OneSession == {s1}
ThreeChunks == {a, b, c}
ThreeIDs == {k1, k2, k3}
FourIDs == {k1, k2, k3, k4}

\* One chunk fills a container: 50 + 40 + 4 < 100, and a second never fits.
SmallContainer == 100
Size50 == [x \in Chunk |-> 50]

\* a and b fit in one container; with c and one of them it is one byte too long.
PairContainer == 273
OneLarge == [x \in Chunk |-> IF x = c THEN 140 ELSE 50]

\* In a small container it fills the queue while the index lock is held; with
\* PairContainer two chunks share a container and the third begins the next.
LongBatch == {<<a, b, c>>}

\* Any unused id: with the symmetry of the ids this costs nothing.
AnyID(S) == S
\* Liveness is checked without symmetry: one unused id stands for all of them.
OneID(S) == IF S = {} THEN {} ELSE {CHOOSE i \in S : TRUE}

Symm == Permutations(Session) \union Permutations(ContainerID)
=============================================================================
