------------------------- MODULE QueueMemoryProofs --------------------------
(***************************************************************************)
(* How the history of QueueInvariant follows what the threads of the queue *)
(* do to memory.  A lemma takes a history h that agrees with the state and *)
(* gives the history h2 that agrees with the next one: after a pending     *)
(* store of the producer reached memory, after one of the consumer did,    *)
(* and after each of the three kinds of enqueue issued its stores.         *)
(* At the end, these are put together to what the buffers do by            *)
(* themselves, and to what published and released count.                   *)
(*                                                                         *)
(* Each of these is proved one part of the invariant at a time: the shape  *)
(* of the history, the stores that wait, and what memory and each thread's *)
(* view of it say of the tails, the fronts, the free blocks, the links,    *)
(* the elements and the shadow copies.                                     *)
(***************************************************************************)
EXTENDS QueueInvariant, FiniteSetTheorems, WellFoundedInduction, TLAPS

-----------------------------------------------------------------------------
(* Slots: arithmetic modulo the block size.                                *)

\* A number is a multiple of m and a remainder, which % returns.
LEMMA DivMod == ASSUME NEW x \in Int, NEW m \in Nat, m > 0
  PROVE \E q \in Int, r \in 0..(m-1) : x = m * q + r /\ x % m = r
<1>1. x % m \in 0..(m-1) /\ x = m * (x \div m) + (x % m) /\ x \div m \in Int
  OBVIOUS
<1> QED BY <1>1

\* Any way of writing x as a multiple of m and a remainder gives x % m.
LEMMA DivMod2 == ASSUME NEW x \in Int, NEW m \in Nat, m > 0, NEW q \in Int, NEW r \in 0..(m-1),
                        x = m * q + r
  PROVE x % m = r
OBVIOUS

\* nextIndex of a slot number, which the code computes by a mask: counting on after
\* wrapping round is counting on before it.
LEMMA ModStep == ASSUME NEW x \in Int, NEW m \in Nat, m > 0
  PROVE ((x % m) + 1) % m = (x + 1) % m
<1>1. PICK q \in Int, r \in 0..(m-1) : x = m * q + r /\ x % m = r
  BY DivMod
<1>2. CASE r + 1 = m
  <2>1. x + 1 = m * (q + 1) + 0
     BY <1>1, <1>2
  <2>a. PICK z \in Int : z = x + 1 OBVIOUS
  <2>b. z % m = 0 BY <2>1, <2>a, q + 1 \in Int, 0 \in 0..(m-1), DivMod2
  <2>2. (x + 1) % m = 0 BY <2>a, <2>b
  <2>3. r + 1 = m * 1 + 0 BY <1>2
  <2>4. (r + 1) % m = 0 BY <2>3, DivMod2
  <2> QED BY <2>2, <2>4, <1>1
<1>3. CASE r + 1 < m
  <2>1. x + 1 = m * q + (r + 1) /\ r + 1 \in 0..(m-1)
     BY <1>1, <1>3
  <2>a. PICK z \in Int : z = x + 1 OBVIOUS
  <2>c. PICK k \in 0..(m-1) : k = r + 1 BY <2>1
  <2>b. z % m = k BY <2>1, <2>a, <2>c, DivMod2
  <2>2. (x + 1) % m = r + 1 BY <2>a, <2>b, <2>c
  <2>3. r + 1 = m * 0 + (r + 1) OBVIOUS
  <2>4. (r + 1) % m = r + 1 BY <2>3, <2>1, DivMod2
  <2> QED BY <2>2, <2>4, <1>1
<1> QED BY <1>2, <1>3

\* The sign of m * q decides that of q.
LEMMA MulSign == ASSUME NEW m \in Nat, m > 0, NEW q \in Int
  PROVE /\ m * q < m => q <= 0
        /\ m * q > 0 - m => q >= 0
        /\ q >= 1 => m * q >= m
        /\ q <= -1 => m * q <= -m
OBVIOUS

\* Two numbers less than m apart that have the same remainder are equal.
LEMMA ModInj == ASSUME NEW x \in Int, NEW y \in Int, NEW m \in Nat, m > 0, x % m = y % m, x - y < m,
                       y - x < m
  PROVE x = y
<1>1. PICK q \in Int, r \in 0..(m-1) : x = m * q + r /\ x % m = r
  BY DivMod
<1>2. PICK q2 \in Int, r2 \in 0..(m-1) : y = m * q2 + r2 /\ y % m = r2
  BY DivMod
<1>3. x - y = m * (q - q2) /\ y - x = m * (q2 - q)
  BY <1>1, <1>2
<1>4. q - q2 <= 0 /\ q2 - q <= 0
  BY <1>3, MulSign
<1> QED BY <1>1, <1>2, <1>4

\* The difference of two slot numbers, taken round the block, is that of the elements
\* they stand for if they are less than m apart.
LEMMA ModDiff == ASSUME NEW x \in Int, NEW y \in Int, NEW m \in Nat, m > 0, x - y < m, y <= x
  PROVE ((x % m) - (y % m)) % m = x - y
<1>1. PICK q \in Int, r \in 0..(m-1) : x = m * q + r /\ x % m = r
  BY DivMod
<1>2. PICK q2 \in Int, r2 \in 0..(m-1) : y = m * q2 + r2 /\ y % m = r2
  BY DivMod
<1>3. r - r2 = m * (q2 - q) + (x - y)
  BY <1>1, <1>2
<1>4. PICK z \in Int : z = r - r2 OBVIOUS
<1>5. PICK k \in 0..(m-1) : k = x - y OBVIOUS
<1>6. PICK d \in Int : d = q2 - q OBVIOUS
<1>7. z % m = k BY <1>3, <1>4, <1>5, <1>6, DivMod2
<1> QED BY <1>1, <1>2, <1>4, <1>5, <1>7

\* A slot number is one of the block's slots.
LEMMA SlotType == ASSUME NEW x \in Int, NEW base \in Int, NEW m \in Nat, m > 0
  PROVE Slot(x, base, m) \in 0..(m - 1)
BY DEF Slot

\* nextBlockTail: the slot after that of element x is that of element x + 1.
LEMMA SlotNext == ASSUME NEW x \in Int, NEW base \in Int, NEW m \in Nat, m > 0
  PROVE (Slot(x, base, m) + 1) % m = Slot(x + 1, base, m)
<1>1. PICK z \in Int : z = x - base OBVIOUS
<1>2. ((z % m) + 1) % m = (z + 1) % m BY ModStep
<1>3. x + 1 - base = z + 1 BY <1>1
<1> QED BY <1>1, <1>2, <1>3 DEF Slot

\* Elements less than a block apart have slots of their own.
LEMMA SlotInj == ASSUME NEW x \in Int, NEW y \in Int, NEW base \in Int, NEW m \in Nat, m > 0,
    Slot(x, base, m) = Slot(y, base, m), x - y < m, y - x < m
  PROVE x = y
<1>1. PICK z \in Int : z = x - base OBVIOUS
<1>2. PICK w \in Int : w = y - base OBVIOUS
<1>3. z % m = w % m BY <1>1, <1>2 DEF Slot
<1>4. z = w BY <1>1, <1>2, <1>3, ModInj
<1> QED BY <1>1, <1>2, <1>4

\* What size_approx computes from two slot numbers of a block is how far the elements
\* are apart.
LEMMA SlotDiff == ASSUME NEW x \in Int, NEW y \in Int, NEW base \in Int, NEW m \in Nat, m > 0,
                         x - y < m, y <= x
  PROVE (Slot(x, base, m) - Slot(y, base, m)) % m = x - y
<1>1. PICK z \in Int : z = x - base OBVIOUS
<1>2. PICK w \in Int : w = y - base OBVIOUS
<1>a. z - w < m /\ w <= z BY <1>1, <1>2
<1>3. ((z % m) - (w % m)) % m = z - w BY <1>a, ModDiff
<1> QED BY <1>1, <1>2, <1>3 DEF Slot

\* An element can be numbered so that it is in any given slot: what the base of a visit
\* is chosen by when the producer enters a free block wherever its tail stands.
LEMMA SlotBase == ASSUME NEW x \in Int, NEW m \in Nat, m > 0, NEW i \in 0..(m - 1)
  PROVE Slot(x, x - i, m) = i
<1>1. x - (x - i) = i OBVIOUS
<1>2. i = m * 0 + i OBVIOUS
<1>3. i % m = i BY <1>2, DivMod2
<1> QED BY <1>1, <1>3 DEF Slot

-----------------------------------------------------------------------------
(* Numbers, sequences and what a thread reads through its store buffer.    *)

\* A set of numbers that is not empty has a least one.
LEMMA LeastNat ==
  ASSUME NEW T \in SUBSET Nat, T # {}
  PROVE  \E x \in T : \A y \in T : x <= y
<1>1. IsWellFoundedOn(OpToRel(<, Nat), Nat)
  BY NatLessThanWellFounded
<1>2. \E x \in T : \A y \in T : ~ (<<y, x>> \in OpToRel(<, Nat))
  BY <1>1, WFMin, Zenon
<1>3. PICK x \in T : \A y \in T : ~ (<<y, x>> \in OpToRel(<, Nat))
  BY <1>2
<1>4. ASSUME NEW y \in T PROVE x <= y
  <2>1. ~ (<<y, x>> \in OpToRel(<, Nat)) BY <1>3
  <2>2. x \in Nat /\ y \in Nat OBVIOUS
  <2>3. ~ (y < x) BY <2>1, <2>2, Zenon DEF OpToRel
  <2> QED BY <2>2, <2>3
<1> QED BY <1>4

\* One that is bounded has a greatest one.
LEMMA GreatestNat ==
  ASSUME NEW T \in SUBSET Nat, T # {}, NEW top \in Nat, \A y \in T : y <= top
  PROVE  \E x \in T : \A y \in T : y <= x
<1> DEFINE U == {u \in Nat : \A y \in T : y <= u}
<1>1. U \in SUBSET Nat /\ U # {}
  OBVIOUS
<1>2. PICK u \in U : \A w \in U : u <= w
  BY <1>1, LeastNat
<1>3. CASE u \in T
  BY <1>3
<1>4. CASE u \notin T
  <2>1. u # 0
    <3>1. PICK y \in T : TRUE OBVIOUS
    <3>2. y <= u /\ y # u /\ y \in Nat /\ u \in Nat BY <1>4, <3>1
    <3> QED BY <3>2
  <2>2. u - 1 \in Nat /\ \A y \in T : y <= u - 1
    BY <2>1, <1>4
  <2>3. u - 1 \in U
    BY <2>2
  <2> QED BY <1>2, <2>3
<1> QED BY <1>3, <1>4

\* Max returns the element that no other exceeds.
LEMMA MaxIs ==
  ASSUME NEW T \in SUBSET Int, NEW x \in T, \A y \in T : y <= x
  PROVE  Max(T) = x
<1>1. \A z \in T : (\A y \in T : z >= y) => z = x
  OBVIOUS
<1> QED BY <1>1 DEF Max

\* Min returns the element that exceeds no other.
LEMMA MinIs ==
  ASSUME NEW T \in SUBSET Int, NEW x \in T, \A y \in T : x <= y
  PROVE  Min(T) = x
<1>1. \A z \in T : (\A y \in T : z <= y) => z = x
  OBVIOUS
<1> QED BY <1>1 DEF Min

\* Max of a bounded set of numbers is in it and not exceeded.
LEMMA MaxExists ==
  ASSUME NEW T \in SUBSET Nat, T # {}, NEW top \in Nat, \A y \in T : y <= top
  PROVE  Max(T) \in T /\ \A y \in T : y <= Max(T)
<1>1. PICK x \in T : \A y \in T : y <= x
  BY GreatestNat
<1>2. Max(T) = x
  BY <1>1, MaxIs
<1> QED BY <1>1, <1>2

\* Store i of buf is the last one to loc.
IsLast(buf, i, loc) ==
  i \in 1..Len(buf) /\ buf[i].loc = loc /\ \A j \in 1..Len(buf) : j > i => buf[j].loc # loc

\* Store forwarding: a load finds memory if no store to the place is pending,
LEMMA LoadNone ==
  ASSUME NEW buf \in Seq(StoreSet), NEW m, NEW loc, \A j \in 1..Len(buf) : buf[j].loc # loc
  PROVE  Load(buf, m, loc) = m[loc]
<1>1. DOMAIN buf = 1..Len(buf) OBVIOUS
<1>2. {j \in DOMAIN buf : buf[j].loc = loc} = {} BY <1>1
<1> QED BY <1>2 DEF Load

\* the last pending store to the place if one is,
LEMMA LoadLast ==
  ASSUME NEW buf \in Seq(StoreSet), NEW m, NEW loc, NEW i, IsLast(buf, i, loc)
  PROVE  Load(buf, m, loc) = buf[i].val
<1> DEFINE mine == {j \in DOMAIN buf : buf[j].loc = loc}
<1>1. DOMAIN buf = 1..Len(buf) /\ Len(buf) \in Nat OBVIOUS
<1>2. i \in mine /\ mine \in SUBSET Int /\ \A j \in mine : j <= i BY <1>1 DEF IsLast
<1>3. Max(mine) = i BY <1>2, MaxIs
<1>4. mine # {} BY <1>2
<1> HIDE DEF mine
<1>5. Load(buf, m, loc) = IF mine = {} THEN m[loc] ELSE buf[Max(mine)].val
  BY DEF Load, mine
<1> QED BY <1>3, <1>4, <1>5

\* and one of the two is the case.
LEMMA LoadCases ==
  ASSUME NEW buf \in Seq(StoreSet), NEW loc
  PROVE  \/ \A j \in 1..Len(buf) : buf[j].loc # loc
         \/ \E i \in 1..Len(buf) : IsLast(buf, i, loc)
<1> DEFINE mine == {j \in 1..Len(buf) : buf[j].loc = loc}
<1>1. Len(buf) \in Nat OBVIOUS
<1>2. CASE mine = {} BY <1>2
<1>3. CASE mine # {}
  <2>1. mine \in SUBSET Nat /\ \A y \in mine : y <= Len(buf) BY <1>1
  <2>2. PICK i \in mine : \A y \in mine : y <= i BY <1>1, <1>3, <2>1, GreatestNat
  <2> QED BY <1>1, <2>2 DEF IsLast
<1> QED BY <1>2, <1>3

\* The elements of two sequences put together.
LEMMA ConcatIs ==
  ASSUME NEW u \in Seq(StoreSet), NEW w \in Seq(StoreSet)
  PROVE  /\ u \o w \in Seq(StoreSet) /\ Len(u \o w) = Len(u) + Len(w)
         /\ \A j \in 1..Len(u) : (u \o w)[j] = u[j]
         /\ \A j \in 1..Len(w) : (u \o w)[Len(u) + j] = w[j]
OBVIOUS

\* The elements of a sequence without one of them.
LEMMA RemoveAtIs ==
  ASSUME NEW s \in Seq(StoreSet), NEW i \in 1..Len(s)
  PROVE  /\ RemoveAt(s, i) \in Seq(StoreSet) /\ Len(RemoveAt(s, i)) = Len(s) - 1
         /\ \A j \in 1..(Len(s) - 1) : RemoveAt(s, i)[j] = IF j < i THEN s[j] ELSE s[j + 1]
<1>1. Len(s) \in Nat OBVIOUS
<1>2. SubSeq(s, 1, i - 1) \in Seq(StoreSet) /\ Len(SubSeq(s, 1, i - 1)) = i - 1
      /\ \A j \in 1..(i - 1) : SubSeq(s, 1, i - 1)[j] = s[j]
  BY <1>1
<1>3. SubSeq(s, i + 1, Len(s)) \in Seq(StoreSet) /\ Len(SubSeq(s, i + 1, Len(s))) = Len(s) - i
      /\ \A j \in 1..(Len(s) - i) : SubSeq(s, i + 1, Len(s))[j] = s[i + j]
  BY <1>1
<1>4. PICK u, w : u = SubSeq(s, 1, i - 1) /\ w = SubSeq(s, i + 1, Len(s))
  OBVIOUS
<1>5. RemoveAt(s, i) = u \o w BY <1>4 DEF RemoveAt
<1>6. /\ u \in Seq(StoreSet) /\ Len(u) = i - 1 /\ \A j \in 1..(i - 1) : u[j] = s[j]
      /\ w \in Seq(StoreSet) /\ Len(w) = Len(s) - i /\ \A j \in 1..(Len(s) - i) : w[j] = s[i + j]
  BY <1>2, <1>3, <1>4
<1>7. PICK t : t = u \o w OBVIOUS
<1>8. /\ t \in Seq(StoreSet) /\ Len(t) = Len(u) + Len(w)
      /\ \A j \in 1..Len(u) : t[j] = u[j]
      /\ \A j \in 1..Len(w) : t[Len(u) + j] = w[j]
  BY <1>6, <1>7, ConcatIs
<1>9. ASSUME NEW j \in 1..(Len(s) - 1)
      PROVE t[j] = IF j < i THEN s[j] ELSE s[j + 1]
  <2>1. CASE j < i BY <2>1, <1>1, <1>6, <1>8
  <2>2. CASE j >= i
    <3>2. j - (i - 1) \in 1..(Len(s) - i) /\ (i - 1) + (j - (i - 1)) = j /\ i + (j - (i - 1)) = j + 1
      BY <2>2, <1>1
    <3>a. PICK k \in 1..(Len(s) - i) : k = j - (i - 1) BY <3>2
    <3>b. t[(i - 1) + k] = w[k] BY <1>6, <1>8
    <3>3. t[j] = w[j - (i - 1)] BY <3>2, <3>a, <3>b
    <3>4. w[j - (i - 1)] = s[i + (j - (i - 1))] BY <3>2, <1>6
    <3> QED BY <2>2, <3>2, <3>3, <3>4, <1>1
  <2> QED BY <2>1, <2>2, <1>1
<1>10. Len(t) = Len(s) - 1 BY <1>1, <1>6, <1>8
<1> QED BY <1>5, <1>7, <1>8, <1>9, <1>10

\* The elements of a sequence without the first.
LEMMA TailIs ==
  ASSUME NEW s \in Seq(StoreSet), s # << >>
  PROVE  /\ Tail(s) \in Seq(StoreSet) /\ Len(Tail(s)) = Len(s) - 1 /\ Len(s) >= 1 /\ Head(s) = s[1]
         /\ \A j \in 1..(Len(s) - 1) : Tail(s)[j] = s[j + 1]
OBVIOUS

\* A fence leaves the buffer when it is the oldest store, and nothing else does.
LEMMA TrimIs ==
  ASSUME NEW buf \in Seq(StoreSet)
  PROVE  /\ Trim(buf) \in Seq(StoreSet)
         /\ \/ Trim(buf) = buf /\ (buf # << >> => buf[1] # Fence)
            \/ /\ Len(buf) >= 1 /\ buf[1] = Fence /\ Len(Trim(buf)) = Len(buf) - 1
               /\ \A j \in 1..(Len(buf) - 1) : Trim(buf)[j] = buf[j + 1]
<1>1. CASE buf # << >> /\ buf[1] = Fence
  <2>1. Head(buf) = buf[1] BY <1>1, TailIs
  <2>2. Trim(buf) = Tail(buf) BY <1>1, <2>1 DEF Trim
  <2> QED BY <1>1, <2>2, TailIs
<1>2. CASE ~ (buf # << >> /\ buf[1] = Fence)
  <2>1. Trim(buf) = buf
    <3>1. CASE buf = << >> BY <3>1 DEF Trim
    <3>2. CASE buf # << >> BY <3>2, <1>2, TailIs DEF Trim
    <3> QED BY <3>1, <3>2
  <2> QED BY <1>2, <2>1
<1> QED BY <1>1, <1>2

\* A fence is no store to a location of the queue.
LEMMA LoadTrim ==
  ASSUME NEW buf \in Seq(StoreSet), NEW m, NEW loc, loc # Fence.loc
  PROVE  Load(Trim(buf), m, loc) = Load(buf, m, loc)
<1>1. PICK new : new = Trim(buf) OBVIOUS
<1>0. Len(buf) \in Nat OBVIOUS
<1>2. CASE new = buf BY <1>1, <1>2
<1>3. CASE new # buf
  <2>1. /\ new \in Seq(StoreSet) /\ Len(buf) >= 1 /\ buf[1] = Fence /\ Len(new) = Len(buf) - 1
        /\ \A j \in 1..(Len(buf) - 1) : new[j] = buf[j + 1]
    BY <1>1, <1>3, TrimIs
  <2>2. CASE \A j \in 1..Len(buf) : buf[j].loc # loc
    <3>1. \A j \in 1..Len(new) : new[j].loc # loc BY <1>0, <2>1, <2>2
    <3>2. Load(new, m, loc) = m[loc] BY <2>1, <3>1, LoadNone
    <3>3. Load(buf, m, loc) = m[loc] BY <2>2, LoadNone
    <3> QED BY <1>1, <3>2, <3>3
  <2>3. ASSUME NEW i \in 1..Len(buf), IsLast(buf, i, loc)
        PROVE Load(new, m, loc) = Load(buf, m, loc)
    <3>1. Load(buf, m, loc) = buf[i].val BY <2>3, LoadLast
    <3>0. buf[i].loc = loc /\ \A j \in 1..Len(buf) : j > i => buf[j].loc # loc BY <2>3 DEF IsLast
    <3>2. i # 1 BY <2>1, <3>0
    <3>3. PICK k : k = i - 1 OBVIOUS
    <3>4. k \in 1..Len(new) /\ new[k] = buf[i]
      <4>1. k \in 1..(Len(buf) - 1) /\ k + 1 = i BY <1>0, <3>2, <3>3
      <4> QED BY <2>1, <4>1
    <3>5. \A j \in 1..Len(new) : j > k => new[j].loc # loc
      <4> SUFFICES ASSUME NEW j \in 1..Len(new), j > k PROVE new[j].loc # loc OBVIOUS
      <4>1. j + 1 \in 1..Len(buf) /\ j + 1 > i /\ j \in 1..(Len(buf) - 1) BY <1>0, <2>1, <3>3
      <4>2. new[j] = buf[j + 1] BY <2>1, <4>1
      <4> QED BY <3>0, <4>1, <4>2
    <3>7. IsLast(new, k, loc) BY <3>0, <3>4, <3>5 DEF IsLast
    <3>6. Load(new, m, loc) = new[k].val BY <2>1, <3>7, LoadLast
    <3> QED BY <3>1, <3>4, <3>6
  <2> QED BY <1>1, <2>2, <2>3, LoadCases
<1> QED BY <1>2, <1>3

\* A store that may leave its buffer is the oldest one to its location.
LEMMA LeavingIs ==
  ASSUME NEW buf \in Seq(StoreSet), NEW i \in Leaving(buf)
  PROVE  /\ i \in 1..Len(buf) /\ buf[i] # Fence
         /\ \A j \in 1..Len(buf) : j < i => /\ buf[j] # Fence
                                            /\ Plain(buf[j].loc) # Plain(buf[i].loc)
                                            /\ buf[j].loc # buf[i].loc
<1>1. DOMAIN buf = 1..Len(buf) /\ Len(buf) \in Nat OBVIOUS
<1>2. /\ i \in 1..Len(buf) /\ \A j \in 1..i : buf[j] # Fence
      /\ \A j \in 1..(i - 1) : Plain(buf[j].loc) # Plain(buf[i].loc)
  BY <1>1 DEF Leaving
<1>3. ASSUME NEW j \in 1..Len(buf), j < i
      PROVE  buf[j] # Fence /\ Plain(buf[j].loc) # Plain(buf[i].loc) /\ buf[j].loc # buf[i].loc
  <2>1. j \in 1..i /\ j \in 1..(i - 1) BY <1>1, <1>2, <1>3
  <2>2. buf[j] # Fence /\ Plain(buf[j].loc) # Plain(buf[i].loc) BY <1>2, <2>1
  <2>3. buf[j].loc # buf[i].loc BY <2>2
  <2> QED BY <2>2, <2>3
<1> QED BY <1>1, <1>2, <1>3

\* The thread itself sees its stores at once: that one of them reaches memory
\* changes nothing of what it reads.
LEMMA LoadLeft ==
  ASSUME NEW buf \in Seq(StoreSet), NEW i \in Leaving(buf), NEW m, NEW loc \in DOMAIN m,
         loc # Fence.loc
  PROVE  Load(Left(buf, i), [m EXCEPT ![buf[i].loc] = buf[i].val], loc) = Load(buf, m, loc)
<1>0. Len(buf) \in Nat OBVIOUS
<1>1. /\ i \in 1..Len(buf)
      /\ \A j \in 1..Len(buf) : j < i => buf[j].loc # buf[i].loc
  BY LeavingIs
<1>2. PICK new : new = RemoveAt(buf, i) OBVIOUS
<1>3. /\ new \in Seq(StoreSet) /\ Len(new) = Len(buf) - 1
      /\ \A j \in 1..(Len(buf) - 1) : new[j] = IF j < i THEN buf[j] ELSE buf[j + 1]
  BY <1>1, <1>2, RemoveAtIs
<1>4. PICK m2 : m2 = [m EXCEPT ![buf[i].loc] = buf[i].val] OBVIOUS
<1>5. m2[loc] = IF buf[i].loc = loc THEN buf[i].val ELSE m[loc]
  BY <1>4
<1>6. Load(new, m2, loc) = Load(buf, m, loc)
  <2>1. CASE \A j \in 1..Len(buf) : buf[j].loc # loc
    <3>1. \A j \in 1..Len(new) : new[j].loc # loc BY <1>0, <1>1, <1>3, <2>1
    <3>2. Load(new, m2, loc) = m2[loc] BY <1>3, <3>1, LoadNone
    <3>3. Load(buf, m, loc) = m[loc] BY <2>1, LoadNone
    <3> QED BY <1>1, <1>5, <2>1, <3>2, <3>3
  <2>2. ASSUME NEW k \in 1..Len(buf), IsLast(buf, k, loc)
        PROVE Load(new, m2, loc) = Load(buf, m, loc)
    <3>1. Load(buf, m, loc) = buf[k].val BY <2>2, LoadLast
    <3>0. buf[k].loc = loc /\ \A j \in 1..Len(buf) : j > k => buf[j].loc # loc BY <2>2 DEF IsLast
    <3>2. CASE k = i
      <4>1. ASSUME NEW j \in 1..Len(new) PROVE new[j].loc # loc
        <5>1. CASE j < i BY <1>0, <1>1, <1>3, <3>0, <3>2, <5>1
        <5>2. CASE j >= i BY <1>0, <1>1, <1>3, <3>0, <3>2, <5>2
        <5> QED BY <1>0, <1>1, <5>1, <5>2
      <4>2. Load(new, m2, loc) = m2[loc] BY <1>3, <4>1, LoadNone
      <4> QED BY <1>5, <3>0, <3>1, <3>2, <4>2
    <3>3. CASE k # i
      <4>1. PICK l : l = IF k < i THEN k ELSE k - 1 OBVIOUS
      <4>2. l \in 1..Len(new) /\ new[l] = buf[k]
        <5>1. l \in 1..(Len(buf) - 1) BY <1>0, <1>1, <2>2, <3>3, <4>1
        <5>2. new[l] = IF l < i THEN buf[l] ELSE buf[l + 1] BY <1>3, <5>1
        <5> QED BY <1>0, <1>1, <1>3, <3>3, <4>1, <5>1, <5>2
      <4>3. ASSUME NEW j \in 1..Len(new), j > l PROVE new[j].loc # loc
        <5>1. j \in 1..(Len(buf) - 1) BY <1>3
        <5>2. new[j] = IF j < i THEN buf[j] ELSE buf[j + 1] BY <1>3, <5>1
        <5>3. CASE j < i BY <1>0, <1>1, <3>0, <3>3, <4>1, <4>3, <5>1, <5>2, <5>3
        <5>4. CASE j >= i BY <1>0, <1>1, <3>0, <3>3, <4>1, <4>3, <5>1, <5>2, <5>4
        <5> QED BY <1>0, <1>1, <5>1, <5>3, <5>4
      <4>5. IsLast(new, l, loc) BY <3>0, <4>2, <4>3 DEF IsLast
      <4>4. Load(new, m2, loc) = new[l].val BY <1>3, <4>5, LoadLast
      <4> QED BY <3>1, <4>2, <4>4
    <3> QED BY <3>2, <3>3
  <2> QED BY <2>1, <2>2, LoadCases
<1>7. Load(Trim(new), m2, loc) = Load(new, m2, loc)
  BY <1>3, LoadTrim
<1> QED BY <1>2, <1>4, <1>6, <1>7 DEF Left

-----------------------------------------------------------------------------
(* A buffer and the tagged stores of the history.                          *)

\* Tags of the stores of S, in the order of the buffer.
TagsOf(tags, buf, S) ==
    /\ tags \in [1..Len(buf) -> DOMAIN S]
    /\ \A i, j \in 1..Len(buf) : i < j => tags[i] < tags[j]
    /\ \A t \in DOMAIN S : \E i \in 1..Len(buf) : tags[i] = t
    /\ \A i \in 1..Len(buf) : buf[i] = S[tags[i]]

\* A buffer holds S when its stores are those of S, numbered in order.
LEMMA HoldsTags ==
  ASSUME NEW buf, NEW S
  PROVE  Holds(buf, S) <=> \E tags : TagsOf(tags, buf, S)
<1>1. ASSUME Holds(buf, S) PROVE \E tags : TagsOf(tags, buf, S)
  <2>1. PICK tags \in [1..Len(buf) -> DOMAIN S] :
          /\ \A i, j \in 1..Len(buf) : i < j => tags[i] < tags[j]
          /\ \A t \in DOMAIN S : \E i \in 1..Len(buf) : tags[i] = t
          /\ \A i \in 1..Len(buf) : buf[i] = S[tags[i]]
    BY <1>1 DEF Holds
  <2>2. TagsOf(tags, buf, S) BY <2>1 DEF TagsOf
  <2> QED BY <2>2
<1>2. ASSUME NEW tags, TagsOf(tags, buf, S) PROVE Holds(buf, S)
  BY <1>2 DEF Holds, TagsOf
<1> QED BY <1>1, <1>2

\* S2 is S without the stores of D.
Without(S, D, S2) ==
    /\ DOMAIN S2 = DOMAIN S \ D
    /\ \A u \in DOMAIN S2 : S2[u] = S[u]

\* A store that leaves the buffer leaves the history with its tag.
LEMMA HoldsRemove ==
  ASSUME NEW buf \in Seq(StoreSet), NEW S, NEW tags, TagsOf(tags, buf, S), NEW i \in 1..Len(buf),
         DOMAIN S \subseteq Nat, NEW S2, Without(S, {tags[i]}, S2),
         NEW new \in Seq(StoreSet), Len(new) = Len(buf) - 1,
         \A j \in 1..(Len(buf) - 1) : new[j] = IF j < i THEN buf[j] ELSE buf[j + 1]
  PROVE  Holds(new, S2)
<1>1. PICK n \in Nat : n = Len(buf) OBVIOUS
<1>2. /\ tags \in [1..n -> DOMAIN S]
      /\ \A j, k \in 1..n : j < k => tags[j] < tags[k]
      /\ \A u \in DOMAIN S : \E j \in 1..n : tags[j] = u
      /\ \A j \in 1..n : buf[j] = S[tags[j]]
  BY <1>1 DEF TagsOf
<1>3. PICK tags2 : tags2 = [j \in 1..(n - 1) |-> IF j < i THEN tags[j] ELSE tags[j + 1]] OBVIOUS
<1>4. \A j, k \in 1..n : tags[j] = tags[k] => j = k
  <2> SUFFICES ASSUME NEW j \in 1..n, NEW k \in 1..n, tags[j] = tags[k] PROVE j = k OBVIOUS
  <2>1. tags[j] \in Nat /\ tags[k] \in Nat BY <1>2
  <2>2. ~ (j < k) /\ ~ (k < j) BY <1>2, <2>1
  <2> QED BY <2>2
<1>5. ASSUME NEW j \in 1..(n - 1)
      PROVE  \E k \in 1..n : k # i /\ tags2[j] = tags[k] /\ new[j] = buf[k] /\ k = IF j < i THEN j ELSE j + 1
  <2>1. PICK k : k = IF j < i THEN j ELSE j + 1 OBVIOUS
  <2>2. k \in 1..n /\ k # i BY <1>1, <2>1
  <2>3. tags2[j] = tags[k] BY <1>3, <2>1
  <2>4. new[j] = buf[k] BY <1>1, <2>1
  <2> QED BY <2>1, <2>2, <2>3, <2>4
<1>6. DOMAIN S2 = DOMAIN S \ {tags[i]} /\ \A u \in DOMAIN S2 : S2[u] = S[u] BY DEF Without
<1>7. ASSUME NEW j \in 1..(n - 1) PROVE tags2[j] \in DOMAIN S2 /\ new[j] = S2[tags2[j]]
  <2>1. PICK k \in 1..n : k # i /\ tags2[j] = tags[k] /\ new[j] = buf[k] BY <1>5
  <2>2. tags[k] \in DOMAIN S /\ tags[k] # tags[i] BY <1>1, <1>2, <1>4, <2>1
  <2>3. tags[k] \in DOMAIN S2 BY <1>6, <2>2
  <2>4. S2[tags[k]] = S[tags[k]] BY <1>6, <2>3
  <2>5. buf[k] = S[tags[k]] BY <1>2
  <2> QED BY <2>1, <2>3, <2>4, <2>5
<1>8. tags2 \in [1..(n - 1) -> DOMAIN S2] BY <1>3, <1>7
<1>9. ASSUME NEW j \in 1..(n - 1), NEW k \in 1..(n - 1), j < k PROVE tags2[j] < tags2[k]
  <2>1. PICK j2 \in 1..n : tags2[j] = tags[j2] /\ j2 = IF j < i THEN j ELSE j + 1 BY <1>5
  <2>2. PICK k2 \in 1..n : tags2[k] = tags[k2] /\ k2 = IF k < i THEN k ELSE k + 1 BY <1>5
  <2>3. j2 < k2 BY <1>9, <2>1, <2>2
  <2> QED BY <1>2, <2>1, <2>2, <2>3
<1>10. ASSUME NEW u \in DOMAIN S2 PROVE \E j \in 1..(n - 1) : tags2[j] = u
  <2>1. u \in DOMAIN S /\ u # tags[i] BY <1>6
  <2>2. PICK k \in 1..n : tags[k] = u BY <1>2, <2>1
  <2>3. k # i BY <2>1, <2>2
  <2>4. CASE k < i
    <3>1. k \in 1..(n - 1) BY <1>1, <2>4
    <3>2. tags2[k] = tags[k] BY <1>3, <2>4, <3>1
    <3> QED BY <2>2, <3>1, <3>2
  <2>5. CASE k > i
    <3>1. PICK l \in 1..(n - 1) : l = k - 1 BY <1>1, <2>5
    <3>2. ~ (l < i) /\ l + 1 = k BY <1>1, <2>5, <3>1
    <3>3. tags2[l] = tags[k] BY <1>3, <3>2
    <3> QED BY <2>2, <3>3
  <2> QED BY <1>1, <2>3, <2>4, <2>5
<1>11. Len(new) = n - 1 BY <1>1
<1>12. TagsOf(tags2, new, S2) BY <1>7, <1>8, <1>9, <1>10, <1>11 DEF TagsOf
<1> QED BY <1>12, HoldsTags

\* Trimming takes away a fence before which nothing waits.
Trimmed(S, S2) ==
    \/ S2 = S
    \/ \E f \in DOMAIN S : S[f] = Fence /\ (\A u \in DOMAIN S : f <= u) /\ Without(S, {f}, S2)

\* A fence that leaves the buffer leaves the history as well.
LEMMA HoldsTrim ==
  ASSUME NEW buf \in Seq(StoreSet), NEW S, Holds(buf, S), DOMAIN S \subseteq Nat
  PROVE  \E S2 : Trimmed(S, S2) /\ Holds(Trim(buf), S2)
<1>1. CASE Trim(buf) = buf BY <1>1 DEF Trimmed
<1>2. CASE Trim(buf) # buf
  <2>1. /\ Trim(buf) \in Seq(StoreSet)
        /\ Len(buf) >= 1 /\ buf[1] = Fence /\ Len(Trim(buf)) = Len(buf) - 1
        /\ \A j \in 1..(Len(buf) - 1) : Trim(buf)[j] = buf[j + 1]
    BY <1>2, TrimIs
  <2>2. PICK tags : TagsOf(tags, buf, S) BY HoldsTags
  <2>3. PICK n \in Nat : n = Len(buf) OBVIOUS
  <2>4. 1 \in 1..n BY <2>1, <2>3
  <2>5. PICK f : f = tags[1] OBVIOUS
  <2>6. f \in DOMAIN S /\ S[f] = Fence BY <2>1, <2>2, <2>3, <2>4, <2>5 DEF TagsOf
  <2>7. ASSUME NEW u \in DOMAIN S PROVE f <= u
    <3>1. PICK i \in 1..n : tags[i] = u BY <2>2, <2>3 DEF TagsOf
    <3>2. 1 < i => tags[1] < tags[i] BY <2>2, <2>3, <2>4 DEF TagsOf
    <3> QED BY <2>3, <2>5, <2>6, <3>1, <3>2
  <2>8. PICK S2 : S2 = [u \in DOMAIN S \ {f} |-> S[u]] OBVIOUS
  <2>9. Without(S, {tags[1]}, S2) BY <2>5, <2>8 DEF Without
  <2>10. PICK new : new = Trim(buf) OBVIOUS
  <2>11. \A j \in 1..(Len(buf) - 1) : new[j] = IF j < 1 THEN buf[j] ELSE buf[j + 1]
    BY <2>1, <2>3, <2>10
  <2>12. Holds(new, S2)
    BY <2>1, <2>2, <2>3, <2>4, <2>9, <2>10, <2>11, HoldsRemove
  <2>13. Trimmed(S, S2) BY <2>5, <2>6, <2>7, <2>9 DEF Trimmed
  <2> QED BY <2>10, <2>12, <2>13
<1> QED BY <1>1, <1>2

\* The store with tag t may leave.
MayLeave(S, t) ==
    /\ t \in DOMAIN S /\ S[t] # Fence
    /\ \A u \in DOMAIN S : u < t => S[u] # Fence /\ Plain(S[u].loc) # Plain(S[t].loc)
\* S2 is S after it left.
After(S, t, S2) ==
    /\ DOMAIN S2 \subseteq DOMAIN S \ {t} /\ \A u \in DOMAIN S2 : S2[u] = S[u]
    /\ \A u \in DOMAIN S : u = t \/ u \in DOMAIN S2
                           \/ (S[u] = Fence /\ \A w \in DOMAIN S : w = t \/ u <= w)

\* Drain in terms of the history: the store that leaves is one that nothing waiting
\* before it holds back, and what stays is the history without it.
LEMMA HoldsLeft ==
  ASSUME NEW buf \in Seq(StoreSet), NEW S, Holds(buf, S), DOMAIN S \subseteq Nat,
         NEW i \in Leaving(buf)
  PROVE  \E t, S2 : MayLeave(S, t) /\ buf[i] = S[t] /\ After(S, t, S2) /\ Holds(Left(buf, i), S2)
<1>1. PICK tags : TagsOf(tags, buf, S) BY HoldsTags
<1>2. PICK n \in Nat : n = Len(buf) OBVIOUS
<1>3. /\ tags \in [1..n -> DOMAIN S]
      /\ \A j, k \in 1..n : j < k => tags[j] < tags[k]
      /\ \A u \in DOMAIN S : \E j \in 1..n : tags[j] = u
      /\ \A j \in 1..n : buf[j] = S[tags[j]]
  BY <1>1, <1>2 DEF TagsOf
<1>4. /\ i \in 1..n /\ buf[i] # Fence
      /\ \A j \in 1..n : j < i => buf[j] # Fence /\ Plain(buf[j].loc) # Plain(buf[i].loc)
  BY <1>2, LeavingIs
<1>5. PICK t : t = tags[i] OBVIOUS
<1>6. t \in DOMAIN S /\ S[t] = buf[i] BY <1>3, <1>4, <1>5
<1>7. ASSUME NEW u \in DOMAIN S, u < t
      PROVE  S[u] # Fence /\ Plain(S[u].loc) # Plain(S[t].loc)
  <2>1. PICK j \in 1..n : tags[j] = u BY <1>3
  <2>2. j < i
    <3>1. tags[j] \in Nat /\ tags[i] \in Nat BY <1>3, <1>4
    <3>2. i < j => tags[i] < tags[j] BY <1>3, <1>4
    <3> QED BY <1>4, <1>5, <1>7, <2>1, <3>1, <3>2
  <2>3. S[u] = buf[j] BY <1>3, <2>1
  <2> QED BY <1>4, <1>6, <2>2, <2>3
<1>8. MayLeave(S, t) BY <1>4, <1>6, <1>7 DEF MayLeave
<1>9. PICK S1 : S1 = [u \in DOMAIN S \ {t} |-> S[u]] OBVIOUS
<1>10. DOMAIN S1 = DOMAIN S \ {t} /\ \A u \in DOMAIN S1 : S1[u] = S[u] BY <1>9
<1>11. Without(S, {tags[i]}, S1) BY <1>5, <1>10 DEF Without
<1>12. PICK mid : mid = RemoveAt(buf, i) OBVIOUS
<1>13. mid \in Seq(StoreSet) /\ Len(mid) = Len(buf) - 1
       /\ \A j \in 1..(Len(buf) - 1) : mid[j] = IF j < i THEN buf[j] ELSE buf[j + 1]
  BY <1>2, <1>4, <1>12, RemoveAtIs
<1>14. Holds(mid, S1) BY <1>1, <1>2, <1>4, <1>11, <1>13, HoldsRemove
<1>15. PICK S2 : Trimmed(S1, S2) /\ Holds(Trim(mid), S2)
  BY <1>10, <1>13, <1>14, HoldsTrim
<1>16. After(S, t, S2)
  <2>1. CASE S2 = S1 BY <1>10, <2>1 DEF After
  <2>2. ASSUME NEW f \in DOMAIN S1, S1[f] = Fence, \A u \in DOMAIN S1 : f <= u, Without(S1, {f}, S2)
        PROVE  After(S, t, S2)
    <3>1. DOMAIN S2 = DOMAIN S1 \ {f} /\ \A u \in DOMAIN S2 : S2[u] = S1[u] BY <2>2 DEF Without
    <3>2. \A u \in DOMAIN S2 : S2[u] = S[u] BY <1>10, <3>1
    <3>3. S[f] = Fence /\ \A w \in DOMAIN S : w = t \/ f <= w BY <1>10, <2>2
    <3> QED BY <1>10, <3>1, <3>2, <3>3 DEF After
  <2> QED BY <1>15, <2>1, <2>2 DEF Trimmed
<1>17. Left(buf, i) = Trim(mid) BY <1>12 DEF Left
<1> QED BY <1>6, <1>8, <1>15, <1>16, <1>17

-----------------------------------------------------------------------------
(* Sizes: what the constructor and enqueue compute.                        *)

\* A finite set of numbers has an upper bound.
LEMMA FiniteBounded ==
  ASSUME NEW T \in SUBSET Nat, IsFiniteSet(T)
  PROVE  \E top \in Nat : \A y \in T : y <= top
<1>1. PICK n \in Nat : ExistsBijection(1..n, T)
  BY FS_CardinalityType
<1>2. PICK f \in [1..n -> T] : \A y \in T : \E i \in 1..n : f[i] = y
  BY <1>1 DEF ExistsBijection, Bijection, Surjection
<1> DEFINE Bad == {k \in 0..n : ~ \E top \in Nat : \A i \in 1..k : f[i] <= top}
<1>3. CASE Bad = {}
  <2> HIDE DEF Bad
  <2>0. n \in 0..n /\ n \notin Bad BY <1>3
  <2>1. PICK top \in Nat : \A i \in 1..n : f[i] <= top BY <2>0 DEF Bad
  <2> QED BY <1>2, <2>1
<1>4. CASE Bad # {}
  <2>1. Bad \in SUBSET Nat OBVIOUS
  <2>2. PICK k \in Bad : \A l \in Bad : k <= l BY <1>4, <2>1, LeastNat
  <2>3. k # 0 BY <2>2
  <2>a. k \in 1..n BY <2>2, <2>3
  <2>b. PICK l \in 0..n : l = k - 1 BY <2>a
  <2>c. l \notin Bad
    <3>1. ~ (k <= l) BY <2>a, <2>b
    <3> QED BY <2>2, <3>1
  <2>4. k - 1 \in 0..n /\ k - 1 \notin Bad BY <2>b, <2>c
  <2>5. PICK top \in Nat : \A i \in 1..(k - 1) : f[i] <= top BY <2>4
  <2>6. f[k] \in Nat BY <2>a
  <2>7. PICK top2 \in Nat : top2 >= top /\ top2 >= f[k]
    <3>1. CASE top >= f[k] BY <2>6, <3>1
    <3>2. CASE f[k] >= top BY <2>6, <3>2
    <3> QED BY <2>6, <3>1, <3>2
  <2>8. ASSUME NEW i \in 1..k PROVE f[i] <= top2
    <3>1. CASE i = k BY <2>7, <3>1
    <3>2. CASE i # k
      <4>1. i \in 1..(k - 1) BY <3>2
      <4>a. i \in 1..n BY <4>1, <2>a
      <4>b. f[i] \in Nat BY <4>a
      <4>c. f[i] <= top BY <2>5, <4>1
      <4>2. f[i] <= top /\ f[i] \in Nat BY <4>b, <4>c
      <4> QED BY <2>7, <4>2
    <3> QED BY <3>1, <3>2
  <2> QED BY <2>2, <2>8
<1> QED BY <1>3, <1>4

\* Powers of two, of which the provers know only what PowerAssumption says.
Power(i) == 2 ^ i
\* What it says of those up to k.
Powers(k) == Power(0) = 1 /\ \A i \in 0..k : Power(i + 1) = 2 * Power(i)

\* Powers of two are numbers larger than their exponents.
LEMMA PowerType ==
  ASSUME NEW k \in Nat, Powers(k)
  PROVE  \A i \in 0..(k + 1) : Power(i) \in Nat /\ Power(i) > i
<1> DEFINE Bad == {i \in 0..(k + 1) : ~ (Power(i) \in Nat /\ Power(i) > i)}
<1> SUFFICES ASSUME Bad # {} PROVE FALSE OBVIOUS
<1>1. Bad \in SUBSET Nat OBVIOUS
<1>2. PICK j \in Bad : \A l \in Bad : j <= l BY <1>1, LeastNat
<1>3. j # 0 BY <1>2 DEF Powers
<1>4. j - 1 \in 0..k /\ j - 1 \notin Bad /\ (j - 1) + 1 = j BY <1>2, <1>3
<1>5. Power(j - 1) \in Nat /\ Power(j - 1) > j - 1 BY <1>4
<1>6. Power(j) = 2 * Power(j - 1) BY <1>4 DEF Powers
<1>7. Power(j) \in Nat /\ Power(j) > j BY <1>2, <1>3, <1>5, <1>6
<1> QED BY <1>2, <1>7

\* Powers of two grow.
LEMMA PowerMonotone ==
  ASSUME NEW k \in Nat, Powers(k), NEW i \in 0..(k + 1)
  PROVE  \A j \in i..(k + 1) : Power(i) <= Power(j)
<1> DEFINE Bad == {j \in i..(k + 1) : ~ (Power(i) <= Power(j))}
<1> SUFFICES ASSUME Bad # {} PROVE FALSE OBVIOUS
<1>0. \A j \in 0..(k + 1) : Power(j) \in Nat /\ Power(j) > j BY PowerType
<1>1. Bad \in SUBSET Nat OBVIOUS
<1>2. PICK j \in Bad : \A l \in Bad : j <= l BY <1>1, LeastNat
<1>3. j # i BY <1>0, <1>2
<1>4. j - 1 \in i..(k + 1) /\ j - 1 \notin Bad /\ (j - 1) + 1 = j /\ j - 1 \in 0..k BY <1>2, <1>3
<1>5. Power(i) <= Power(j - 1) BY <1>4
<1>6. Power(j) = 2 * Power(j - 1) BY <1>4 DEF Powers
<1>7. Power(i) \in Nat /\ Power(j - 1) \in Nat BY <1>0, <1>4
<1> QED BY <1>2, <1>5, <1>6, <1>7

\* ceilToPow2 finds a power of two that is at least x and less than 2 * x.
LEMMA CeilIs ==
  ASSUME NEW s \in Nat, Powers(s)
  PROVE  \E i \in 0..(s + 1) : /\ ceilToPow2(s + 1) = Power(i)
                               /\ Power(i) \in Nat /\ Power(i) >= s + 1 /\ 2 * (s + 1) > Power(i)
<1> DEFINE Big == {i \in 0..(s + 1) : Power(i) >= s + 1}
<1>0. \A j \in 0..(s + 1) : Power(j) \in Nat /\ Power(j) > j BY PowerType
<1>1. s + 1 \in Big
  <2>1. s + 1 \in 0..(s + 1) OBVIOUS
  <2>2. Power(s + 1) \in Nat /\ Power(s + 1) > s + 1 BY <1>0, <2>1
  <2> QED BY <2>1, <2>2
<1>2. PICK i \in Big : \A j \in Big : i <= j
  <2>1. Big \in SUBSET Nat /\ Big # {} BY <1>1
  <2> QED BY <2>1, LeastNat
<1>3. Power(i) \in Nat /\ Power(i) >= s + 1 BY <1>0, <1>2
<1>4. 2 * (s + 1) > Power(i)
  <2>1. CASE i = 0 BY <2>1 DEF Powers
  <2>2. CASE i # 0
    <3>1. i - 1 \in 0..(s + 1) /\ i - 1 \notin Big /\ i - 1 \in 0..s /\ (i - 1) + 1 = i
      BY <1>2, <2>2
    <3>2. Power(i - 1) < s + 1 /\ Power(i - 1) \in Nat BY <1>0, <3>1
    <3>3. Power(i) = 2 * Power(i - 1) BY <3>1 DEF Powers
    <3> QED BY <3>2, <3>3
  <2> QED BY <2>1, <2>2
<1>5. PICK x : x = s + 1 OBVIOUS
<1>6. PICK P : P = {2 ^ j : j \in 0..x} OBVIOUS
<1>7. ceilToPow2(x) = CHOOSE y \in P : y >= x /\ 2 * x > y BY <1>6 DEF ceilToPow2
<1>8. Power(i) \in P BY <1>2, <1>5, <1>6 DEF Power
<1>9. ceilToPow2(x) \in P /\ ceilToPow2(x) >= x /\ 2 * x > ceilToPow2(x)
  BY <1>3, <1>4, <1>5, <1>7, <1>8
<1>10. PICK j \in 0..x : ceilToPow2(x) = Power(j) BY <1>6, <1>9 DEF Power
<1> QED BY <1>0, <1>5, <1>9, <1>10

\* The assumption on powers covers every size the constructor computes with.
LEMMA SizePowers ==
  ASSUME NEW s \in Sizes \cup {MAX_BLOCK_SIZE}
  PROVE  s \in Nat /\ Powers(s)
BY QueueAssumption, PowerAssumption DEF Powers, Power

\* Division rounds down.
LEMMA DivBound ==
  ASSUME NEW a \in Nat, NEW b \in Nat, b > 0
  PROVE  a \div b \in Nat /\ a \div b <= a /\ (a \div b) * b <= a /\ a < (a \div b) * b + b
<1>1. a % b \in 0..(b - 1) /\ a = b * (a \div b) + (a % b) /\ a \div b \in Int
  OBVIOUS
<1>2. PICK q \in Int, r \in 0..(b - 1) : a = b * q + r /\ q = a \div b BY <1>1
<1>3. q >= 0
  <2> SUFFICES ASSUME q <= -1 PROVE FALSE OBVIOUS
  <2>1. b * q <= -b BY MulSign
  <2>2. PICK z \in Int : z = b * q OBVIOUS
  <2> QED BY <1>2, <2>1, <2>2
<1>4. b * q >= q BY <1>3
<1>5. PICK z \in Int : z = b * q OBVIOUS
<1>6. q * b = z BY <1>5
<1> QED BY <1>2, <1>3, <1>4, <1>5, <1>6

\* The capacity the constructor promises.
LEMMA InitialSizes ==
  ASSUME NEW s \in Sizes
  PROVE  LET u == InitialBlockSize(s) - 1 k == InitialBlockCount(s) IN
         /\ InitialBlockSize(s) \in Nat /\ InitialBlockSize(s) >= 2 /\ InitialBlockSize(s) <= 2 * MAX_BLOCK_SIZE
         /\ InitialBlockCount(s) \in Nat /\ InitialBlockCount(s) >= 1 /\ InitialBlockCount(s) <= s + 2 * MAX_BLOCK_SIZE
         /\ k = 1 => u >= s
         /\ k > 1 => (k - 1) * u >= s
         /\ InitialBlockSize(s) >= MAX_BLOCK_SIZE \/ \E i \in 0..(s + 1) : InitialBlockSize(s) = Power(i)
<1>1. s \in Nat /\ s >= 1 /\ MAX_BLOCK_SIZE \in Nat /\ MAX_BLOCK_SIZE >= 2 BY QueueAssumption
<1>2. PICK i \in 0..(s + 1) : /\ ceilToPow2(s + 1) = Power(i)
                               /\ Power(i) \in Nat /\ Power(i) >= s + 1 /\ 2 * (s + 1) > Power(i)
  BY <1>1, CeilIs, SizePowers
<1>3. CASE Power(i) > MAX_BLOCK_SIZE * 2
  <2>1. InitialBlockSize(s) = MAX_BLOCK_SIZE BY <1>2, <1>3 DEF InitialBlockSize
  <2>2. PICK b \in Nat : b = MAX_BLOCK_SIZE - 1 BY <1>1
  <2>3. PICK a \in Nat : a = s + MAX_BLOCK_SIZE * 2 - 3 BY <1>1
  <2>4. InitialBlockCount(s) = a \div b BY <1>2, <1>3, <2>2, <2>3 DEF InitialBlockCount
  <2>5. PICK q : q = a \div b OBVIOUS
  <2>6. q \in Nat /\ q <= a /\ a < q * b + b BY <1>1, <2>2, <2>5, DivBound
  <2>7. a = s + 2 * b - 1 BY <1>1, <2>2, <2>3
  <2>8. (q - 1) * b >= s /\ q > 1
    <3>1. PICK z \in Int : z = q * b BY <2>6
    <3>2. (q - 1) * b = z - b BY <2>6, <3>1
    <3>3. z - b >= s BY <1>1, <2>6, <2>7, <3>1
    <3>4. q = 0 => z = 0 BY <3>1
    <3>5. q = 1 => z = b BY <3>1
    <3> QED BY <1>1, <2>6, <3>2, <3>3, <3>4, <3>5
  <2>9. q <= s + 2 * MAX_BLOCK_SIZE BY <1>1, <2>3, <2>6
  <2>10. InitialBlockCount(s) = q /\ InitialBlockSize(s) - 1 = b BY <2>1, <2>2, <2>4, <2>5
  <2> QED BY <1>1, <2>1, <2>6, <2>8, <2>9, <2>10
<1>4. CASE ~ (Power(i) > MAX_BLOCK_SIZE * 2)
  <2>1. InitialBlockSize(s) = Power(i) /\ InitialBlockCount(s) = 1
    BY <1>2, <1>4 DEF InitialBlockSize, InitialBlockCount
  <2> QED BY <1>1, <1>2, <1>4, <2>1
<1> QED BY <1>3, <1>4

\* The constructor's arguments to check have an upper bound.
LEMMA SizesBounded == \E top \in Nat : \A s \in Sizes : s \in Nat /\ s >= 1 /\ s <= top
<1>1. Sizes \in SUBSET Nat /\ IsFiniteSet(Sizes) /\ \A s \in Sizes : s \in Nat /\ s >= 1
  BY QueueAssumption
<1>2. PICK top \in Nat : \A s \in Sizes : s <= top BY <1>1, FiniteBounded
<1> QED BY <1>1, <1>2

\* The block numbers are an interval that has room for the constructor's blocks and for
\* those that enqueue adds.
LEMMA BlocksIs ==
  \E k \in Nat : Blocks = 1..k /\ MaxBlocks <= k /\ \A s \in Sizes : InitialBlockCount(s) <= k
<1>1. PICK top \in Nat : \A s \in Sizes : s \in Nat /\ s >= 1 /\ s <= top BY SizesBounded
<1>2. MaxBlocks \in Nat /\ MAX_BLOCK_SIZE \in Nat /\ MAX_BLOCK_SIZE >= 2 BY QueueAssumption
<1>3. PICK T : T = {InitialBlockCount(s) : s \in Sizes} \cup {MaxBlocks} OBVIOUS
<1>4. PICK up \in Nat : up = top + 2 * MAX_BLOCK_SIZE + MaxBlocks BY <1>2
<1>5. ASSUME NEW s \in Sizes PROVE InitialBlockCount(s) \in Nat /\ InitialBlockCount(s) <= up
  <2>1. InitialBlockCount(s) \in Nat /\ InitialBlockCount(s) <= s + 2 * MAX_BLOCK_SIZE
    BY InitialSizes
  <2>2. s \in Nat /\ s <= top BY <1>1
  <2> QED BY <1>2, <1>4, <2>1, <2>2
<1>6. MaxBlocks \in T /\ MaxBlocks <= up BY <1>1, <1>2, <1>3, <1>4
<1>7. \A y \in T : y \in Nat /\ y <= up BY <1>2, <1>3, <1>5, <1>6
<1>8. Max(T) \in T /\ \A y \in T : y <= Max(T)
  <2>1. T \in SUBSET Nat /\ T # {} BY <1>6, <1>7
  <2> QED BY <1>7, <2>1, MaxExists
<1>9. Blocks = 1..Max(T) BY <1>3 DEF Blocks
<1>10. \A s \in Sizes : InitialBlockCount(s) \in T BY <1>3
<1> QED BY <1>6, <1>7, <1>8, <1>9, <1>10

\* The slot numbers are an interval that has room for every block size.
LEMMA SlotsIs ==
  \E m \in Nat : Slots = 0..m /\ MAX_BLOCK_SIZE - 1 <= m /\ \A s \in Sizes : InitialBlockSize(s) - 1 <= m
<1>2. MAX_BLOCK_SIZE \in Nat /\ MAX_BLOCK_SIZE >= 2 BY QueueAssumption
<1>3. PICK T : T = {InitialBlockSize(s) : s \in Sizes} \cup {MAX_BLOCK_SIZE} OBVIOUS
<1>4. PICK up \in Nat : up = 2 * MAX_BLOCK_SIZE BY <1>2
<1>5. ASSUME NEW s \in Sizes PROVE InitialBlockSize(s) \in Nat /\ InitialBlockSize(s) <= up
  BY <1>4, InitialSizes
<1>6. MAX_BLOCK_SIZE \in T /\ MAX_BLOCK_SIZE <= up BY <1>2, <1>3, <1>4
<1>7. \A y \in T : y \in Nat /\ y <= up BY <1>2, <1>3, <1>5, <1>6
<1>8. Max(T) \in T /\ \A y \in T : y <= Max(T)
  <2>1. T \in SUBSET Nat /\ T # {} BY <1>6, <1>7
  <2> QED BY <1>7, <2>1, MaxExists
<1>9. Slots = 0..(Max(T) - 1) BY <1>3 DEF Slots
<1>10. \A s \in Sizes : InitialBlockSize(s) \in T /\ InitialBlockSize(s) \in Nat BY <1>3, <1>5
<1>11. Max(T) \in Nat /\ Max(T) >= MAX_BLOCK_SIZE BY <1>6, <1>7, <1>8
<1>12. PICK m \in Nat : m = Max(T) - 1 BY <1>2, <1>11
<1>13. \A s \in Sizes : InitialBlockSize(s) - 1 <= m BY <1>8, <1>10, <1>11, <1>12
<1> QED BY <1>2, <1>9, <1>11, <1>12, <1>13

\* The constructor's block size is a power of two that the slots have room for.
LEMMA RoomInitial ==
  ASSUME NEW s \in Sizes
  PROVE  Room(InitialBlockSize(s))
<1>1. PICK m \in Nat : Slots = 0..m /\ \A z \in Sizes : InitialBlockSize(z) - 1 <= m BY SlotsIs
<1>2. PICK r \in Nat : r = InitialBlockSize(s) BY InitialSizes
<1>3. r >= 2 /\ (r >= MAX_BLOCK_SIZE \/ \E i \in 0..(s + 1) : r = Power(i)) BY <1>2, InitialSizes
<1>4. r - 1 \in Slots
  <2>1. r - 1 <= m BY <1>1, <1>2
  <2> QED BY <1>1, <1>3, <2>1
<1>5. MAX_BLOCK_SIZE \in Nat BY QueueAssumption
<1>6. CASE r >= MAX_BLOCK_SIZE BY <1>2, <1>3, <1>4, <1>6 DEF Room
<1>7. CASE ~ (r >= MAX_BLOCK_SIZE)
  <2>1. PICK i \in 0..(s + 1) : r = Power(i) BY <1>3, <1>7
  <2>2. s \in Nat /\ Powers(s) BY SizePowers
  <2>3. PICK k \in 0..MAX_BLOCK_SIZE : MAX_BLOCK_SIZE = Power(k) BY QueueAssumption DEF Power
  <2>4. i < k
    <3> SUFFICES ASSUME k <= i PROVE FALSE BY <2>2, <2>3
    <3>1. k \in 0..(s + 1) /\ i \in k..(s + 1) BY <2>1, <2>2, <2>3
    <3>2. Power(k) <= Power(i) BY <2>2, <3>1, PowerMonotone
    <3> QED BY <1>2, <1>5, <1>7, <2>1, <2>3, <3>2
  <2>5. i \in 0..MAX_BLOCK_SIZE /\ r = 2 ^ i BY <1>5, <2>1, <2>2, <2>3, <2>4 DEF Power
  <2> QED BY <1>2, <1>3, <1>4, <2>5 DEF Room
<1> QED BY <1>6, <1>7

\* So is the size of a block that enqueue adds, and it is no smaller than the one
\* before.
LEMMA RoomNew ==
  ASSUME NEW r, Room(r)
  PROVE  Room(NewBlockSize(r)) /\ NewBlockSize(r) >= r
<1>1. r \in Nat /\ r >= 2 /\ r - 1 \in Slots /\ MAX_BLOCK_SIZE \in Nat BY QueueAssumption DEF Room
<1>2. CASE r >= MAX_BLOCK_SIZE
  <2>1. NewBlockSize(r) = r BY <1>2 DEF NewBlockSize
  <2> QED BY <1>1, <2>1
<1>3. CASE ~ (r >= MAX_BLOCK_SIZE)
  <2>1. NewBlockSize(r) = r * 2 BY <1>3 DEF NewBlockSize
  <2>2. PICK i \in 0..MAX_BLOCK_SIZE : r = Power(i) BY <1>3 DEF Room, Power
  <2>3. PICK k \in 0..MAX_BLOCK_SIZE : MAX_BLOCK_SIZE = Power(k) BY QueueAssumption DEF Power
  <2>4. MAX_BLOCK_SIZE \in Nat /\ Powers(MAX_BLOCK_SIZE) BY SizePowers
  <2>5. i < k
    <3> SUFFICES ASSUME k <= i PROVE FALSE BY <2>4, <2>3
    <3>1. k \in 0..(MAX_BLOCK_SIZE + 1) /\ i \in k..(MAX_BLOCK_SIZE + 1) BY <2>2, <2>3, <2>4
    <3>2. Power(k) <= Power(i) BY <2>4, <3>1, PowerMonotone
    <3> QED BY <1>1, <1>3, <2>2, <2>3, <3>2
  <2>6. r * 2 = Power(i + 1) BY <1>1, <2>2, <2>4 DEF Powers
  <2>7. Power(i + 1) <= Power(k)
    <3>1. PICK j : j = i + 1 OBVIOUS
    <3>2. j \in 0..(MAX_BLOCK_SIZE + 1) /\ k \in j..(MAX_BLOCK_SIZE + 1)
      BY <2>2, <2>3, <2>4, <2>5, <3>1
    <3>3. Power(j) <= Power(k) BY <2>4, <3>2, PowerMonotone
    <3> QED BY <3>1, <3>3
  <2>8. r * 2 <= MAX_BLOCK_SIZE BY <1>1, <2>3, <2>6, <2>7
  <2>9. PICK m \in Nat : Slots = 0..m /\ MAX_BLOCK_SIZE - 1 <= m BY SlotsIs
  <2>10. r * 2 - 1 \in Slots BY <1>1, <2>8, <2>9
  <2>11. i + 1 \in 0..MAX_BLOCK_SIZE /\ r * 2 = 2 ^ (i + 1)
    BY <2>2, <2>3, <2>4, <2>5, <2>6 DEF Power
  <2>12. Room(r * 2) BY <1>1, <2>10, <2>11 DEF Room
  <2> QED BY <1>1, <2>1, <2>12
<1> QED BY <1>2, <1>3

-----------------------------------------------------------------------------
(* The shape of a history.                                                 *)

\* The shape of a history with the parts of it that the others rest on.
LEMMA ShapeFacts ==
  ASSUME NEW h, Shape(h)
  PROVE  /\ h.n \in Nat /\ h.n >= 1 /\ h.unit \in Nat /\ h.unit >= 1 /\ LastVisit(h) \in Nat /\ LastVisit(h) = h.freed + h.n - 1
         /\ h.freed \in Nat /\ h.front \in Nat /\ h.shown \in Nat /\ h.tail \in Nat
         /\ 1 <= h.freed /\ h.freed <= h.front /\ h.front <= h.shown /\ h.shown <= h.tail /\ h.tail <= LastVisit(h)
         /\ h.rel \in Nat /\ h.got \in Nat /\ h.pub \in Nat /\ h.sent \in Nat
         /\ h.rel <= h.got /\ h.got <= h.pub /\ h.pub <= h.sent
BY DEF Shape, Counters, LastVisit

\* The first element of a visit is a number.
LEMMA FirstType ==
  ASSUME NEW h, Shape(h), NEW v \in 1..(h.tail + 1)
  PROVE  h.first[v] \in Nat
BY DEF Shape, Visits

\* Visits follow one another.
LEMMA FirstMonotone ==
  ASSUME NEW h, Shape(h), NEW v \in 1..(h.tail + 1), NEW w \in 1..(h.tail + 1), v <= w
  PROVE  h.first[v] <= h.first[w]
BY DEF Shape, Visits

\* The visit of an element is one of the producer's, and the element is in it.
LEMMA VisitType ==
  ASSUME NEW h, Shape(h), NEW e \in 1..h.sent
  PROVE  /\ h.visit[e] \in 1..h.tail /\ h.visit[e] \in 1..(h.tail + 1) /\ h.visit[e] + 1 \in 1..(h.tail + 1)
         /\ h.first[h.visit[e]] <= e /\ e < h.first[h.visit[e] + 1]
<1>1. h.tail \in Nat BY ShapeFacts
<1>2. h.visit[e] \in 1..h.tail /\ h.first[h.visit[e]] <= e /\ e < h.first[h.visit[e] + 1]
  BY DEF Shape, Visits
<1> QED BY <1>1, <1>2

\* An element is in one visit.
LEMMA VisitIs ==
  ASSUME NEW h, Shape(h), NEW e \in 1..h.sent, NEW v \in 1..h.tail, h.first[v] <= e,
         e < h.first[v + 1]
  PROVE  h.visit[e] = v
<1>1. /\ h.visit[e] \in 1..h.tail /\ h.visit[e] \in 1..(h.tail + 1) /\ h.visit[e] + 1 \in 1..(h.tail + 1)
      /\ h.first[h.visit[e]] <= e /\ e < h.first[h.visit[e] + 1]
  BY VisitType
<1>2. PICK w : w = h.visit[e] OBVIOUS
<1>3. h.tail \in Nat /\ h.sent \in Nat BY ShapeFacts
<1>4. w \in 1..(h.tail + 1) /\ w + 1 \in 1..(h.tail + 1) /\ v \in 1..(h.tail + 1) /\ v + 1 \in 1..(h.tail + 1)
  BY <1>1, <1>2, <1>3
<1>5. h.first[w] \in Nat /\ h.first[w + 1] \in Nat /\ h.first[v] \in Nat /\ h.first[v + 1] \in Nat
  BY <1>4, FirstType
<1>6. CASE w < v
  <2>1. h.first[w + 1] <= h.first[v] BY <1>3, <1>4, <1>6, FirstMonotone
  <2> QED BY <1>1, <1>2, <1>5, <2>1
<1>7. CASE v < w
  <2>1. h.first[v + 1] <= h.first[w] BY <1>3, <1>4, <1>7, FirstMonotone
  <2> QED BY <1>1, <1>2, <1>5, <2>1
<1> QED BY <1>2, <1>3, <1>4, <1>6, <1>7

\* An element at or after the first one of visit v is in v or later.
LEMMA VisitAtLeast ==
  ASSUME NEW h, Shape(h), NEW e \in 1..h.sent, NEW v \in 1..h.tail, h.first[v] <= e
  PROVE  v <= h.visit[e]
<1>1. /\ h.visit[e] \in 1..h.tail /\ h.visit[e] \in 1..(h.tail + 1) /\ h.visit[e] + 1 \in 1..(h.tail + 1)
      /\ h.first[h.visit[e]] <= e /\ e < h.first[h.visit[e] + 1]
  BY VisitType
<1>2. PICK w : w = h.visit[e] OBVIOUS
<1>3. h.tail \in Nat /\ h.sent \in Nat BY ShapeFacts
<1>4. w \in 1..(h.tail + 1) /\ w + 1 \in 1..(h.tail + 1) /\ v \in 1..(h.tail + 1)
  BY <1>1, <1>2, <1>3
<1>5. h.first[w + 1] \in Nat /\ h.first[v] \in Nat
  BY <1>4, FirstType
<1>6. CASE w < v
  <2>1. h.first[w + 1] <= h.first[v] BY <1>3, <1>4, <1>6, FirstMonotone
  <2> QED BY <1>1, <1>2, <1>5, <2>1
<1> QED BY <1>2, <1>3, <1>4, <1>6

\* Where the elements not yet released, taken or published are.
LEMMA VisitsOf ==
  ASSUME NEW h, Shape(h), NEW e \in 1..h.sent
  PROVE  /\ e > h.rel => h.freed <= h.visit[e]
         /\ e > h.got => h.front <= h.visit[e]
         /\ e > h.pub => h.shown <= h.visit[e]
         /\ e > h.pub /\ h.visit[e] = h.shown => ~ Begins(h, e)
<1>1. /\ h.freed \in 1..h.tail /\ h.front \in 1..h.tail /\ h.shown \in 1..h.tail
      /\ h.rel \in Nat /\ h.got \in Nat /\ h.pub \in Nat /\ h.sent \in Nat /\ h.tail \in Nat
  BY ShapeFacts
<1>2. /\ h.first[h.freed] \in Nat /\ h.first[h.front] \in Nat /\ h.first[h.shown] \in Nat
  BY <1>1, FirstType
<1>3. /\ h.first[h.freed] <= h.rel + 1 /\ h.first[h.front] <= h.got + 1 /\ h.first[h.shown] <= h.pub + 1
      /\ h.shown > 1 => h.first[h.shown] <= h.pub
  BY DEF Shape, Positions
<1>4. e > h.rel => h.first[h.freed] <= e BY <1>1, <1>2, <1>3
<1>5. e > h.got => h.first[h.front] <= e BY <1>1, <1>2, <1>3
<1>6. e > h.pub => h.first[h.shown] <= e BY <1>1, <1>2, <1>3
<1>7. e > h.pub /\ h.visit[e] = h.shown => ~ Begins(h, e)
  BY <1>1, <1>2, <1>3 DEF Begins
<1> QED BY <1>1, <1>4, <1>5, <1>6, <1>7, VisitAtLeast

\* Fronts and tails of a visit are in this order.
Ordered(h, v) ==
  /\ h.first[v] \in Nat /\ h.first[v + 1] \in Nat
  /\ MemFront(h, v) \in Nat /\ OwnFront(h, v) \in Nat /\ MemTail(h, v) \in Nat
  /\ h.first[v] <= MemFront(h, v) /\ MemFront(h, v) <= OwnFront(h, v)
  /\ OwnFront(h, v) <= MemTail(h, v) /\ MemTail(h, v) <= h.first[v + 1]
  /\ v <= h.shown => MemTail(h, v) <= h.pub + 1
  /\ h.room[v] \in Nat /\ h.room[v] > h.unit /\ h.base[v] \in Int
  /\ h.first[v + 1] - MemFront(h, v) < h.room[v]

\* A block that the producer has visited holds what is to be released before what is to
\* be taken, and that before what is to be published.
LEMMA OrderedVisits ==
  ASSUME NEW h, Shape(h), NEW v \in h.freed..h.tail
  PROVE  Ordered(h, v)
<1>1. /\ h.freed \in 1..h.tail /\ h.front \in 1..h.tail /\ h.shown \in 1..h.tail
      /\ h.freed <= h.front /\ h.front <= h.shown
      /\ h.rel \in Nat /\ h.got \in Nat /\ h.pub \in Nat /\ h.sent \in Nat /\ h.tail \in Nat
      /\ h.rel <= h.got /\ h.got <= h.pub /\ h.pub <= h.sent
      /\ v \in 1..h.tail /\ v \in 1..(h.tail + 1) /\ v + 1 \in 1..(h.tail + 1) /\ v \in 1..LastVisit(h)
      /\ h.shown + 1 \in 1..(h.tail + 1)
  BY ShapeFacts
<1>2. h.first[v] \in Nat /\ h.first[v + 1] \in Nat /\ h.first[h.shown + 1] \in Nat /\ h.first[h.shown] \in Nat
  BY <1>1, FirstType
<1>3. h.first[v] <= h.first[v + 1] BY <1>1, FirstMonotone
<1>4. /\ h.first[h.freed] <= h.rel + 1 /\ h.rel + 1 <= h.first[h.freed + 1]
      /\ h.first[h.front] <= h.got + 1 /\ h.got + 1 <= h.first[h.front + 1]
      /\ h.first[h.shown] <= h.pub + 1 /\ h.pub + 1 <= h.first[h.shown + 1]
  BY DEF Shape, Positions
<1>5. v > h.shown => h.first[v] < h.first[v + 1]
  <2>1. v > h.shown => v \in 2..h.tail BY <1>1
  <2> QED BY <2>1 DEF Shape, Visits
<1>6. MemFront(h, v) \in Nat /\ h.first[v] <= MemFront(h, v)
  BY <1>1, <1>2, <1>4 DEF MemFront
<1>7. OwnFront(h, v) \in Nat BY <1>1, <1>2 DEF OwnFront
<1>8. MemTail(h, v) \in Nat BY <1>1, <1>2 DEF MemTail
<1>9. MemFront(h, v) <= OwnFront(h, v)
  BY <1>1, <1>2, <1>3, <1>4 DEF MemFront, OwnFront
<1>10. OwnFront(h, v) <= MemTail(h, v)
  BY <1>1, <1>2, <1>3, <1>4 DEF MemTail, OwnFront
<1>11. MemTail(h, v) <= h.first[v + 1]
  BY <1>1, <1>2, <1>3, <1>4, <1>5 DEF MemTail
<1>12. v <= h.shown => MemTail(h, v) <= h.pub + 1
  <2>1. CASE v = h.shown BY <1>1, <2>1 DEF MemTail
  <2>2. CASE v < h.shown
    <3>1. h.first[v + 1] <= h.first[h.shown] BY <1>1, <2>2, FirstMonotone
    <3> QED BY <1>1, <1>2, <1>4, <2>2, <3>1 DEF MemTail
  <2> QED BY <1>1, <2>1, <2>2
<1>13. h.room[v] \in Nat /\ h.room[v] > h.unit /\ h.base[v] \in Int
  BY <1>1 DEF Shape, Circular, Visits
<1>14. h.first[v + 1] - MemFront(h, v) < h.room[v] BY DEF Shape, Positions
<1> QED BY <1>2, <1>6, <1>7, <1>8, <1>9, <1>10, <1>11, <1>12, <1>13, <1>14 DEF Ordered

\* Within a visit an index stands for one element.
LEMMA IndexInj ==
  ASSUME NEW h, Shape(h), NEW v \in h.freed..h.tail,
         NEW x \in Int, NEW y \in Int, MemFront(h, v) <= x, x <= h.first[v + 1],
         MemFront(h, v) <= y, y <= h.first[v + 1],
         IndexOf(h, v, x) = IndexOf(h, v, y)
  PROVE  x = y
<1>1. Ordered(h, v) BY OrderedVisits
<1>2. h.unit \in Nat BY ShapeFacts
<1>3. PICK r \in Nat : r = h.room[v] /\ r > 0 BY <1>1, <1>2 DEF Ordered
<1>4. PICK b \in Int : b = h.base[v] BY <1>1 DEF Ordered
<1>5. x - y < r /\ y - x < r BY <1>1, <1>3 DEF Ordered
<1>6. Slot(x, b, r) = Slot(y, b, r) BY <1>3, <1>4 DEF IndexOf
<1> QED BY <1>3, <1>5, <1>6, SlotInj

\* Two indices of a visited block differ by the number of elements between them: a block
\* never holds more than it has slots.
LEMMA IndexDiff ==
  ASSUME NEW h, Shape(h), NEW v \in h.freed..h.tail,
         NEW x \in Int, NEW y \in Int, MemFront(h, v) <= y, y <= x, x <= h.first[v + 1]
  PROVE  (IndexOf(h, v, x) - IndexOf(h, v, y)) % h.room[v] = x - y
<1>1. Ordered(h, v) BY OrderedVisits
<1>2. h.unit \in Nat BY ShapeFacts
<1>3. PICK r \in Nat : r = h.room[v] /\ r > 0 BY <1>1, <1>2 DEF Ordered
<1>4. PICK b \in Int : b = h.base[v] BY <1>1 DEF Ordered
<1>5. x - y < r BY <1>1, <1>3 DEF Ordered
<1>6. (Slot(x, b, r) - Slot(y, b, r)) % r = x - y BY <1>3, <1>5, SlotDiff
<1> QED BY <1>3, <1>4, <1>6 DEF IndexOf

\* Counting an index on is counting an element on.
LEMMA IndexNext ==
  ASSUME NEW h, Shape(h), NEW v \in h.freed..h.tail, NEW x \in Int
  PROVE  /\ (IndexOf(h, v, x) + 1) % h.room[v] = IndexOf(h, v, x + 1)
         /\ IndexOf(h, v, x) \in 0..(h.room[v] - 1)
<1>1. Ordered(h, v) BY OrderedVisits
<1>2. h.unit \in Nat BY ShapeFacts
<1>3. PICK r \in Nat : r = h.room[v] /\ r > 0 BY <1>1, <1>2 DEF Ordered
<1>4. PICK b \in Int : b = h.base[v] BY <1>1 DEF Ordered
<1>5. (Slot(x, b, r) + 1) % r = Slot(x + 1, b, r) BY <1>3, SlotNext
<1>6. Slot(x, b, r) \in 0..(r - 1) BY <1>3, SlotType
<1> QED BY <1>3, <1>4, <1>5, <1>6 DEF IndexOf

\* The blocks of the circle are all different.
LEMMA BlockInj ==
  ASSUME NEW h, Shape(h), NEW v \in h.freed..LastVisit(h), NEW w \in h.freed..LastVisit(h),
         h.block[v] = h.block[w]
  PROVE  v = w
BY DEF Shape, Circular

\* The block of a visit is one of the circle's.
LEMMA BlockType ==
  ASSUME NEW h, Shape(h), NEW v \in 1..LastVisit(h)
  PROVE  h.block[v] \in 1..h.n
BY DEF Shape, Circular

-----------------------------------------------------------------------------
(* The pending stores of the producer, by tag.                             *)

\* Tags are ordered as the stores were issued: by element, then by the order within the
\* enqueue.
LEMMA TagFacts ==
  ASSUME NEW d \in Nat, NEW e \in Nat, NEW j \in 0..7, NEW k \in 0..7
  PROVE  /\ Tag(d, j) \in Nat
         /\ Tag(d, j) = Tag(e, k) <=> d = e /\ j = k
         /\ Tag(d, j) < Tag(e, k) <=> d < e \/ (d = e /\ j < k)
BY DEF Tag

\* Which stores an enqueue makes: those that link a block in only for a new one, those
\* that set a tail block only where a visit begins.
LEMMA KindsFacts ==
  ASSUME NEW h, NEW e, NEW k \in Kinds(h, e)
  PROVE  /\ k \in 1..7
         /\ k \in {2, 4, 5} => Begins(h, e) /\ h.visit[e] \in h.grown
         /\ k = 3 => Begins(h, e)
BY DEF Kinds

\* What the pending stores of the producer are.
StoreIs(h, e, k, x) ==
  LET v == h.visit[e] IN
  /\ k = 1 => x = Store(<<"data", h.block[v], IndexOf(h, v, e)>>, e)
  /\ k = 2 => x = Store(<<"localTail", h.block[v]>>, 1)
  /\ k = 3 => x = Store(<<"tail", h.block[v]>>, IndexOf(h, v, e + 1))
  /\ k = 4 => x.loc = <<"next", h.block[v]>> /\ Link(h, v, x.val)
  /\ k = 5 => x = Store(<<"next", h.block[v - 1]>>, h.block[v])
  /\ k = 6 => x = Fence
  /\ k = 7 /\ Begins(h, e) => x = Store(<<"tailBlock">>, h.block[v])
  /\ k = 7 /\ ~ Begins(h, e) => x = Store(<<"tail", h.block[v]>>, IndexOf(h, v, e + 1))

\* Two of the seven stores of an enqueue are to plain variables, which a later fence
\* holds back.
LEMMA StoreFields ==
  ASSUME NEW h, NEW e, NEW k \in 1..7, NEW x, StoreIs(h, e, k, x)
  PROVE  /\ Plain(x.loc) <=> k \in {1, 2}
         /\ x.loc[1] \in {"data", "localTail", "tail", "next", "tailBlock", "fence"}
         /\ k # 6 => x # Fence /\ x.loc[1] # "fence"
<1>1. \A l, w : Store(l, w).loc = l BY DEF Store
<1>2. /\ \A a, b : <<"data", a, b>>[1] = "data"
      /\ \A a : <<"localTail", a>>[1] = "localTail" /\ <<"tail", a>>[1] = "tail" /\ <<"next", a>>[1] = "next"
      /\ <<"tailBlock">>[1] = "tailBlock" /\ Fence.loc[1] = "fence"
  BY DEF Fence
<1>3. CASE k = 1 BY <1>1, <1>2, <1>3 DEF StoreIs, Plain
<1>4. CASE k = 2 BY <1>1, <1>2, <1>4 DEF StoreIs, Plain
<1>5. CASE k = 3 BY <1>1, <1>2, <1>5 DEF StoreIs, Plain
<1>6. CASE k = 4 BY <1>1, <1>2, <1>6 DEF StoreIs, Plain
<1>7. CASE k = 5 BY <1>1, <1>2, <1>7 DEF StoreIs, Plain
<1>8. CASE k = 6 BY <1>1, <1>2, <1>8 DEF StoreIs, Plain
<1>9. CASE k = 7 /\ Begins(h, e) BY <1>1, <1>2, <1>9 DEF StoreIs, Plain
<1>10. CASE k = 7 /\ ~ Begins(h, e) BY <1>1, <1>2, <1>10 DEF StoreIs, Plain
<1> QED BY <1>3, <1>4, <1>5, <1>6, <1>7, <1>8, <1>9, <1>10

\* A pending store with the tag of element e's k-th store is that store.
LEMMA StoreAt ==
  ASSUME NEW h, PendingTags(h), PendingStores(h), NEW e \in (h.pub + 1)..h.sent, NEW k \in 1..7,
         Tag(e, k) \in DOMAIN h.S
  PROVE  StoreIs(h, e, k, h.S[Tag(e, k)])
<1>1. CASE k = 1 BY <1>1 DEF PendingStores, StoreIs
<1>2. CASE k = 2 BY <1>2 DEF PendingStores, StoreIs
<1>3. CASE k = 3 BY <1>3 DEF PendingStores, StoreIs
<1>4. CASE k = 4 BY <1>4 DEF PendingStores, StoreIs
<1>5. CASE k = 5 BY <1>5 DEF PendingStores, StoreIs
<1>6. CASE k = 6 BY <1>6 DEF PendingStores, StoreIs
<1>7. CASE k = 7 BY <1>7 DEF PendingStores, StoreIs
<1> QED BY <1>1, <1>2, <1>3, <1>4, <1>5, <1>6, <1>7

\* The pending stores are right if the last one of each unpublished element waits and
\* each that waits is its element's.
LEMMA StoresFromParts ==
  ASSUME NEW h, \A e \in (h.pub + 1)..h.sent : Tag(e, 7) \in DOMAIN h.S,
         \A e \in (h.pub + 1)..h.sent : \A k \in 1..7 : Tag(e, k) \in DOMAIN h.S => StoreIs(h, e, k, h.S[Tag(e, k)])
  PROVE  PendingStores(h)
<1> SUFFICES ASSUME NEW e \in (h.pub + 1)..h.sent
             PROVE  LET v == h.visit[e] IN
        /\ Tag(e, 1) \in DOMAIN h.S => h.S[Tag(e, 1)] = Store(<<"data", h.block[v], IndexOf(h, v, e)>>, e)
        /\ Tag(e, 2) \in DOMAIN h.S => h.S[Tag(e, 2)] = Store(<<"localTail", h.block[v]>>, 1)
        /\ Tag(e, 3) \in DOMAIN h.S => h.S[Tag(e, 3)] = Store(<<"tail", h.block[v]>>, IndexOf(h, v, e + 1))
        /\ Tag(e, 4) \in DOMAIN h.S => /\ h.S[Tag(e, 4)].loc = <<"next", h.block[v]>>
                                       /\ Link(h, v, h.S[Tag(e, 4)].val)
        /\ Tag(e, 5) \in DOMAIN h.S => h.S[Tag(e, 5)] = Store(<<"next", h.block[v - 1]>>, h.block[v])
        /\ Tag(e, 6) \in DOMAIN h.S => h.S[Tag(e, 6)] = Fence
        /\ h.S[Tag(e, 7)] = IF Begins(h, e) THEN Store(<<"tailBlock">>, h.block[v])
                            ELSE Store(<<"tail", h.block[v]>>, IndexOf(h, v, e + 1))
  BY DEF PendingStores
<1>0. Tag(e, 7) \in DOMAIN h.S OBVIOUS
<1>1. Tag(e, 1) \in DOMAIN h.S => StoreIs(h, e, 1, h.S[Tag(e, 1)]) OBVIOUS
<1>2. Tag(e, 2) \in DOMAIN h.S => StoreIs(h, e, 2, h.S[Tag(e, 2)]) OBVIOUS
<1>3. Tag(e, 3) \in DOMAIN h.S => StoreIs(h, e, 3, h.S[Tag(e, 3)]) OBVIOUS
<1>4. Tag(e, 4) \in DOMAIN h.S => StoreIs(h, e, 4, h.S[Tag(e, 4)]) OBVIOUS
<1>5. Tag(e, 5) \in DOMAIN h.S => StoreIs(h, e, 5, h.S[Tag(e, 5)]) OBVIOUS
<1>6. Tag(e, 6) \in DOMAIN h.S => StoreIs(h, e, 6, h.S[Tag(e, 6)]) OBVIOUS
<1>7. StoreIs(h, e, 7, h.S[Tag(e, 7)]) BY <1>0
<1>8. h.S[Tag(e, 7)] = IF Begins(h, e) THEN Store(<<"tailBlock">>, h.block[h.visit[e]])
                            ELSE Store(<<"tail", h.block[h.visit[e]]>>, IndexOf(h, h.visit[e], e + 1))
  BY <1>7 DEF StoreIs
<1>9. /\ Tag(e, 1) \in DOMAIN h.S => h.S[Tag(e, 1)] = Store(<<"data", h.block[h.visit[e]], IndexOf(h, h.visit[e], e)>>, e)
      /\ Tag(e, 2) \in DOMAIN h.S => h.S[Tag(e, 2)] = Store(<<"localTail", h.block[h.visit[e]]>>, 1)
      /\ Tag(e, 3) \in DOMAIN h.S => h.S[Tag(e, 3)] = Store(<<"tail", h.block[h.visit[e]]>>, IndexOf(h, h.visit[e], e + 1))
      /\ Tag(e, 6) \in DOMAIN h.S => h.S[Tag(e, 6)] = Fence
  BY <1>1, <1>2, <1>3, <1>6 DEF StoreIs
<1>10. /\ Tag(e, 4) \in DOMAIN h.S => /\ h.S[Tag(e, 4)].loc = <<"next", h.block[h.visit[e]]>>
                                      /\ Link(h, h.visit[e], h.S[Tag(e, 4)].val)
       /\ Tag(e, 5) \in DOMAIN h.S => h.S[Tag(e, 5)] = Store(<<"next", h.block[h.visit[e] - 1]>>, h.block[h.visit[e]])
  BY <1>4, <1>5 DEF StoreIs
<1> QED BY <1>8, <1>9, <1>10

\* Every pending store of the producer is one of an element not yet published.
LEMMA PendingIs ==
  ASSUME NEW h, Shape(h), PendingTags(h), PendingStores(h), NEW t \in DOMAIN h.S
  PROVE  \E e \in (h.pub + 1)..h.sent, k \in 1..7 :
            t = Tag(e, k) /\ k \in Kinds(h, e) /\ StoreIs(h, e, k, h.S[t]) /\ e \in Nat /\ e \in 1..h.sent
<1>1. PICK e \in (h.pub + 1)..h.sent : \E k \in Kinds(h, e) : t = Tag(e, k) BY DEF PendingTags
<1>2. PICK k \in Kinds(h, e) : t = Tag(e, k) BY <1>1
<1>3. k \in 1..7 BY KindsFacts
<1>4. StoreIs(h, e, k, h.S[t]) BY <1>2, <1>3, StoreAt
<1>5. e \in Nat /\ e \in 1..h.sent BY ShapeFacts
<1> QED BY <1>2, <1>3, <1>4, <1>5

\* The store that leaves: an atomic one is the oldest of its element, which is
\* the next to be published; the last one leaves alone.
LEMMA DrainTag ==
  ASSUME NEW h, Shape(h), PendingTags(h), PendingStores(h), NEW t, MayLeave(h.S, t)
  PROVE  \E e \in (h.pub + 1)..h.sent, k \in {1, 2, 3, 4, 5, 7} :
            /\ t = Tag(e, k) /\ k \in Kinds(h, e) /\ StoreIs(h, e, k, h.S[t]) /\ e \in Nat /\ e \in 1..h.sent
            /\ k \in {3, 4, 5, 7} => e = h.pub + 1 /\ \A j \in {3, 4, 5} : j < k => Tag(e, j) \notin DOMAIN h.S
            /\ k = 7 => \A j \in 1..6 : Tag(e, j) \notin DOMAIN h.S
<1>1. t \in DOMAIN h.S /\ h.S[t] # Fence
      /\ \A u \in DOMAIN h.S : u < t => h.S[u] # Fence /\ Plain(h.S[u].loc) # Plain(h.S[t].loc)
  BY DEF MayLeave
<1>2. PICK e \in (h.pub + 1)..h.sent, k \in 1..7 :
            t = Tag(e, k) /\ k \in Kinds(h, e) /\ StoreIs(h, e, k, h.S[t]) /\ e \in Nat /\ e \in 1..h.sent
  BY <1>1, PendingIs
<1>0. h.pub \in Nat /\ h.sent \in Nat BY ShapeFacts
<1>3. k # 6 BY <1>1, <1>2 DEF StoreIs
<1>4. k \in {1, 2, 3, 4, 5, 7} BY <1>3
<1>5. ASSUME NEW d \in (h.pub + 1)..h.sent, NEW j \in {3, 4, 5, 7}, k \in {3, 4, 5, 7},
             Tag(d, j) < t
      PROVE  Tag(d, j) \notin DOMAIN h.S
  <2> SUFFICES ASSUME Tag(d, j) \in DOMAIN h.S PROVE FALSE OBVIOUS
  <2>1. StoreIs(h, d, j, h.S[Tag(d, j)]) BY StoreAt
  <2>2. ~ Plain(h.S[Tag(d, j)].loc) BY <2>1, StoreFields
  <2>3. ~ Plain(h.S[t].loc) BY <1>2, <1>5, StoreFields
  <2>4. Plain(h.S[Tag(d, j)].loc) # Plain(h.S[t].loc) BY <1>1, <1>5
  <2> QED BY <2>2, <2>3, <2>4 DEF Plain
<1>6. ASSUME k \in {3, 4, 5, 7} PROVE e = h.pub + 1
  <2> SUFFICES ASSUME e # h.pub + 1 PROVE FALSE OBVIOUS
  <2>1. h.pub + 1 \in (h.pub + 1)..h.sent /\ h.pub + 1 < e BY <1>0
  <2>2. Tag(h.pub + 1, 7) \in DOMAIN h.S BY <2>1 DEF PendingTags
  <2>3. Tag(h.pub + 1, 7) < t BY <1>0, <1>2, <2>1 DEF Tag
  <2> QED BY <1>5, <1>6, <2>1, <2>2, <2>3
<1>7. ASSUME k \in {3, 4, 5, 7}, NEW j \in {3, 4, 5}, j < k PROVE Tag(e, j) \notin DOMAIN h.S
  <2>1. Tag(e, j) < t BY <1>2, <1>7 DEF Tag
  <2> QED BY <1>5, <1>7, <2>1
<1>8. ASSUME k = 7, NEW j \in 1..6 PROVE Tag(e, j) \notin DOMAIN h.S
  <2> SUFFICES ASSUME Tag(e, j) \in DOMAIN h.S PROVE FALSE OBVIOUS
  <2>1. Tag(e, 6) \in DOMAIN h.S
    <3>1. CASE j = 6 BY <3>1
    <3>2. CASE j < 6
      <4>1. Tag(e, j) < Tag(e, 6) BY <1>2, <3>2 DEF Tag
      <4> QED BY <4>1 DEF PendingTags
    <3> QED BY <3>1, <3>2
  <2>2. Tag(e, 6) < t BY <1>2, <1>8 DEF Tag
  <2>3. StoreIs(h, e, 6, h.S[Tag(e, 6)]) BY <2>1, StoreAt
  <2> QED BY <1>1, <2>1, <2>2, <2>3 DEF StoreIs
<1> QED BY <1>2, <1>4, <1>6, <1>7, <1>8

-----------------------------------------------------------------------------
(* A store of the producer reaches memory.                                 *)

\* A store of the producer reached memory: the k-th one of element e.
SameButPublished(h, h2) ==
  /\ h2.n = h.n /\ h2.unit = h.unit /\ h2.freed = h.freed /\ h2.front = h.front /\ h2.tail = h.tail
  /\ h2.rel = h.rel /\ h2.got = h.got /\ h2.sent = h.sent /\ h2.block = h.block /\ h2.room = h.room
  /\ h2.grown = h.grown /\ h2.first = h.first /\ h2.base = h.base /\ h2.visit = h.visit
  /\ h2.lt = h.lt /\ h2.lf = h.lf /\ h2.R = h.R
\* Store k of element e reaches memory: the last one publishes the element.
Drained1(h, h2, e, k) ==
  /\ SameButPublished(h, h2)
  /\ h2.pub = IF k = 7 THEN e ELSE h.pub
  /\ h2.shown = IF k = 7 THEN h.visit[e] ELSE h.shown
\* What is known of that store, and of the stores that stay.
Leaves(h, h2, e, k) ==
  /\ e \in (h.pub + 1)..h.sent /\ k \in {1, 2, 3, 4, 5, 7}
  /\ k \in Kinds(h, e) /\ e \in Nat /\ e \in 1..h.sent
  /\ k \in {3, 4, 5, 7} => e = h.pub + 1 /\ \A j \in {3, 4, 5} : j < k => Tag(e, j) \notin DOMAIN h.S
  /\ k = 7 => \A j \in 1..6 : Tag(e, j) \notin DOMAIN h.S
  /\ Tag(e, k) \in DOMAIN h.S
  /\ StoreIs(h, e, k, h.S[Tag(e, k)])
  /\ After(h.S, Tag(e, k), h2.S)
  /\ Drained1(h, h2, e, k)

\* Every other store but a fence stays.
LEMMA TagKept ==
  ASSUME NEW h, NEW h2, NEW e, NEW k, Shape(h), Pend(h), Leaves(h, h2, e, k),
         NEW d \in (h.pub + 1)..h.sent, NEW j \in 1..7, j # 6
  PROVE  Tag(d, j) \in DOMAIN h2.S <=> Tag(d, j) \in DOMAIN h.S /\ (d # e \/ j # k)
<1>0. h.pub \in Nat /\ h.sent \in Nat /\ d \in Nat /\ e \in Nat /\ k \in 1..7
  BY ShapeFacts DEF Leaves
<1>1. /\ DOMAIN h2.S \subseteq DOMAIN h.S \ {Tag(e, k)}
      /\ \A u \in DOMAIN h.S : u = Tag(e, k) \/ u \in DOMAIN h2.S \/ h.S[u] = Fence
  BY DEF Leaves, After
<1>2. Tag(d, j) = Tag(e, k) <=> d = e /\ j = k BY <1>0 DEF Tag
<1>3. ASSUME Tag(d, j) \in DOMAIN h.S PROVE h.S[Tag(d, j)] # Fence
  <2>1. StoreIs(h, d, j, h.S[Tag(d, j)]) BY <1>3, StoreAt DEF Pend
  <2> QED BY <2>1, StoreFields
<1> QED BY <1>1, <1>2, <1>3

\* Publishing stays in the visit of the tail block, or opens the next one.
LEMMA PublishVisit ==
  ASSUME NEW h, NEW h2, NEW e, Shape(h), Pend(h), Leaves(h, h2, e, 7)
  PROVE  /\ h.visit[e] = IF Begins(h, e) THEN h.shown + 1 ELSE h.shown
         /\ h.visit[e] \in 1..h.tail /\ h.first[h.visit[e]] <= e /\ e + 1 <= h.first[h.visit[e] + 1]
         /\ e = h.pub + 1 /\ e <= h.sent
<1>1. e = h.pub + 1 /\ e \in 1..h.sent /\ e \in Nat BY DEF Leaves
<1>2. /\ h.pub \in Nat /\ h.sent \in Nat /\ h.tail \in Nat /\ h.shown \in Nat /\ h.shown <= h.tail /\ h.shown >= 1
  BY ShapeFacts
<1>3. PICK v : v = h.visit[e] OBVIOUS
<1>4. /\ v \in 1..h.tail /\ v \in 1..(h.tail + 1) /\ v + 1 \in 1..(h.tail + 1) /\ h.first[v] <= e /\ e < h.first[v + 1]
  BY <1>1, <1>3, VisitType
<1>5. h.first[v] \in Nat /\ h.first[v + 1] \in Nat BY <1>4, FirstType
<1>6. h.shown <= v BY <1>1, <1>2, <1>3, VisitsOf
<1>7. h.pub + 1 <= h.first[h.shown + 1] /\ h.shown + 1 \in 1..(h.tail + 1)
  BY <1>2 DEF Shape, Positions
<1>8. h.first[h.shown + 1] \in Nat BY <1>7, FirstType
<1>9. v = h.shown => ~ Begins(h, e)
  <2>1. e > h.pub /\ h.visit[e] = h.shown => ~ Begins(h, e) BY <1>1, VisitsOf
  <2> QED BY <1>1, <1>2, <1>3, <2>1
<1>10. ASSUME h.shown < v PROVE Begins(h, e) /\ v = h.shown + 1
  <2>1. h.first[h.shown + 1] <= h.first[v] BY <1>2, <1>4, <1>7, <1>10, FirstMonotone
  <2>2. h.first[v] = e /\ h.first[h.shown + 1] = e BY <1>1, <1>2, <1>4, <1>5, <1>7, <1>8, <2>1
  <2>3. Begins(h, e) BY <1>2, <1>3, <1>4, <1>10, <2>2 DEF Begins
  <2>4. v = h.shown + 1
    <3> SUFFICES ASSUME v # h.shown + 1 PROVE FALSE OBVIOUS
    <3>1. h.shown + 2 \in 1..(h.tail + 1) /\ h.shown + 2 <= v /\ h.shown + 1 \in 2..h.tail /\ (h.shown + 1) + 1 = h.shown + 2
      BY <1>2, <1>4, <1>10
    <3>2. h.first[h.shown + 1] < h.first[h.shown + 2] BY <3>1 DEF Shape, Visits
    <3>3. h.first[h.shown + 2] <= h.first[v] BY <1>4, <3>1, FirstMonotone
    <3>4. h.first[h.shown + 2] \in Nat BY <3>1, FirstType
    <3> QED BY <1>5, <1>8, <2>2, <3>2, <3>3, <3>4
  <2> QED BY <2>3, <2>4
<1> QED BY <1>1, <1>2, <1>3, <1>4, <1>5, <1>6, <1>9, <1>10

\* The tails in memory after that store.
LEMMA DrainTails ==
  ASSUME NEW h, NEW h2, NEW e, NEW k, Shape(h), Pend(h), Leaves(h, h2, e, k),
         NEW v \in h.freed..h.tail
  PROVE  MemTail(h2, v) = IF v = h.visit[e] /\ (k = 3 \/ (k = 7 /\ ~ Begins(h, e))) THEN e + 1 ELSE MemTail(h, v)
<1>0. /\ h.pub \in Nat /\ h.sent \in Nat /\ h.tail \in Nat /\ h.shown \in Nat /\ h.freed \in Nat /\ h.freed >= 1 /\ h.shown <= h.tail
      /\ e \in Nat /\ e \in (h.pub + 1)..h.sent /\ k \in {1, 2, 3, 4, 5, 7} /\ h.pub <= h.sent /\ e \in 1..h.sent /\ h.shown >= 1 /\ h.freed <= h.shown
  BY ShapeFacts DEF Leaves
<1>1. h2.first = h.first /\ h2.tail = h.tail BY DEF Leaves, Drained1, SameButPublished
<1>2. v \in 1..h.tail /\ v \in 1..(h.tail + 1) BY <1>0
<1>3. h.first[v] \in Nat BY <1>2, FirstType
<1>a. h.visit[e] \in 1..h.tail BY <1>0, VisitType
<1>b. k # 7 => h2.pub = h.pub /\ h2.shown = h.shown BY DEF Leaves, Drained1
<1>c. k = 7 => h2.pub = e /\ h2.shown = h.visit[e] BY DEF Leaves, Drained1
<1>4. ASSUME v > h.shown PROVE h.first[v] \in (h.pub + 1)..h.sent /\ h.visit[h.first[v]] = v /\ h.first[v] \in 1..h.sent /\ Begins(h, h.first[v])
  <2>1. v \in 2..h.tail /\ h.shown + 1 \in 1..(h.tail + 1) /\ v + 1 \in 1..(h.tail + 1)
    BY <1>0, <1>2, <1>4
  <2>2. h.first[v] < h.first[v + 1] BY <2>1 DEF Shape, Visits
  <2>3. h.first[h.shown + 1] <= h.first[v] BY <1>0, <1>2, <1>4, <2>1, FirstMonotone
  <2>4. h.pub + 1 <= h.first[h.shown + 1] BY DEF Shape, Positions
  <2>5. h.first[v + 1] <= h.first[h.tail + 1] BY <1>0, <2>1, FirstMonotone
  <2>6. h.first[h.tail + 1] = h.sent + 1 BY DEF Shape, Visits
  <2>7. h.first[v + 1] \in Nat /\ h.first[h.shown + 1] \in Nat BY <2>1, FirstType
  <2>8. h.first[v] \in (h.pub + 1)..h.sent /\ h.first[v] \in 1..h.sent
    BY <1>0, <1>3, <2>2, <2>3, <2>4, <2>5, <2>6, <2>7
  <2>9. h.visit[h.first[v]] = v BY <1>2, <1>3, <2>2, <2>8, VisitIs
  <2> QED BY <2>1, <2>8, <2>9 DEF Begins
<1>5. ASSUME v > h.shown PROVE Tag(h.first[v], 3) \in DOMAIN h2.S <=> Tag(h.first[v], 3) \in DOMAIN h.S /\ (h.first[v] # e \/ k # 3)
  BY <1>4, <1>5, TagKept
<1>6. CASE k \in {1, 2, 4, 5}
  <2>1. k # 3 /\ k # 7 BY <1>6
  <2>2. v > h.shown => (Tag(h.first[v], 3) \in DOMAIN h2.S <=> Tag(h.first[v], 3) \in DOMAIN h.S)
    BY <1>5, <2>1
  <2>3. h2.pub = h.pub /\ h2.shown = h.shown BY <1>b, <2>1
  <2>4. MemTail(h2, v) = MemTail(h, v) BY <1>0, <1>1, <2>2, <2>3 DEF MemTail
  <2> QED BY <2>1, <2>4
<1>7. CASE k = 3
  <2>1. Begins(h, e) BY <1>7, KindsFacts DEF Leaves
  <2>2. e = h.first[h.visit[e]] /\ h.visit[e] > 1 BY <2>1 DEF Begins
  <2>3. h.visit[e] > h.shown
    <3>1. h.shown <= h.visit[e] /\ (h.visit[e] = h.shown => ~ Begins(h, e)) BY <1>0, VisitsOf
    <3> QED BY <1>0, <1>a, <2>1, <3>1
  <2>4. CASE v = h.visit[e]
    <3>1. Tag(h.first[v], 3) \notin DOMAIN h2.S BY <1>5, <1>7, <2>2, <2>3, <2>4
    <3> QED BY <1>0, <1>1, <1>7, <1>b, <2>2, <2>3, <2>4, <3>1 DEF MemTail
  <2>5. CASE v # h.visit[e]
    <3>1. v > h.shown => h.first[v] # e BY <1>4, <2>5
    <3>2. v > h.shown => (Tag(h.first[v], 3) \in DOMAIN h2.S <=> Tag(h.first[v], 3) \in DOMAIN h.S)
      BY <1>5, <3>1
    <3> QED BY <1>0, <1>1, <1>7, <1>b, <2>5, <3>2 DEF MemTail
  <2> QED BY <2>4, <2>5
<1>8. CASE k = 7
  <2>0. Leaves(h, h2, e, 7) BY <1>8
  <2>1. /\ h.visit[e] = IF Begins(h, e) THEN h.shown + 1 ELSE h.shown
        /\ h.first[h.visit[e]] <= e /\ e + 1 <= h.first[h.visit[e] + 1] /\ e = h.pub + 1
    BY <2>0, PublishVisit
  <2>2. v > h.shown => (Tag(h.first[v], 3) \in DOMAIN h2.S <=> Tag(h.first[v], 3) \in DOMAIN h.S)
    BY <1>5, <1>8
  <2>3. CASE ~ Begins(h, e)
    BY <1>0, <1>1, <1>8, <1>c, <2>1, <2>2, <2>3 DEF MemTail
  <2>4. CASE Begins(h, e)
    <3>1. e = h.first[h.visit[e]] BY <2>4 DEF Begins
    <3>2. h.visit[e] = h.shown + 1 BY <2>1, <2>4
    <3>3. Tag(e, 3) \notin DOMAIN h.S BY <2>0 DEF Leaves
    <3>4. CASE v = h.shown
      <4>1. MemTail(h, v) = h.pub + 1 BY <1>0, <3>4 DEF MemTail
      <4>2. MemTail(h2, v) = h.first[v + 1] BY <1>0, <1>1, <1>8, <1>c, <3>2, <3>4 DEF MemTail
      <4> QED BY <1>8, <2>1, <2>4, <3>1, <3>2, <3>4, <4>1, <4>2
    <3>5. CASE v = h.shown + 1
      <4>1. MemTail(h, v) = e + 1 BY <1>0, <3>1, <3>2, <3>3, <3>5 DEF MemTail
      <4>2. MemTail(h2, v) = e + 1 BY <1>0, <1>1, <1>8, <1>c, <3>2, <3>5 DEF MemTail
      <4> QED BY <1>8, <2>4, <4>1, <4>2
    <3>6. CASE v < h.shown
      BY <1>0, <1>1, <1>8, <1>c, <2>4, <3>2, <3>6 DEF MemTail
    <3>7. CASE v > h.shown + 1
      BY <1>0, <1>1, <1>8, <1>c, <2>2, <2>4, <3>2, <3>7 DEF MemTail
    <3> QED BY <1>0, <3>4, <3>5, <3>6, <3>7
  <2> QED BY <2>3, <2>4
<1> QED BY <1>0, <1>6, <1>7, <1>8

\* A pending store of the producer that reaches memory publishes an element or nothing,
\* and the elements, visits and blocks keep their shape.
LEMMA DrainShape ==
  ASSUME NEW h, NEW h2, NEW e, NEW k, Shape(h), Pend(h), Leaves(h, h2, e, k)
  PROVE  Shape(h2)
<1>0. SameButPublished(h, h2) BY DEF Leaves, Drained1
<1>1. LastVisit(h2) = LastVisit(h) BY <1>0 DEF LastVisit, SameButPublished
<1>2. Circular(h2) BY <1>0, <1>1 DEF Shape, Circular, SameButPublished
<1>3. Visits(h2) BY <1>0, <1>1 DEF Shape, Visits, SameButPublished
<1>4. /\ h.pub \in Nat /\ h.sent \in Nat /\ h.tail \in Nat /\ h.shown \in Nat /\ h.freed \in Nat /\ h.freed >= 1 /\ h.shown <= h.tail
      /\ h.front \in Nat /\ h.front <= h.shown /\ h.got \in Nat /\ h.got <= h.pub
      /\ e \in Nat /\ e \in (h.pub + 1)..h.sent /\ k \in {1, 2, 3, 4, 5, 7} /\ h.pub <= h.sent /\ e \in 1..h.sent
      /\ h.freed <= h.front
  BY ShapeFacts DEF Leaves
<1>5. /\ h2.pub \in Nat /\ h2.shown \in Nat /\ h.pub <= h2.pub /\ h2.pub <= h.sent /\ h.shown <= h2.shown /\ h2.shown <= h.tail
      /\ h.first[h2.shown] <= h2.pub + 1 /\ h2.pub + 1 <= h.first[h2.shown + 1] /\ (h2.shown > 1 => h.first[h2.shown] <= h2.pub)
  <2>1. CASE k # 7
    <3>1. h2.pub = h.pub /\ h2.shown = h.shown BY <2>1 DEF Leaves, Drained1
    <3> QED BY <1>4, <3>1 DEF Shape, Positions
  <2>2. CASE k = 7
    <3>0. Leaves(h, h2, e, 7) BY <2>2
    <3>1. /\ h.visit[e] = IF Begins(h, e) THEN h.shown + 1 ELSE h.shown
          /\ h.visit[e] \in 1..h.tail /\ h.first[h.visit[e]] <= e /\ e + 1 <= h.first[h.visit[e] + 1]
          /\ e = h.pub + 1 /\ e <= h.sent
      BY <3>0, PublishVisit
    <3>2. h2.pub = e /\ h2.shown = h.visit[e] BY <2>2 DEF Leaves, Drained1
    <3>3. h.first[h.visit[e]] \in Nat
      <4>1. h.visit[e] \in 1..(h.tail + 1) BY <1>4, <3>1
      <4> QED BY <4>1, FirstType
    <3> QED BY <1>4, <3>1, <3>2, <3>3
  <2> QED BY <2>1, <2>2
<1>6. Counters(h2)
  BY <1>0, <1>1, <1>4, <1>5 DEF Shape, Counters, SameButPublished
<1>7. \A v : MemFront(h2, v) = MemFront(h, v) BY <1>0 DEF SameButPublished, MemFront
<1>8. h2.lt \in Nat /\ h2.got + 1 <= h2.lt /\ h2.lt <= MemTail(h2, h2.front)
  <2>1. h.lt \in Nat /\ h.got + 1 <= h.lt /\ h.lt <= MemTail(h, h.front) BY DEF Shape, Positions
  <2>2. h.front \in h.freed..h.tail BY <1>4
  <2>3. MemTail(h2, h.front) = IF h.front = h.visit[e] /\ (k = 3 \/ (k = 7 /\ ~ Begins(h, e))) THEN e + 1 ELSE MemTail(h, h.front)
    BY <2>2, DrainTails
  <2>4. h.front = h.visit[e] => MemTail(h, h.front) <= e + 1
    <3>1. Ordered(h, h.front) BY <2>2, OrderedVisits
    <3>2. MemTail(h, h.front) <= h.pub + 1 /\ MemTail(h, h.front) \in Nat BY <1>4, <3>1 DEF Ordered
    <3> QED BY <1>4, <3>2
  <2>5. MemTail(h, h.front) \in Nat BY <2>2, OrderedVisits DEF Ordered
  <2>6. h.lt <= MemTail(h2, h.front) BY <1>4, <2>1, <2>3, <2>4, <2>5
  <2> QED BY <1>0, <2>1, <2>6 DEF SameButPublished
<1>9. Positions(h2)
  BY <1>0, <1>5, <1>7, <1>8 DEF Shape, Positions, SameButPublished
<1> QED BY <1>2, <1>3, <1>6, <1>9 DEF Shape

\* Two visits do not begin with the same element.
LEMMA FirstStrict ==
  ASSUME NEW h, Shape(h), NEW v \in 1..h.tail, NEW w \in 1..h.tail, v < w
  PROVE  h.first[v] < h.first[w]
<1>1. h.unit \in Nat /\ h.unit >= 1 /\ h.tail \in Nat BY ShapeFacts
<1>2. v \in 1..(h.tail + 1) /\ w \in 1..(h.tail + 1) /\ w - v \in Nat /\ w - v >= 1 BY <1>1
<1>3. h.first[v] \in Nat /\ h.first[w] \in Nat BY <1>2, FirstType
<1>4. h.first[w] - h.first[v] >= (w - v) * h.unit BY <1>2 DEF Shape, Visits
<1>5. PICK a \in Nat : a = w - v /\ a >= 1 BY <1>2
<1>6. PICK u \in Nat : u = h.unit /\ u >= 1 BY <1>1
<1>7. a * u >= 1
  <2>1. a * u \in Int BY <1>5, <1>6
  <2>2. u >= 1 => a * u >= a * 1 BY <1>5, <1>6
  <2> QED BY <1>5, <1>6, <2>1, <2>2
<1>8. h.first[w] - h.first[v] >= a * u BY <1>4, <1>5, <1>6
<1>9. a * u \in Int BY <1>5, <1>6
<1> QED BY <1>3, <1>7, <1>8, <1>9

\* Only the visits not shown yet have stores of their own pending.
LEMMA OpenVisit ==
  ASSUME NEW h, Shape(h), Pend(h), NEW w \in 1..h.tail, NEW j \in {2, 3, 4, 5},
         Tag(h.first[w], j) \in DOMAIN h.S
  PROVE  /\ w > h.shown /\ h.visit[h.first[w]] = w /\ Begins(h, h.first[w])
         /\ h.first[w] \in (h.pub + 1)..h.sent /\ h.first[w] \in 1..h.sent /\ j \in Kinds(h, h.first[w])
         /\ j # 3 => w \in h.grown
<1>1. /\ h.tail \in Nat /\ h.shown \in Nat /\ h.pub \in Nat /\ h.sent \in Nat BY ShapeFacts
<1>2. w \in 1..(h.tail + 1) BY <1>1
<1>3. h.first[w] \in Nat BY <1>2, FirstType
<1>4. PICK d \in (h.pub + 1)..h.sent : \E k \in Kinds(h, d) : Tag(h.first[w], j) = Tag(d, k)
  BY DEF Pend, PendingTags
<1>5. PICK k \in Kinds(h, d) : Tag(h.first[w], j) = Tag(d, k) BY <1>4
<1>6. k \in 1..7 BY KindsFacts
<1>7. d \in Nat /\ d \in 1..h.sent /\ d > h.pub BY <1>1
<1>8. d = h.first[w] /\ k = j BY <1>3, <1>5, <1>6, <1>7 DEF Tag
<1>9. Begins(h, d) /\ (j # 3 => h.visit[d] \in h.grown) BY <1>5, <1>8, KindsFacts
<1>10. h.visit[d] \in 1..h.tail BY <1>7, VisitType
<1>11. d = h.first[h.visit[d]] BY <1>9 DEF Begins
<1>12. h.visit[d] = w
  <2>1. ~ (h.visit[d] < w) BY <1>3, <1>8, <1>10, <1>11, FirstStrict
  <2>2. ~ (w < h.visit[d]) BY <1>3, <1>8, <1>10, <1>11, FirstStrict
  <2> QED BY <1>10, <2>1, <2>2
<1>13. h.shown <= h.visit[d]
  <2>1. d > h.pub => h.shown <= h.visit[d] BY <1>7, VisitsOf
  <2> QED BY <1>7, <2>1
<1>14. h.visit[d] # h.shown
  <2>1. d > h.pub /\ h.visit[d] = h.shown => ~ Begins(h, d) BY <1>7, VisitsOf
  <2> QED BY <1>7, <1>9, <2>1
<1>15. w > h.shown BY <1>1, <1>10, <1>12, <1>13, <1>14
<1> QED BY <1>5, <1>7, <1>8, <1>9, <1>12, <1>15

\* The blocks of the visits not taken back, and where locations are.
LEMMA Places ==
  /\ \A a, b : <<"tail", a>> = <<"tail", b>> <=> a = b
  /\ \A a, b : <<"front", a>> = <<"front", b>> <=> a = b
  /\ \A a, b : <<"next", a>> = <<"next", b>> <=> a = b
  /\ \A a, b : <<"localTail", a>> = <<"localTail", b>> <=> a = b
  /\ \A a, b, i, j : <<"data", a, i>> = <<"data", b, j>> <=> a = b /\ i = j
OBVIOUS

\* Fields of different kinds are different places, and so are those of different blocks.
LEMMA PlacesDiffer ==
  /\ \A a, b : /\ <<"tail", a>> # <<"front", b>> /\ <<"tail", a>> # <<"next", b>> /\ <<"tail", a>> # <<"localTail", b>>
               /\ <<"front", a>> # <<"next", b>> /\ <<"front", a>> # <<"localTail", b>> /\ <<"next", a>> # <<"localTail", b>>
  /\ \A a, b, i : /\ <<"data", a, i>> # <<"tail", b>> /\ <<"data", a, i>> # <<"front", b>>
                  /\ <<"data", a, i>> # <<"next", b>> /\ <<"data", a, i>> # <<"localTail", b>>
  /\ \A a : /\ <<"tail", a>> # <<"tailBlock">> /\ <<"tail", a>> # <<"frontBlock">>
            /\ <<"front", a>> # <<"tailBlock">> /\ <<"front", a>> # <<"frontBlock">>
            /\ <<"next", a>> # <<"tailBlock">> /\ <<"next", a>> # <<"frontBlock">>
            /\ <<"localTail", a>> # <<"tailBlock">> /\ <<"localTail", a>> # <<"frontBlock">>
  /\ \A a, i : <<"data", a, i>> # <<"tailBlock">> /\ <<"data", a, i>> # <<"frontBlock">>
  /\ <<"tailBlock">> # <<"frontBlock">>
OBVIOUS

\* Every field of a block is a place in memory.
LEMMA PlacesOf ==
  /\ \A b \in Blocks : <<"tail", b>> \in Locations /\ <<"front", b>> \in Locations
                       /\ <<"next", b>> \in Locations /\ <<"localTail", b>> \in Locations
  /\ \A b \in Blocks, i \in Slots : <<"data", b, i>> \in Locations
  /\ <<"tailBlock">> \in Locations /\ <<"frontBlock">> \in Locations
BY DEF Locations

\* Memory after x was written to l.
Wrote(m, m2, l, x) == \A k \in Locations : m2[k] = IF k = l THEN x ELSE m[k]
\* The same fronts.
SameFronts(C, C2) == C2[<<"frontBlock">>] = C[<<"frontBlock">>] /\ \A b \in Blocks : C2[<<"front", b>>] = C[<<"front", b>>]
\* The blocks and slots of the history are those of the queue.
Fits(h) == 1..h.n \subseteq Blocks /\ \A v \in 1..LastVisit(h) : 0..(h.room[v] - 1) \subseteq Slots

\* The block of a visit has places in memory.
LEMMA BlockFits ==
  ASSUME NEW h, Shape(h), Fits(h), NEW v \in 1..LastVisit(h)
  PROVE  h.block[v] \in Blocks /\ h.block[v] \in 1..h.n
BY BlockType DEF Fits

\* A fence may leave with the store before it.
LEMMA FenceKept ==
  ASSUME NEW h, NEW h2, NEW e, NEW k, Shape(h), Pend(h), Leaves(h, h2, e, k), NEW u \in DOMAIN h.S,
         NEW t \in DOMAIN h2.S, t < u, DOMAIN h.S \subseteq Nat, u # Tag(e, k)
  PROVE  u \in DOMAIN h2.S
<1>1. t \in DOMAIN h.S /\ t # Tag(e, k) BY DEF Leaves, After
<1>2. u \in DOMAIN h2.S \/ \A w \in DOMAIN h.S : w = Tag(e, k) \/ u <= w BY DEF Leaves, After
<1>3. t \in Nat /\ u \in Nat BY <1>1
<1> QED BY <1>1, <1>2, <1>3

\* The tags of the producer's stores are numbers.
LEMMA TagsAreNat ==
  ASSUME NEW h, Shape(h), PendingTags(h)
  PROVE  DOMAIN h.S \subseteq Nat
<1> SUFFICES ASSUME NEW t \in DOMAIN h.S PROVE t \in Nat OBVIOUS
<1>1. PICK e \in (h.pub + 1)..h.sent : \E k \in Kinds(h, e) : t = Tag(e, k) BY DEF PendingTags
<1>2. PICK k \in Kinds(h, e) : t = Tag(e, k) BY <1>1
<1>3. k \in 1..7 BY KindsFacts
<1>4. h.pub \in Nat /\ h.sent \in Nat BY ShapeFacts
<1> QED BY <1>2, <1>3, <1>4 DEF Tag

\* A store that reaches memory changes neither elements nor blocks.
LEMMA DrainKinds ==
  ASSUME NEW h, NEW h2, NEW e, NEW k, Leaves(h, h2, e, k)
  PROVE  /\ \A d : Begins(h2, d) <=> Begins(h, d)
         /\ \A d : Kinds(h2, d) = Kinds(h, d)
         /\ \A v, x : IndexOf(h2, v, x) = IndexOf(h, v, x)
         /\ LastVisit(h2) = LastVisit(h)
         /\ \A v : NextOf(h2, v) = NextOf(h, v)
<1>1. SameButPublished(h, h2) BY DEF Leaves, Drained1
<1>2. \A d : Begins(h2, d) <=> Begins(h, d) BY <1>1 DEF Begins, SameButPublished
<1>3. \A d : Kinds(h2, d) = Kinds(h, d) BY <1>1, <1>2 DEF Kinds, SameButPublished
<1>4. \A v, x : IndexOf(h2, v, x) = IndexOf(h, v, x) BY <1>1 DEF IndexOf, SameButPublished
<1>5. LastVisit(h2) = LastVisit(h) BY <1>1 DEF LastVisit, SameButPublished
<1>6. \A v : NextOf(h2, v) = NextOf(h, v) BY <1>1, <1>5 DEF NextOf, SameButPublished
<1> QED BY <1>2, <1>3, <1>4, <1>5, <1>6

\* What still waits after a store reached memory are stores of unpublished elements,
\* none without the later ones of its element.
LEMMA DrainTags ==
  ASSUME NEW h, NEW h2, NEW e, NEW k, Shape(h), Pend(h), Leaves(h, h2, e, k)
  PROVE  PendingTags(h2)
<1>0. /\ h.pub \in Nat /\ h.sent \in Nat /\ h2.sent = h.sent /\ e \in Nat /\ e \in (h.pub + 1)..h.sent /\ k \in 1..7
      /\ h2.pub \in Nat /\ h.pub <= h2.pub /\ (k # 7 => h2.pub = h.pub) /\ (k = 7 => h2.pub = e /\ e = h.pub + 1)
  BY ShapeFacts DEF Leaves, Drained1, SameButPublished
<1>1. DOMAIN h2.S \subseteq DOMAIN h.S \ {Tag(e, k)} BY DEF Leaves, After
<1>2. \A d : Kinds(h2, d) = Kinds(h, d) BY DrainKinds
<1>3. DOMAIN h.S \subseteq Nat BY TagsAreNat DEF Pend
<1>4. (h2.pub + 1)..h2.sent \subseteq (h.pub + 1)..h.sent /\ \A d \in (h2.pub + 1)..h2.sent : k = 7 => d # e
  BY <1>0
<1>5. ASSUME NEW t \in DOMAIN h2.S PROVE \E d \in (h2.pub + 1)..h2.sent : \E j \in Kinds(h2, d) : t = Tag(d, j)
  <2>0. t \in DOMAIN h.S /\ t # Tag(e, k) BY <1>1
  <2>1. PICK d \in (h.pub + 1)..h.sent : \E j \in Kinds(h, d) : t = Tag(d, j)
    BY <2>0 DEF Pend, PendingTags
  <2>2. PICK j \in Kinds(h, d) : t = Tag(d, j) BY <2>1
  <2>3. j \in 1..7 BY KindsFacts
  <2>4. d \in (h2.pub + 1)..h2.sent
    <3>1. CASE k # 7 BY <1>0, <3>1
    <3>2. CASE k = 7
      <4>1. \A i \in 1..6 : Tag(e, i) \notin DOMAIN h.S BY <3>2 DEF Leaves
      <4>2. d # e BY <2>0, <2>2, <2>3, <3>2, <4>1
      <4> QED BY <1>0, <3>2, <4>2
    <3> QED BY <3>1, <3>2
  <2> QED BY <1>2, <2>2, <2>4
<1>6. ASSUME NEW d \in (h2.pub + 1)..h2.sent PROVE Tag(d, 7) \in DOMAIN h2.S
  <2>1. d \in (h.pub + 1)..h.sent /\ (k = 7 => d # e) BY <1>4
  <2>2. Tag(d, 7) \in DOMAIN h.S BY <2>1 DEF Pend, PendingTags
  <2> QED BY <2>1, <2>2, TagKept
<1>7. ASSUME NEW d \in (h2.pub + 1)..h2.sent, NEW t \in DOMAIN h2.S, t < Tag(d, 6) PROVE Tag(d, 6) \in DOMAIN h2.S
  <2>1. d \in (h.pub + 1)..h.sent /\ d \in Nat BY <1>0, <1>4
  <2>2. t \in DOMAIN h.S BY <1>1
  <2>3. Tag(d, 6) \in DOMAIN h.S BY <1>7, <2>1, <2>2 DEF Pend, PendingTags
  <2>4. Tag(d, 6) # Tag(e, k)
    <3>1. k # 6 BY DEF Leaves
    <3> QED BY <1>0, <2>1, <3>1 DEF Tag
  <2> QED BY <1>3, <1>7, <2>3, <2>4, FenceKept
<1>8. ASSUME NEW d \in (h2.pub + 1)..h2.sent, NEW b \in (h2.pub + 1)..h2.sent,
             NEW i \in Kinds(h2, d) \cap {3, 4, 5, 7},
             NEW j \in Kinds(h2, b) \cap {3, 4, 5, 7}, Tag(d, i) < Tag(b, j),
             Tag(d, i) \in DOMAIN h2.S
      PROVE  Tag(b, j) \in DOMAIN h2.S
  <2>1. /\ d \in (h.pub + 1)..h.sent /\ d \in Nat /\ b \in (h.pub + 1)..h.sent /\ b \in Nat
    BY <1>0, <1>4
  <2>2. i \in Kinds(h, d) \cap {3, 4, 5, 7} /\ j \in Kinds(h, b) \cap {3, 4, 5, 7} BY <1>2
  <2>3. Tag(d, i) \in DOMAIN h.S BY <1>1, <1>8
  <2>4. Tag(b, j) \in DOMAIN h.S BY <1>8, <2>1, <2>2, <2>3 DEF Pend, PendingTags
  <2>5. b # e \/ j # k
    <3> SUFFICES ASSUME b = e, j = k PROVE FALSE OBVIOUS
    <3>1. e = h.pub + 1 /\ \A l \in {3, 4, 5} : l < k => Tag(e, l) \notin DOMAIN h.S
      BY <2>2 DEF Leaves
    <3>2. d = e /\ i < k BY <1>0, <1>8, <2>1, <2>2, <3>1 DEF Tag
    <3>3. i \in {3, 4, 5} BY <1>0, <2>2, <3>2
    <3> QED BY <2>3, <3>1, <3>2, <3>3
  <2>6. j \in 1..7 /\ j # 6 BY <2>2
  <2> QED BY <2>1, <2>4, <2>5, <2>6, TagKept
<1> QED BY <1>5, <1>6, <1>7, <1>8 DEF PendingTags

\* Which next pointers are right does not change, but for the one written.
LEMMA DrainLink ==
  ASSUME NEW h, NEW h2, NEW e, NEW k, Shape(h), Pend(h), Leaves(h, h2, e, k),
         NEW v \in h.freed..LastVisit(h), NEW b, Link(h, v, b),
         ~ (k = 5 /\ v < h.tail /\ e = h.first[v + 1])
  PROVE  Link(h2, v, b)
<1>0. /\ h.freed \in Nat /\ 1 <= h.freed /\ h.tail \in Nat /\ LastVisit(h) \in Nat BY ShapeFacts
<1>1. SameButPublished(h, h2) BY DEF Leaves, Drained1
<1>2. DOMAIN h2.S \subseteq DOMAIN h.S BY DEF Leaves, After
<1>3. LastVisit(h2) = LastVisit(h) /\ NextOf(h2, v) = NextOf(h, v) BY DrainKinds
<1>4. ASSUME v < h.tail PROVE Tag(h.first[v + 1], 5) \in DOMAIN h2.S <=> Tag(h.first[v + 1], 5) \in DOMAIN h.S
  <2>1. v + 1 \in 1..h.tail BY <1>0, <1>4
  <2>2. ASSUME Tag(h.first[v + 1], 5) \in DOMAIN h.S PROVE Tag(h.first[v + 1], 5) \in DOMAIN h2.S
    <3>1. h.first[v + 1] \in (h.pub + 1)..h.sent BY <2>1, <2>2, OpenVisit
    <3>2. h.first[v + 1] # e \/ 5 # k BY <1>4
    <3> QED BY <2>2, <3>1, <3>2, TagKept
  <2> QED BY <1>2, <2>2
<1>5. \A w : Linked(h, w) => Linked(h2, w) BY <1>1, <1>2 DEF Linked, SameButPublished
<1>6. Stale(h, v, b) => Stale(h2, v, b) BY <1>1, <1>3, <1>5 DEF Stale, SameButPublished
<1>7. h2.tail = h.tail /\ h2.first = h.first BY <1>1 DEF SameButPublished
<1> QED BY <1>3, <1>4, <1>6, <1>7 DEF Link

\* And each of them is still the store it was.
LEMMA DrainStores ==
  ASSUME NEW h, NEW h2, NEW e, NEW k, Shape(h), Pend(h), Leaves(h, h2, e, k)
  PROVE  PendingStores(h2)
<1>0. /\ h.pub \in Nat /\ h.sent \in Nat /\ h2.sent = h.sent /\ e \in Nat /\ e \in (h.pub + 1)..h.sent /\ k \in 1..7
      /\ h2.pub \in Nat /\ h.pub <= h2.pub /\ h.freed \in Nat /\ h.tail <= LastVisit(h) /\ h.tail \in Nat /\ LastVisit(h) \in Nat
      /\ h.freed <= h.front /\ h.front <= h.shown /\ h.freed >= 1 /\ h.front \in Nat /\ h.shown \in Nat
  BY ShapeFacts DEF Leaves, Drained1, SameButPublished
<1>1. SameButPublished(h, h2) BY DEF Leaves, Drained1
<1>2. PendingTags(h2) BY DrainTags
<1>3. \A d \in (h2.pub + 1)..h2.sent : Tag(d, 7) \in DOMAIN h2.S BY <1>2 DEF PendingTags
<1>4. ASSUME NEW d \in (h2.pub + 1)..h2.sent, NEW j \in 1..7, Tag(d, j) \in DOMAIN h2.S
      PROVE  StoreIs(h2, d, j, h2.S[Tag(d, j)])
  <2>1. d \in (h.pub + 1)..h.sent /\ d \in 1..h.sent /\ d \in Nat BY <1>0
  <2>2. Tag(d, j) \in DOMAIN h.S /\ h2.S[Tag(d, j)] = h.S[Tag(d, j)] BY <1>4 DEF Leaves, After
  <2>3. PICK x : x = h.S[Tag(d, j)] OBVIOUS
  <2>4. StoreIs(h, d, j, x) BY <2>1, <2>2, <2>3, StoreAt DEF Pend
  <2>5. (Begins(h2, d) <=> Begins(h, d)) /\ \A v, y : IndexOf(h2, v, y) = IndexOf(h, v, y)
    BY DrainKinds
  <2>6. h2.block = h.block /\ h2.visit = h.visit BY <1>1 DEF SameButPublished
  <2>7. j = 4 /\ Link(h, h.visit[d], x.val) => Link(h2, h.visit[d], x.val)
    <3> SUFFICES ASSUME j = 4, Link(h, h.visit[d], x.val) PROVE Link(h2, h.visit[d], x.val) OBVIOUS
    <3>1. h.visit[d] \in 1..h.tail /\ d < h.first[h.visit[d] + 1] BY <2>1, VisitType
    <3>2. h.shown <= h.visit[d]
      <4>1. d > h.pub => h.shown <= h.visit[d] BY <2>1, VisitsOf
      <4> QED BY <1>0, <2>1, <4>1
    <3>3. h.visit[d] \in h.freed..LastVisit(h) BY <1>0, <3>1, <3>2
    <3>4. ~ (k = 5 /\ h.visit[d] < h.tail /\ e = h.first[h.visit[d] + 1])
      <4>1. k = 5 => e = h.pub + 1 BY DEF Leaves
      <4> QED BY <1>0, <2>1, <3>1, <4>1
    <3> QED BY <3>3, <3>4, DrainLink
  <2>8. StoreIs(h2, d, j, x) BY <2>4, <2>5, <2>6, <2>7 DEF StoreIs
  <2> QED BY <2>2, <2>3, <2>8
<1> QED BY <1>3, <1>4, StoresFromParts

\* A pending store is one of an element not published.
LEMMA TagOf ==
  ASSUME NEW h, Shape(h), Pend(h), NEW d \in Nat, NEW j \in 1..7, Tag(d, j) \in DOMAIN h.S
  PROVE  d \in (h.pub + 1)..h.sent /\ j \in Kinds(h, d)
<1>1. PICK e \in (h.pub + 1)..h.sent : \E k \in Kinds(h, e) : Tag(d, j) = Tag(e, k)
  BY DEF Pend, PendingTags
<1>2. PICK k \in Kinds(h, e) : Tag(d, j) = Tag(e, k) BY <1>1
<1>3. k \in 1..7 BY KindsFacts
<1>4. h.pub \in Nat /\ h.sent \in Nat /\ e \in Nat BY ShapeFacts
<1>5. d = e /\ j = k BY <1>2, <1>3, <1>4 DEF Tag
<1> QED BY <1>5

\* Where an element not yet taken is.
LEMMA DataPlace ==
  ASSUME NEW h, Shape(h), Fits(h), NEW d \in 1..h.sent, d > h.got
  PROVE  /\ h.visit[d] \in h.freed..h.tail /\ h.visit[d] \in h.front..h.tail
         /\ <<"data", h.block[h.visit[d]], IndexOf(h, h.visit[d], d)>> \in Locations
         /\ MemFront(h, h.visit[d]) <= d /\ d <= h.first[h.visit[d] + 1] /\ OwnFront(h, h.visit[d]) <= d
<1>0. /\ h.freed \in Nat /\ h.freed >= 1 /\ h.front \in Nat /\ h.freed <= h.front /\ h.tail \in Nat /\ LastVisit(h) \in Nat
      /\ h.tail <= LastVisit(h) /\ h.sent \in Nat /\ h.got \in Nat
  BY ShapeFacts
<1>1. /\ h.visit[d] \in 1..h.tail /\ h.first[h.visit[d]] <= d /\ d < h.first[h.visit[d] + 1]
  BY VisitType
<1>2. h.front <= h.visit[d] BY VisitsOf
<1>3. PICK v : v = h.visit[d] OBVIOUS
<1>4. v \in h.freed..h.tail /\ v \in 1..LastVisit(h) BY <1>0, <1>1, <1>2, <1>3
<1>5. h.block[v] \in Blocks BY <1>4, BlockFits
<1>6. IndexOf(h, v, d) \in 0..(h.room[v] - 1) BY <1>4, IndexNext
<1>7. 0..(h.room[v] - 1) \subseteq Slots BY <1>4 DEF Fits
<1>8. <<"data", h.block[v], IndexOf(h, v, d)>> \in Locations BY <1>5, <1>6, <1>7, PlacesOf
<1>9. Ordered(h, v) BY <1>4, OrderedVisits
<1>10. OwnFront(h, v) <= d
  BY <1>0, <1>1, <1>2, <1>3, <1>4 DEF OwnFront
<1>11. MemFront(h, v) <= d BY <1>0, <1>9, <1>10 DEF Ordered
<1>12. d <= h.first[v + 1] BY <1>1, <1>3, <1>9 DEF Ordered
<1> QED BY <1>0, <1>2, <1>3, <1>4, <1>8, <1>10, <1>11, <1>12

\* No two of them share a slot.
LEMMA DataInj ==
  ASSUME NEW h, Shape(h), Fits(h), NEW d \in (h.got + 1)..h.sent, NEW e \in (h.got + 1)..h.sent,
         h.block[h.visit[e]] = h.block[h.visit[d]], IndexOf(h, h.visit[e], e) = IndexOf(h, h.visit[d], d)
  PROVE  d = e
<1>0. h.got \in Nat /\ h.sent \in Nat /\ h.tail \in Nat /\ LastVisit(h) \in Nat /\ h.tail <= LastVisit(h) /\ h.freed \in Nat
  BY ShapeFacts
<1>1. d \in 1..h.sent /\ d > h.got /\ e \in 1..h.sent /\ e > h.got /\ d \in Int /\ e \in Int BY <1>0
<1>2. /\ h.visit[d] \in h.freed..h.tail /\ MemFront(h, h.visit[d]) <= d /\ d <= h.first[h.visit[d] + 1]
  BY <1>1, DataPlace
<1>3. /\ h.visit[e] \in h.freed..h.tail /\ MemFront(h, h.visit[e]) <= e /\ e <= h.first[h.visit[e] + 1]
  BY <1>1, DataPlace
<1>4. h.visit[d] \in h.freed..LastVisit(h) /\ h.visit[e] \in h.freed..LastVisit(h)
  BY <1>0, <1>2, <1>3
<1>5. h.visit[d] = h.visit[e] BY <1>4, BlockInj
<1> QED BY <1>1, <1>2, <1>3, <1>5, IndexInj

\* The types a store that reaches memory leaves alone, and where its element is.
LEMMA DrainCounters ==
  ASSUME NEW h, NEW h2, NEW e, NEW k, Shape(h), Pend(h), Leaves(h, h2, e, k)
  PROVE  /\ h.pub \in Nat /\ h.sent \in Nat /\ h2.sent = h.sent /\ e \in Nat /\ e \in (h.pub + 1)..h.sent /\ k \in 1..7
         /\ h.freed \in Nat /\ h.tail <= LastVisit(h) /\ h.tail \in Nat /\ LastVisit(h) \in Nat /\ h.freed >= 1
         /\ h.freed <= h.front /\ h.front <= h.shown /\ h.shown <= h.tail /\ h.front \in Nat /\ h.shown \in Nat
         /\ h.visit[e] \in h.shown..h.tail /\ h.visit[e] \in 1..h.tail /\ h.visit[e] \in 1..LastVisit(h)
         /\ Begins(h, e) => h.visit[e] > h.shown /\ e = h.first[h.visit[e]]
         /\ h.got \in Nat /\ h.got <= h.pub /\ h.n \in Nat
         /\ SameButPublished(h, h2)
<1>0. /\ h.pub \in Nat /\ h.sent \in Nat /\ e \in Nat /\ e \in (h.pub + 1)..h.sent /\ k \in 1..7
      /\ h.freed \in Nat /\ h.tail <= LastVisit(h) /\ h.tail \in Nat /\ LastVisit(h) \in Nat /\ h.freed >= 1
      /\ h.freed <= h.front /\ h.front <= h.shown /\ h.shown <= h.tail /\ h.front \in Nat /\ h.shown \in Nat
      /\ h.got \in Nat /\ h.got <= h.pub /\ h.n \in Nat
  BY ShapeFacts DEF Leaves
<1>1. SameButPublished(h, h2) BY DEF Leaves, Drained1
<1>2. h2.sent = h.sent BY <1>1 DEF SameButPublished
<1>3. e \in 1..h.sent /\ e > h.pub BY <1>0
<1>4. h.visit[e] \in 1..h.tail BY <1>3, VisitType
<1>5. h.shown <= h.visit[e]
  <2>1. e > h.pub => h.shown <= h.visit[e] BY <1>3, VisitsOf
  <2> QED BY <1>3, <2>1
<1>6. Begins(h, e) => h.visit[e] # h.shown
  <2>1. e > h.pub /\ h.visit[e] = h.shown => ~ Begins(h, e) BY <1>3, VisitsOf
  <2> QED BY <1>3, <2>1
<1>7. Begins(h, e) => e = h.first[h.visit[e]] BY DEF Begins
<1>8. h.visit[e] \in h.shown..h.tail /\ h.visit[e] \in 1..LastVisit(h) /\ (Begins(h, e) => h.visit[e] > h.shown)
  BY <1>0, <1>4, <1>5, <1>6
<1> QED BY <1>0, <1>1, <1>2, <1>4, <1>7, <1>8

\* Where the store goes, by its kind.
LEMMA DrainPlace ==
  ASSUME NEW h, NEW h2, NEW e, NEW k, Shape(h), Pend(h), Leaves(h, h2, e, k), NEW l, NEW x,
         l = h.S[Tag(e, k)].loc, x = h.S[Tag(e, k)].val
  PROVE  /\ k = 1 => l = <<"data", h.block[h.visit[e]], IndexOf(h, h.visit[e], e)>> /\ x = e
         /\ k = 2 => l = <<"localTail", h.block[h.visit[e]]>>
         /\ k = 3 \/ (k = 7 /\ ~ Begins(h, e)) => l = <<"tail", h.block[h.visit[e]]>> /\ x = IndexOf(h, h.visit[e], e + 1)
         /\ k = 4 => l = <<"next", h.block[h.visit[e]]>> /\ Link(h, h.visit[e], x)
         /\ k = 5 => l = <<"next", h.block[h.visit[e] - 1]>> /\ x = h.block[h.visit[e]]
         /\ k = 7 /\ Begins(h, e) => l = <<"tailBlock">> /\ x = h.block[h.visit[e]]
         /\ k \in {2, 3, 4, 5} => Begins(h, e)
         /\ k \in {1, 2, 3, 4, 5, 7}
<1>1. \A a, b : Store(a, b).loc = a /\ Store(a, b).val = b BY DEF Store
<1>2. StoreIs(h, e, k, h.S[Tag(e, k)]) /\ k \in Kinds(h, e) /\ k \in {1, 2, 3, 4, 5, 7}
  BY DEF Leaves
<1>3. k \in {2, 3, 4, 5} => Begins(h, e) BY <1>2, KindsFacts
<1> QED BY <1>1, <1>2, <1>3 DEF StoreIs

\* Memory and the producer agree with the history on tails and tailBlock after a store
\* reached memory: the tail moved on by one element, or opened the block whose tailBlock
\* store is now next.
LEMMA DrainTailViews ==
  ASSUME NEW h, NEW h2, NEW e, NEW k, Shape(h), Pend(h), Fits(h), Leaves(h, h2, e, k), NEW l, NEW x,
         l = h.S[Tag(e, k)].loc, x = h.S[Tag(e, k)].val, NEW m, NEW m2, Wrote(m, m2, l, x), NEW P, TailViews(h, m, P)
  PROVE  TailViews(h2, m2, P)
<1>0. /\ h.pub \in Nat /\ h.sent \in Nat /\ h2.sent = h.sent /\ e \in Nat /\ e \in (h.pub + 1)..h.sent /\ k \in 1..7
      /\ h.freed \in Nat /\ h.tail <= LastVisit(h) /\ h.tail \in Nat /\ LastVisit(h) \in Nat /\ h.freed >= 1
      /\ h.freed <= h.front /\ h.front <= h.shown /\ h.shown <= h.tail /\ h.front \in Nat /\ h.shown \in Nat
      /\ h.visit[e] \in h.shown..h.tail /\ h.visit[e] \in 1..h.tail /\ h.visit[e] \in 1..LastVisit(h)
      /\ SameButPublished(h, h2)
  BY DrainCounters
<1>1. /\ k = 1 => l = <<"data", h.block[h.visit[e]], IndexOf(h, h.visit[e], e)>> /\ x = e
      /\ k = 2 => l = <<"localTail", h.block[h.visit[e]]>>
      /\ k = 3 \/ (k = 7 /\ ~ Begins(h, e)) => l = <<"tail", h.block[h.visit[e]]>> /\ x = IndexOf(h, h.visit[e], e + 1)
      /\ k = 4 => l = <<"next", h.block[h.visit[e]]>>
      /\ k = 5 => l = <<"next", h.block[h.visit[e] - 1]>>
      /\ k = 7 /\ Begins(h, e) => l = <<"tailBlock">> /\ x = h.block[h.visit[e]]
      /\ k \in {1, 2, 3, 4, 5, 7}
  BY DrainPlace
<1>2. /\ h2.block = h.block /\ h2.first = h.first /\ h2.tail = h.tail /\ h2.freed = h.freed
      /\ \A v, y : IndexOf(h2, v, y) = IndexOf(h, v, y)
  BY <1>0, DrainKinds DEF SameButPublished
<1>3. m2[<<"tailBlock">>] = h.block[h2.shown]
  <2>1. m[<<"tailBlock">>] = h.block[h.shown] BY DEF TailViews
  <2>2. <<"tailBlock">> \in Locations BY PlacesOf
  <2>3. CASE k = 7 /\ Begins(h, e)
    <3>1. h2.shown = h.visit[e] BY <2>3 DEF Leaves, Drained1
    <3> QED BY <1>1, <2>2, <2>3, <3>1 DEF Wrote
  <2>4. CASE ~ (k = 7 /\ Begins(h, e))
    <3>1. h2.shown = h.shown
      <4>1. CASE k # 7 BY <4>1 DEF Leaves, Drained1
      <4>2. CASE k = 7
        <5>1. Leaves(h, h2, e, 7) BY <4>2
        <5>2. h.visit[e] = h.shown BY <2>4, <4>2, <5>1, PublishVisit
        <5> QED BY <4>2, <5>2 DEF Leaves, Drained1
      <4> QED BY <4>1, <4>2
    <3>2. l # <<"tailBlock">> BY <1>1, <2>4, PlacesDiffer
    <3> QED BY <2>1, <2>2, <3>1, <3>2 DEF Wrote
  <2> QED BY <2>3, <2>4
<1>4. ASSUME NEW v \in h.freed..h.tail PROVE m2[<<"tail", h.block[v]>>] = IndexOf(h, v, MemTail(h2, v))
  <2>1. MemTail(h2, v) = IF v = h.visit[e] /\ (k = 3 \/ (k = 7 /\ ~ Begins(h, e))) THEN e + 1 ELSE MemTail(h, v)
    BY DrainTails
  <2>2. v \in 1..LastVisit(h) /\ v \in h.freed..LastVisit(h) /\ h.visit[e] \in h.freed..LastVisit(h)
    BY <1>0
  <2>3. <<"tail", h.block[v]>> \in Locations BY <2>2, BlockFits, PlacesOf
  <2>4. m[<<"tail", h.block[v]>>] = IndexOf(h, v, MemTail(h, v)) BY DEF TailViews
  <2>5. CASE k = 3 \/ (k = 7 /\ ~ Begins(h, e))
    <3>1. CASE v = h.visit[e] BY <1>1, <2>1, <2>3, <2>5, <3>1 DEF Wrote
    <3>2. CASE v # h.visit[e]
      <4>1. h.block[v] # h.block[h.visit[e]] BY <2>2, <3>2, BlockInj
      <4>2. l # <<"tail", h.block[v]>> BY <1>1, <2>5, <4>1, Places
      <4> QED BY <2>1, <2>3, <2>4, <3>2, <4>2 DEF Wrote
    <3> QED BY <3>1, <3>2
  <2>6. CASE ~ (k = 3 \/ (k = 7 /\ ~ Begins(h, e)))
    <3>1. l # <<"tail", h.block[v]>> BY <1>1, <2>6, PlacesDiffer
    <3> QED BY <2>1, <2>3, <2>4, <2>6, <3>1 DEF Wrote
  <2> QED BY <2>5, <2>6
<1> QED BY <1>2, <1>3, <1>4 DEF TailViews

\* The fronts, which the consumer writes, are as they were.
LEMMA DrainFrontViews ==
  ASSUME NEW h, NEW h2, NEW e, NEW k, Shape(h), Pend(h), Fits(h), Leaves(h, h2, e, k), NEW l, NEW x,
         l = h.S[Tag(e, k)].loc, x = h.S[Tag(e, k)].val, NEW m, NEW m2, Wrote(m, m2, l, x), NEW C, NEW C2,
         SameFronts(C, C2), FrontViews(h, m, C)
  PROVE  FrontViews(h2, m2, C2)
<1>0. /\ h.freed \in Nat /\ h.tail <= LastVisit(h) /\ h.tail \in Nat /\ LastVisit(h) \in Nat /\ h.freed >= 1
      /\ SameButPublished(h, h2)
  BY DrainCounters
<1>1. \A b : l # <<"front", b>>
  BY DrainPlace, PlacesDiffer
<1>2. l # <<"frontBlock">> BY DrainPlace, PlacesDiffer
<1>3. /\ h2.block = h.block /\ h2.first = h.first /\ h2.tail = h.tail /\ h2.freed = h.freed /\ h2.front = h.front
      /\ h2.rel = h.rel /\ h2.got = h.got /\ \A v, y : IndexOf(h2, v, y) = IndexOf(h, v, y)
  BY <1>0, DrainKinds DEF SameButPublished
<1>4. \A v : MemFront(h2, v) = MemFront(h, v) /\ OwnFront(h2, v) = OwnFront(h, v)
  BY <1>3 DEF MemFront, OwnFront
<1>5. ASSUME NEW v \in h.freed..h.tail PROVE h.block[v] \in Blocks /\ <<"front", h.block[v]>> \in Locations
  <2>1. v \in 1..LastVisit(h) BY <1>0
  <2> QED BY <2>1, BlockFits, PlacesOf
<1>6. \A v \in h.freed..h.tail : C2[<<"front", h.block[v]>>] = C[<<"front", h.block[v]>>] /\ m2[<<"front", h.block[v]>>] = m[<<"front", h.block[v]>>]
  BY <1>1, <1>5 DEF SameFronts, Wrote
<1>7. C2[<<"frontBlock">>] = C[<<"frontBlock">>] /\ m2[<<"frontBlock">>] = m[<<"frontBlock">>]
  BY <1>2, PlacesOf DEF SameFronts, Wrote
<1> QED BY <1>3, <1>4, <1>6, <1>7 DEF FrontViews

\* The free blocks ahead of the tail block stay empty.
LEMMA DrainFreeViews ==
  ASSUME NEW h, NEW h2, NEW e, NEW k, Shape(h), Pend(h), Fits(h), Leaves(h, h2, e, k), NEW l, NEW x,
         l = h.S[Tag(e, k)].loc, x = h.S[Tag(e, k)].val, NEW m, NEW m2, Wrote(m, m2, l, x), NEW C, NEW C2,
         SameFronts(C, C2), NEW P, NEW F, FreeViews(h, m, P, C, F)
  PROVE  FreeViews(h2, m2, P, C2, F)
<1>0. /\ h.freed \in Nat /\ h.tail <= LastVisit(h) /\ h.tail \in Nat /\ LastVisit(h) \in Nat /\ h.freed >= 1
      /\ SameButPublished(h, h2) /\ h.visit[e] \in h.shown..h.tail /\ h.shown \in Nat /\ h.freed <= h.front /\ h.front <= h.shown
      /\ h.front \in Nat /\ h.n \in Nat
  BY DrainCounters
<1>1. \A b : l # <<"front", b>>
  BY DrainPlace, PlacesDiffer
<1>2. \A b : l = <<"tail", b>> => b = h.block[h.visit[e]]
  <2>1. CASE k = 3 \/ (k = 7 /\ ~ Begins(h, e))
    <3>1. l = <<"tail", h.block[h.visit[e]]>> BY <2>1, DrainPlace
    <3> QED BY <3>1, Places
  <2>2. CASE ~ (k = 3 \/ (k = 7 /\ ~ Begins(h, e)))
    <3>1. /\ k = 1 => l = <<"data", h.block[h.visit[e]], IndexOf(h, h.visit[e], e)>>
          /\ k = 2 => l = <<"localTail", h.block[h.visit[e]]>>
          /\ k = 4 => l = <<"next", h.block[h.visit[e]]>>
          /\ k = 5 => l = <<"next", h.block[h.visit[e] - 1]>>
          /\ k = 7 /\ Begins(h, e) => l = <<"tailBlock">>
          /\ k \in {1, 2, 3, 4, 5, 7}
      BY DrainPlace
    <3>2. \A b : l # <<"tail", b>> BY <2>2, <3>1, PlacesDiffer
    <3> QED BY <3>2
  <2> QED BY <2>1, <2>2
<1>3. /\ h2.block = h.block /\ h2.tail = h.tail /\ h2.freed = h.freed /\ h2.n = h.n /\ h2.room = h.room /\ LastVisit(h2) = LastVisit(h)
  BY <1>0, DrainKinds DEF SameButPublished
<1>4. ASSUME NEW v \in (h.tail + 1)..LastVisit(h) PROVE h.block[v] \in Blocks /\ h.block[v] # h.block[h.visit[e]]
  <2>1. v \in 1..LastVisit(h) /\ v \in h.freed..LastVisit(h) /\ h.visit[e] \in h.freed..LastVisit(h) /\ v # h.visit[e]
    BY <1>0
  <2> QED BY <2>1, BlockFits, BlockInj
<1>5. h.block[h.visit[e]] \in 1..h.n
  <2>1. h.visit[e] \in 1..LastVisit(h) BY <1>0
  <2> QED BY <2>1, BlockFits
<1>6. \A b \in Blocks : /\ <<"tail", b>> \in Locations /\ <<"front", b>> \in Locations
                        /\ m2[<<"front", b>>] = m[<<"front", b>>] /\ C2[<<"front", b>>] = C[<<"front", b>>]
                        /\ b # h.block[h.visit[e]] => m2[<<"tail", b>>] = m[<<"tail", b>>]
  BY <1>1, <1>2, PlacesOf DEF Wrote, SameFronts
<1>7. \A v \in (h.tail + 1)..LastVisit(h) :
         /\ m2[<<"tail", h.block[v]>>] = m[<<"tail", h.block[v]>>]
         /\ m2[<<"front", h.block[v]>>] = m[<<"front", h.block[v]>>]
         /\ C2[<<"front", h.block[v]>>] = C[<<"front", h.block[v]>>]
  BY <1>4, <1>6
<1>8. \A b \in Blocks : b > h.n => b # h.block[h.visit[e]] BY <1>0, <1>5
<1>9. \A b \in Blocks : b > h.n =>
          /\ m2[<<"tail", b>>] = 0 /\ m2[<<"front", b>>] = 0
          /\ C2[<<"front", b>>] = 0 /\ F[b] = 0
  BY <1>6, <1>8 DEF FreeViews
<1>10. \A v \in (h.tail + 1)..LastVisit(h) :
          /\ m2[<<"tail", h.block[v]>>] \in 0..(h.room[v] - 1)
          /\ P[<<"tail", h.block[v]>>] = m2[<<"tail", h.block[v]>>]
          /\ m2[<<"front", h.block[v]>>] = m2[<<"tail", h.block[v]>>]
          /\ C2[<<"front", h.block[v]>>] = m2[<<"tail", h.block[v]>>]
  BY <1>7 DEF FreeViews
<1> QED BY <1>3, <1>9, <1>10 DEF FreeViews

\* A link that reaches memory is the one the producer sees; one that does not is stale
\* until it does.
LEMMA DrainNextViews ==
  ASSUME NEW h, NEW h2, NEW e, NEW k, Shape(h), Pend(h), Fits(h), Leaves(h, h2, e, k), NEW l, NEW x,
         l = h.S[Tag(e, k)].loc, x = h.S[Tag(e, k)].val, NEW m, NEW m2, Wrote(m, m2, l, x), NEW P, NextViews(h, m, P)
  PROVE  NextViews(h2, m2, P)
<1>0. /\ h.freed \in Nat /\ h.tail <= LastVisit(h) /\ h.tail \in Nat /\ LastVisit(h) \in Nat /\ h.freed >= 1
      /\ SameButPublished(h, h2) /\ h.visit[e] \in h.shown..h.tail /\ h.shown \in Nat /\ h.freed <= h.front /\ h.front <= h.shown
      /\ h.front \in Nat /\ h.visit[e] \in 1..h.tail
      /\ Begins(h, e) => h.visit[e] > h.shown /\ e = h.first[h.visit[e]]
  BY DrainCounters
<1>1. /\ h2.block = h.block /\ h2.tail = h.tail /\ h2.first = h.first /\ h2.freed = h.freed /\ LastVisit(h2) = LastVisit(h)
      /\ \A v : NextOf(h2, v) = NextOf(h, v)
  BY <1>0, DrainKinds DEF SameButPublished
<1>2. ASSUME NEW v \in h.freed..LastVisit(h)
      PROVE  \/ v <= h.tail /\ Tag(h.first[v], 4) \in DOMAIN h2.S
             \/ Link(h2, v, m2[<<"next", h.block[v]>>])
  <2>0. v \in 1..LastVisit(h) /\ v \in Nat BY <1>0
  <2>1. <<"next", h.block[v]>> \in Locations BY <2>0, BlockFits, PlacesOf
  <2>2. CASE k = 4 /\ v = h.visit[e]
    <3>1. l = <<"next", h.block[v]>> /\ Link(h, v, x) BY <2>2, DrainPlace
    <3>2. Link(h2, v, x) BY <2>2, <3>1, DrainLink
    <3> QED BY <2>1, <3>1, <3>2 DEF Wrote
  <2>3. CASE k = 5 /\ v + 1 = h.visit[e]
    <3>1. l = <<"next", h.block[h.visit[e] - 1]>> /\ x = h.block[h.visit[e]] BY <2>3, DrainPlace
    <3>2. h.visit[e] - 1 = v BY <2>0, <2>3
    <3>3. m2[<<"next", h.block[v]>>] = h.block[v + 1] BY <2>1, <2>3, <3>1, <3>2 DEF Wrote
    <3>4. Begins(h, e) BY <2>3, DrainPlace
    <3>5. v < h.tail /\ e = h.first[v + 1] BY <1>0, <2>0, <2>3, <3>4
    <3>6. Tag(h.first[v + 1], 5) \notin DOMAIN h2.S BY <2>3, <3>5 DEF Leaves, After
    <3>7. NextOf(h2, v) = h.block[v + 1] BY <1>0, <1>1, <2>0, <3>5 DEF NextOf
    <3> QED BY <1>1, <3>3, <3>6, <3>7 DEF Link
  <2>4. CASE ~ (k = 4 /\ v = h.visit[e]) /\ ~ (k = 5 /\ v + 1 = h.visit[e])
    <3>1. l # <<"next", h.block[v]>>
      <4>1. CASE k = 4
        <5>1. l = <<"next", h.block[h.visit[e]]>> BY <4>1, DrainPlace
        <5>2. h.visit[e] \in h.freed..LastVisit(h) /\ h.visit[e] # v BY <1>0, <2>4, <4>1
        <5>3. h.block[v] # h.block[h.visit[e]] BY <5>2, BlockInj
        <5> QED BY <5>1, <5>3, Places
      <4>2. CASE k = 5
        <5>1. l = <<"next", h.block[h.visit[e] - 1]>> /\ Begins(h, e) BY <4>2, DrainPlace
        <5>2. h.visit[e] - 1 \in h.freed..LastVisit(h) /\ h.visit[e] - 1 # v
          BY <1>0, <2>0, <2>4, <4>2, <5>1
        <5>3. h.block[v] # h.block[h.visit[e] - 1] BY <5>2, BlockInj
        <5> QED BY <5>1, <5>3, Places
      <4>3. CASE k \notin {4, 5} BY <4>3, DrainPlace, PlacesDiffer
      <4> QED BY <4>1, <4>2, <4>3
    <3>2. m2[<<"next", h.block[v]>>] = m[<<"next", h.block[v]>>] BY <2>1, <3>1 DEF Wrote
    <3>3. CASE v <= h.tail /\ Tag(h.first[v], 4) \in DOMAIN h.S
      <4>1. v \in 1..h.tail BY <1>0, <2>0, <3>3
      <4>2. h.first[v] \in (h.pub + 1)..h.sent /\ h.visit[h.first[v]] = v BY <3>3, <4>1, OpenVisit
      <4>3. h.first[v] # e \/ k # 4 BY <2>4, <4>2
      <4> QED BY <3>3, <4>2, <4>3, TagKept
    <3>4. CASE Link(h, v, m[<<"next", h.block[v]>>])
      <4>1. ~ (k = 5 /\ v < h.tail /\ e = h.first[v + 1])
        <5> SUFFICES ASSUME k = 5, v < h.tail, e = h.first[v + 1] PROVE FALSE OBVIOUS
        <5>1. v + 1 \in 1..h.tail BY <1>0, <2>0
        <5>2. Tag(h.first[v + 1], 5) \in DOMAIN h.S BY DEF Leaves
        <5>3. h.visit[h.first[v + 1]] = v + 1 BY <5>1, <5>2, OpenVisit
        <5> QED BY <2>4, <5>3
      <4> QED BY <3>2, <3>4, <4>1, DrainLink
    <3> QED BY <3>3, <3>4 DEF NextViews
  <2> QED BY <2>2, <2>3, <2>4
<1>3. \A v \in h.freed..LastVisit(h) : P[<<"next", h.block[v]>>] = NextOf(h, v) BY DEF NextViews
<1> QED BY <1>1, <1>2, <1>3 DEF NextViews

\* An element that is not pending is in its slot in memory.
LEMMA DrainDataViews ==
  ASSUME NEW h, NEW h2, NEW e, NEW k, Shape(h), Pend(h), Fits(h), Leaves(h, h2, e, k), NEW l, NEW x,
         l = h.S[Tag(e, k)].loc, x = h.S[Tag(e, k)].val, NEW m, NEW m2, Wrote(m, m2, l, x), DataViews(h, m)
  PROVE  DataViews(h2, m2)
<1>0. /\ h.pub \in Nat /\ h.sent \in Nat /\ h2.sent = h.sent /\ e \in Nat /\ e \in (h.pub + 1)..h.sent /\ k \in 1..7
      /\ h.freed \in Nat /\ h.tail <= LastVisit(h) /\ h.tail \in Nat /\ LastVisit(h) \in Nat /\ h.freed >= 1
      /\ h.got \in Nat /\ h.got <= h.pub /\ SameButPublished(h, h2)
  BY DrainCounters
<1>1. /\ h2.block = h.block /\ h2.got = h.got /\ h2.visit = h.visit /\ \A v, y : IndexOf(h2, v, y) = IndexOf(h, v, y)
  BY <1>0, DrainKinds DEF SameButPublished
<1>2. ASSUME NEW d \in (h.got + 1)..h.sent
      PROVE  \/ Tag(d, 1) \in DOMAIN h2.S
             \/ m2[<<"data", h.block[h.visit[d]], IndexOf(h, h.visit[d], d)>>] = d
  <2>1. d \in Nat /\ d \in 1..h.sent BY <1>0
  <2>2. h.visit[d] \in h.freed..h.tail /\ <<"data", h.block[h.visit[d]], IndexOf(h, h.visit[d], d)>> \in Locations
    BY <1>0, <2>1, DataPlace
  <2>3. CASE d = e /\ k = 1
    <3>1. l = <<"data", h.block[h.visit[e]], IndexOf(h, h.visit[e], e)>> /\ x = e
      BY <2>3, DrainPlace
    <3> QED BY <2>2, <2>3, <3>1 DEF Wrote
  <2>4. CASE ~ (d = e /\ k = 1) /\ Tag(d, 1) \in DOMAIN h.S
    <3>1. d \in (h.pub + 1)..h.sent BY <2>1, <2>4, TagOf
    <3> QED BY <2>4, <3>1, TagKept
  <2>5. CASE ~ (d = e /\ k = 1) /\ Tag(d, 1) \notin DOMAIN h.S
    <3>1. m[<<"data", h.block[h.visit[d]], IndexOf(h, h.visit[d], d)>>] = d BY <2>5 DEF DataViews
    <3>2. l # <<"data", h.block[h.visit[d]], IndexOf(h, h.visit[d], d)>>
      <4>1. CASE k = 1
        <5>1. l = <<"data", h.block[h.visit[e]], IndexOf(h, h.visit[e], e)>> BY <4>1, DrainPlace
        <5>2. e \in (h.got + 1)..h.sent BY <1>0
        <5>3. ~ (h.block[h.visit[e]] = h.block[h.visit[d]] /\ IndexOf(h, h.visit[e], e) = IndexOf(h, h.visit[d], d))
          BY <2>5, <4>1, <5>2, DataInj
        <5> QED BY <5>1, <5>3, Places
      <4>2. CASE k # 1 BY <4>2, DrainPlace, PlacesDiffer
      <4> QED BY <4>1, <4>2
    <3> QED BY <2>2, <3>1, <3>2 DEF Wrote
  <2> QED BY <2>3, <2>4, <2>5
<1> QED BY <1>0, <1>1, <1>2 DEF DataViews

\* The shadow copies of front and tail stand for what they did.
LEMMA DrainShadowViews ==
  ASSUME NEW h, NEW h2, NEW e, NEW k, Shape(h), Pend(h), Fits(h), Leaves(h, h2, e, k), NEW l, NEW x,
         l = h.S[Tag(e, k)].loc, x = h.S[Tag(e, k)].val, NEW m, NEW m2, Wrote(m, m2, l, x), NEW F, ShadowViews(h, m, F)
  PROVE  ShadowViews(h2, m2, F)
<1>0. /\ h.freed \in Nat /\ h.tail <= LastVisit(h) /\ h.tail \in Nat /\ LastVisit(h) \in Nat /\ h.freed >= 1
      /\ SameButPublished(h, h2) /\ h.visit[e] \in h.shown..h.tail /\ h.shown \in Nat /\ h.freed <= h.front /\ h.front <= h.shown
      /\ h.front \in Nat /\ h.shown <= h.tail
      /\ Begins(h, e) => h.visit[e] > h.shown
  BY DrainCounters
<1>1. /\ h2.block = h.block /\ h2.front = h.front /\ h2.tail = h.tail /\ h2.lt = h.lt /\ h2.lf = h.lf
      /\ \A v, y : IndexOf(h2, v, y) = IndexOf(h, v, y)
  BY <1>0, DrainKinds DEF SameButPublished
<1>2. h.front \in 1..LastVisit(h) /\ h.front \in h.freed..LastVisit(h) BY <1>0
<1>3. <<"localTail", h.block[h.front]>> \in Locations BY <1>2, BlockFits, PlacesOf
<1>4. l # <<"localTail", h.block[h.front]>>
  <2>1. CASE k = 2
    <3>1. l = <<"localTail", h.block[h.visit[e]]>> /\ Begins(h, e) BY <2>1, DrainPlace
    <3>2. h.visit[e] \in h.freed..LastVisit(h) /\ h.visit[e] # h.front BY <1>0, <3>1
    <3>3. h.block[h.front] # h.block[h.visit[e]] BY <1>2, <3>2, BlockInj
    <3> QED BY <3>1, <3>3, Places
  <2>2. CASE k # 2 BY <2>2, DrainPlace, PlacesDiffer
  <2> QED BY <2>1, <2>2
<1> QED BY <1>1, <1>3, <1>4 DEF ShadowViews, Wrote

\* Every view stays right when a store of the producer reaches memory.
LEMMA DrainViews ==
  ASSUME NEW h, NEW h2, NEW e, NEW k, Shape(h), Pend(h), Fits(h), Leaves(h, h2, e, k), NEW l, NEW x,
         l = h.S[Tag(e, k)].loc, x = h.S[Tag(e, k)].val, NEW m, NEW m2, Wrote(m, m2, l, x), NEW C, NEW C2,
         SameFronts(C, C2), NEW P, NEW F, Views(h, m, P, C, F)
  PROVE  Views(h2, m2, P, C2, F)
<1>1. /\ TailViews(h, m, P) /\ FrontViews(h, m, C) /\ FreeViews(h, m, P, C, F)
      /\ NextViews(h, m, P) /\ DataViews(h, m) /\ ShadowViews(h, m, F) BY DEF Views
<1>2. TailViews(h2, m2, P) BY <1>1, DrainTailViews
<1>3. FrontViews(h2, m2, C2) BY <1>1, DrainFrontViews
<1>4. FreeViews(h2, m2, P, C2, F) BY <1>1, DrainFreeViews
<1>5. NextViews(h2, m2, P) BY <1>1, DrainNextViews
<1>6. DataViews(h2, m2) BY <1>1, DrainDataViews
<1>7. ShadowViews(h2, m2, F) BY <1>1, DrainShadowViews
<1> QED BY <1>2, <1>3, <1>4, <1>5, <1>6, <1>7 DEF Views

\* The consumer's pending stores are those they were.
LEMMA DrainFronts ==
  ASSUME NEW h, NEW h2, NEW e, NEW k, Leaves(h, h2, e, k), PendingFronts(h)
  PROVE  PendingFronts(h2)
<1>1. SameButPublished(h, h2) BY DEF Leaves, Drained1
<1>2. \A v, x : IndexOf(h2, v, x) = IndexOf(h, v, x) BY DrainKinds
<1> QED BY <1>1, <1>2 DEF SameButPublished, PendingFronts

\* The block sizes are those they were.
LEMMA DrainSizing ==
  ASSUME NEW h, NEW h2, NEW e, NEW k, Leaves(h, h2, e, k), NEW s, NEW mask, Sizing(h, s, mask)
  PROVE  Sizing(h2, s, mask)
<1>1. SameButPublished(h, h2) BY DEF Leaves, Drained1
<1>2. LastVisit(h2) = LastVisit(h) BY DrainKinds
<1> QED BY <1>1, <1>2 DEF SameButPublished, Sizing

\* The producer's call does not depend on which of its stores have reached memory.
LEMMA DrainProducerCall ==
  ASSUME NEW h, NEW h2, NEW e, NEW k, Leaves(h, h2, e, k), NEW s, NEW call, ProducerCall(h, call, s)
  PROVE  ProducerCall(h2, call, s)
<1>1. SameButPublished(h, h2) BY DEF Leaves, Drained1
<1>2. LastVisit(h2) = LastVisit(h) BY DrainKinds
<1> QED BY <1>1, <1>2 DEF SameButPublished, ProducerCall

\* The fields of a call have their types.
LEMMA CallFields ==
  ASSUME NEW call \in CallSet
  PROVE  /\ call.start \in Nat /\ call.block \in Nat /\ call.index \in Nat /\ call.sum \in Nat /\ call.first \in Nat
         /\ call.ok \in BOOLEAN
BY DEF CallSet

\* Nothing the consumer has learned in its call stops being true when a store of the
\* producer reaches memory.
LEMMA DrainConsumerCall ==
  ASSUME NEW h, NEW h2, NEW e, NEW k, Shape(h), Pend(h), Leaves(h, h2, e, k), NEW call \in CallSet,
         ConsumerCall(h, call)
  PROVE  ConsumerCall(h2, call)
<1>0. /\ h.pub \in Nat /\ e \in Nat /\ e \in (h.pub + 1)..h.sent /\ h.front \in Nat /\ h.shown \in Nat /\ h.visit[e] \in h.shown..h.tail
      /\ h.got \in Nat /\ h.tail \in Nat /\ h.freed \in Nat /\ LastVisit(h) \in Nat
      /\ SameButPublished(h, h2)
  BY DrainCounters
<1>1. LastVisit(h2) = LastVisit(h) /\ \A v, x : IndexOf(h2, v, x) = IndexOf(h, v, x) BY DrainKinds
<1>2. /\ h2.pub \in Nat /\ h2.shown \in Nat /\ h.pub <= h2.pub /\ h.shown <= h2.shown
  BY <1>0 DEF Leaves, Drained1
<1>3. call.start \in Nat /\ call.sum \in Nat BY CallFields
<1>4. /\ h2.freed = h.freed /\ h2.front = h.front /\ h2.tail = h.tail /\ h2.got = h.got /\ h2.sent = h.sent /\ h2.block = h.block
      /\ h2.first = h.first /\ h2.visit = h.visit /\ h2.lt = h.lt /\ h2.grown = h.grown
  BY <1>0 DEF SameButPublished
<1>5. DOMAIN h2.S \subseteq DOMAIN h.S BY DEF Leaves, After
<1>6. ASSUME NEW q \in h.freed..LastVisit(h), Walk(h, call, q) PROVE Walk(h2, call, q)
  <2>1. Linked(h2, q) BY <1>4, <1>5, <1>6 DEF Linked, Walk
  <2>2. q < h.shown => q < h2.shown BY <1>0, <1>2
  <2> QED BY <1>1, <1>4, <1>6, <2>1, <2>2 DEF Walk
<1>7. /\ call.start <= h.pub => call.start <= h2.pub
      /\ h.front < h.shown => h2.front < h2.shown
      /\ h.got < h.pub => h2.got < h2.pub
  BY <1>0, <1>2, <1>3, <1>4
<1>8. (\E q \in h.freed..LastVisit(h) : Walk(h, call, q)) => (\E q \in h2.freed..LastVisit(h2) : Walk(h2, call, q))
  BY <1>1, <1>4, <1>6
<1> QED BY <1>1, <1>4, <1>7, <1>8 DEF ConsumerCall

-----------------------------------------------------------------------------
(* A store of the consumer reaches memory: a slot, or a block, is free.    *)

\* A store of the consumer reached memory: the slot of an element was given
\* back, or a block.
SameButReleased(h, h2) ==
  /\ h2.n = h.n /\ h2.unit = h.unit /\ h2.freed = h.freed /\ h2.front = h.front /\ h2.shown = h.shown /\ h2.tail = h.tail
  /\ h2.got = h.got /\ h2.pub = h.pub /\ h2.sent = h.sent /\ h2.block = h.block /\ h2.room = h.room
  /\ h2.grown = h.grown /\ h2.first = h.first /\ h2.base = h.base /\ h2.visit = h.visit
  /\ h2.lt = h.lt /\ h2.lf = h.lf /\ h2.S = h.S
\* The store that releases the oldest slot reaches memory,
FrontLeaves(h, h2) ==
  /\ h.rel < h.got /\ h.rel + 1 < h.first[h.freed + 1]
  /\ Tag(h.rel + 1, 4) \in DOMAIN h.R
  /\ h.R[Tag(h.rel + 1, 4)] = Store(<<"front", h.block[h.freed]>>, IndexOf(h, h.freed, h.rel + 2))
  /\ After(h.R, Tag(h.rel + 1, 4), h2.R)
  /\ SameButReleased(h, h2) /\ h2.rel = h.rel + 1
\* The history but for frontBlock and the stores of the consumer.
SameButFreed(h, h2) ==
  /\ h2.n = h.n /\ h2.unit = h.unit /\ h2.front = h.front /\ h2.shown = h.shown /\ h2.tail = h.tail
  /\ h2.rel = h.rel /\ h2.got = h.got /\ h2.pub = h.pub /\ h2.sent = h.sent
  /\ h2.grown = h.grown /\ h2.first = h.first /\ h2.base = h.base /\ h2.visit = h.visit
  /\ h2.lt = h.lt /\ h2.lf = h.lf /\ h2.S = h.S
\* or the store to frontBlock, once all of the block is released.
BlockLeaves(h, h2) ==
  /\ h.freed < h.front /\ h.rel + 1 = h.first[h.freed + 1]
  /\ Tag(h.first[h.freed + 1], 2) \in DOMAIN h.R
  /\ h.R[Tag(h.first[h.freed + 1], 2)] = Store(<<"frontBlock">>, h.block[h.freed + 1])
  /\ After(h.R, Tag(h.first[h.freed + 1], 2), h2.R)
  /\ SameButFreed(h, h2) /\ h2.freed = h.freed + 1
  /\ h2.block = [v \in 1..(LastVisit(h) + 1) |-> IF v = LastVisit(h) + 1 THEN h.block[h.freed] ELSE h.block[v]]
  /\ h2.room = [v \in 1..(LastVisit(h) + 1) |-> IF v = LastVisit(h) + 1 THEN h.room[h.freed] ELSE h.room[v]]

\* What the consumer's pending stores are.
LEMMA FrontStores ==
  ASSUME NEW h, PendingFronts(h), NEW t \in DOMAIN h.R
  PROVE  /\ h.R[t] = Fence \/ (\E b, i : h.R[t] = Store(<<"front", b>>, i)) \/ (\E b : h.R[t] = Store(<<"frontBlock">>, b))
         /\ h.R[t] # Fence => ~ Plain(h.R[t].loc)
         /\ h.R[t].loc[1] \in {"front", "frontBlock", "fence"}
<1>1. h.R[t] = Fence \/ (\E b, i : h.R[t] = Store(<<"front", b>>, i)) \/ (\E b : h.R[t] = Store(<<"frontBlock">>, b))
  <2>1. CASE \E e \in (h.rel + 1)..h.got : t = Tag(e, 4)
    <3>1. PICK e \in (h.rel + 1)..h.got : t = Tag(e, 4) BY <2>1
    <3>2. h.R[Tag(e, 4)] = Store(<<"front", h.block[h.visit[e]]>>, IndexOf(h, h.visit[e], e + 1))
      BY DEF PendingFronts
    <3> QED BY <3>1, <3>2
  <2>2. CASE \E v \in (h.freed + 1)..h.front : t = Tag(h.first[v], 2)
    <3>1. PICK v \in (h.freed + 1)..h.front : t = Tag(h.first[v], 2) BY <2>2
    <3>2. h.R[Tag(h.first[v], 2)] = Store(<<"frontBlock">>, h.block[v]) BY DEF PendingFronts
    <3> QED BY <3>1, <3>2
  <2>3. CASE h.R[t] = Fence BY <2>3
  <2> QED BY <2>1, <2>2, <2>3 DEF PendingFronts
<1>2. CASE h.R[t] = Fence
  <2>1. Fence.loc[1] = "fence" BY DEF Fence
  <2> QED BY <1>2, <2>1
<1>3. CASE \E b, i : h.R[t] = Store(<<"front", b>>, i)
  <2>1. PICK b, i : h.R[t] = Store(<<"front", b>>, i) BY <1>3
  <2>2. h.R[t].loc = <<"front", b>> BY <2>1 DEF Store
  <2>3. h.R[t].loc[1] = "front" BY <2>2
  <2>4. ~ Plain(h.R[t].loc) BY <2>3 DEF Plain
  <2> QED BY <1>1, <2>3, <2>4
<1>4. CASE \E b : h.R[t] = Store(<<"frontBlock">>, b)
  <2>1. PICK b : h.R[t] = Store(<<"frontBlock">>, b) BY <1>4
  <2>2. h.R[t].loc = <<"frontBlock">> BY <2>1 DEF Store
  <2>3. h.R[t].loc[1] = "frontBlock" BY <2>2
  <2>4. ~ Plain(h.R[t].loc) BY <2>3 DEF Plain
  <2> QED BY <1>1, <2>3, <2>4
<1> QED BY <1>1, <1>2, <1>3, <1>4

\* The consumer's store that may leave is the release of the oldest slot taken, or the
\* move of frontBlock to the next block once every slot of this one was released.
LEMMA DrainConsumerTag ==
  ASSUME NEW h, Shape(h), PendingFronts(h), NEW t, MayLeave(h.R, t)
  PROVE  \/ /\ t = Tag(h.rel + 1, 4) /\ h.rel < h.got /\ h.rel + 1 < h.first[h.freed + 1]
            /\ h.R[t] = Store(<<"front", h.block[h.freed]>>, IndexOf(h, h.freed, h.rel + 2))
         \/ /\ h.freed < h.front /\ h.rel + 1 = h.first[h.freed + 1] /\ t = Tag(h.first[h.freed + 1], 2)
            /\ h.R[t] = Store(<<"frontBlock">>, h.block[h.freed + 1])
<1>0. /\ h.freed \in Nat /\ h.freed >= 1 /\ h.front \in Nat /\ h.freed <= h.front /\ h.tail \in Nat /\ h.front <= h.tail
      /\ h.rel \in Nat /\ h.got \in Nat /\ h.sent \in Nat /\ h.rel <= h.got /\ h.got <= h.sent
  BY ShapeFacts
<1>1. t \in DOMAIN h.R /\ h.R[t] # Fence
      /\ \A u \in DOMAIN h.R : u < t => h.R[u] # Fence /\ Plain(h.R[u].loc) # Plain(h.R[t].loc)
  BY DEF MayLeave
<1>2. ASSUME NEW u \in DOMAIN h.R, u < t PROVE FALSE
  <2>1. h.R[u] # Fence /\ Plain(h.R[u].loc) # Plain(h.R[t].loc) BY <1>1, <1>2
  <2>2. ~ Plain(h.R[u].loc) /\ ~ Plain(h.R[t].loc) BY <1>1, <2>1, FrontStores
  <2> QED BY <2>1, <2>2 DEF Plain
<1>3. h.freed \in 1..h.tail /\ h.freed + 1 \in 1..(h.tail + 1) /\ h.front \in 1..(h.tail + 1)
  BY <1>0
<1>4. h.first[h.freed] \in Nat /\ h.first[h.freed + 1] \in Nat /\ h.first[h.front] \in Nat
  BY <1>3, <1>0, FirstType
<1>5. /\ h.first[h.freed] <= h.rel + 1 /\ h.rel + 1 <= h.first[h.freed + 1] /\ h.first[h.front] <= h.got + 1
  BY DEF Shape, Positions
<1>6. ASSUME NEW e \in (h.rel + 1)..h.got, t = Tag(e, 4)
      PROVE  /\ t = Tag(h.rel + 1, 4) /\ h.rel < h.got /\ h.rel + 1 < h.first[h.freed + 1]
             /\ h.R[t] = Store(<<"front", h.block[h.freed]>>, IndexOf(h, h.freed, h.rel + 2))
  <2>0. h.rel + 1 \in (h.rel + 1)..h.got /\ h.rel < h.got /\ h.rel + 1 \in 1..h.sent BY <1>0
  <2>1. Tag(h.rel + 1, 4) \in DOMAIN h.R BY <2>0 DEF PendingFronts
  <2>2. e = h.rel + 1
    <3> SUFFICES ASSUME e # h.rel + 1 PROVE FALSE OBVIOUS
    <3>1. Tag(h.rel + 1, 4) < t BY <1>0, <1>6 DEF Tag
    <3> QED BY <1>2, <2>1, <3>1
  <2>3. h.rel + 1 < h.first[h.freed + 1]
    <3> SUFFICES ASSUME h.rel + 1 = h.first[h.freed + 1] PROVE FALSE BY <1>0, <1>4, <1>5
    <3>1. h.freed # h.front
      <4> SUFFICES ASSUME h.freed = h.front PROVE FALSE OBVIOUS
      <4>1. h.got + 1 <= h.first[h.front + 1] BY DEF Shape, Positions
      <4> QED BY <1>0, <1>4, <2>0, <4>1
    <3>2. h.freed + 1 \in (h.freed + 1)..h.front BY <1>0, <3>1
    <3>3. Tag(h.first[h.freed + 1], 2) \in DOMAIN h.R BY <3>2 DEF PendingFronts
    <3>4. Tag(h.first[h.freed + 1], 2) < t BY <1>0, <1>6, <2>2 DEF Tag
    <3> QED BY <1>2, <3>3, <3>4
  <2>4. h.visit[h.rel + 1] = h.freed BY <1>3, <1>5, <2>0, <2>3, VisitIs
  <2>5. h.R[Tag(h.rel + 1, 4)] = Store(<<"front", h.block[h.visit[h.rel + 1]]>>, IndexOf(h, h.visit[h.rel + 1], (h.rel + 1) + 1))
    BY <2>0 DEF PendingFronts
  <2>6. (h.rel + 1) + 1 = h.rel + 2 BY <1>0
  <2> QED BY <1>6, <2>0, <2>2, <2>3, <2>4, <2>5, <2>6
<1>7. ASSUME NEW v \in (h.freed + 1)..h.front, t = Tag(h.first[v], 2)
      PROVE  /\ h.freed < h.front /\ h.rel + 1 = h.first[h.freed + 1] /\ t = Tag(h.first[h.freed + 1], 2)
             /\ h.R[t] = Store(<<"frontBlock">>, h.block[h.freed + 1])
  <2>0. h.freed + 1 \in (h.freed + 1)..h.front /\ h.freed < h.front /\ h.freed + 1 \in 1..h.tail /\ v \in 1..h.tail /\ v \in 1..(h.tail + 1)
    BY <1>0
  <2>1. Tag(h.first[h.freed + 1], 2) \in DOMAIN h.R BY <2>0 DEF PendingFronts
  <2>2. h.first[v] \in Nat BY <2>0, FirstType
  <2>3. v = h.freed + 1
    <3> SUFFICES ASSUME v # h.freed + 1 PROVE FALSE OBVIOUS
    <3>1. h.freed + 1 < v BY <1>0
    <3>2. h.first[h.freed + 1] < h.first[v] BY <2>0, <3>1, FirstStrict
    <3>3. Tag(h.first[h.freed + 1], 2) < t BY <1>4, <1>7, <2>2, <3>2 DEF Tag
    <3> QED BY <1>2, <2>1, <3>3
  <2>4. h.rel + 1 = h.first[h.freed + 1]
    <3> SUFFICES ASSUME h.rel + 1 < h.first[h.freed + 1] PROVE FALSE BY <1>0, <1>4, <1>5
    <3>1. h.first[h.freed + 1] <= h.first[h.front] BY <1>0, <1>3, <2>0, FirstMonotone
    <3>2. h.rel + 1 \in (h.rel + 1)..h.got BY <1>0, <1>4, <1>5, <3>1
    <3>3. Tag(h.rel + 1, 4) \in DOMAIN h.R BY <3>2 DEF PendingFronts
    <3>4. Tag(h.rel + 1, 4) < t BY <1>0, <1>4, <1>7, <2>3 DEF Tag
    <3> QED BY <1>2, <3>3, <3>4
  <2>5. h.R[Tag(h.first[h.freed + 1], 2)] = Store(<<"frontBlock">>, h.block[h.freed + 1])
    BY <2>0 DEF PendingFronts
  <2> QED BY <1>7, <2>0, <2>3, <2>4, <2>5
<1> QED BY <1>1, <1>6, <1>7 DEF PendingFronts

\* The same tail block.
SameTails(P, P2) == P2[<<"tailBlock">>] = P[<<"tailBlock">>]
                    /\ \A b \in Blocks : P2[<<"tail", b>>] = P[<<"tail", b>>] /\ P2[<<"next", b>>] = P[<<"next", b>>]

\* The consumer's stores that stay are the same ones.
LEMMA FrontsKept ==
  ASSUME NEW R, NEW R2, NEW t, After(R, t, R2), NEW u \in DOMAIN R, u # t, R[u] # Fence
  PROVE  u \in DOMAIN R2 /\ R2[u] = R[u]
BY DEF After

\* A release that reaches memory changes nothing but what the producer sees free.
LEMMA ReleaseSame ==
  ASSUME NEW h, NEW h2, Shape(h), FrontLeaves(h, h2)
  PROVE  /\ LastVisit(h2) = LastVisit(h) /\ \A v, x : IndexOf(h2, v, x) = IndexOf(h, v, x)
         /\ \A v : MemTail(h2, v) = MemTail(h, v) /\ OwnFront(h2, v) = OwnFront(h, v)
         /\ \A v : NextOf(h2, v) = NextOf(h, v) /\ (Linked(h2, v) <=> Linked(h, v))
         /\ \A v, b : Link(h2, v, b) <=> Link(h, v, b)
         /\ \A v : MemFront(h2, v) = IF v = h.freed THEN h.rel + 2 ELSE MemFront(h, v)
<1>1. SameButReleased(h, h2) /\ h2.rel = h.rel + 1 BY DEF FrontLeaves
<1>2. LastVisit(h2) = LastVisit(h) BY <1>1 DEF LastVisit, SameButReleased
<1>3. \A v, x : IndexOf(h2, v, x) = IndexOf(h, v, x) BY <1>1 DEF IndexOf, SameButReleased
<1>4. \A v : MemTail(h2, v) = MemTail(h, v) /\ OwnFront(h2, v) = OwnFront(h, v)
  BY <1>1 DEF MemTail, OwnFront, SameButReleased
<1>5. \A v : NextOf(h2, v) = NextOf(h, v) BY <1>1, <1>2 DEF NextOf, SameButReleased
<1>6. \A v : (Linked(h2, v) <=> Linked(h, v)) BY <1>1 DEF Linked, SameButReleased
<1>7. \A v, b : Stale(h2, v, b) <=> Stale(h, v, b) BY <1>1, <1>2, <1>6 DEF Stale, SameButReleased
<1>8. \A v, b : Link(h2, v, b) <=> Link(h, v, b) BY <1>1, <1>5, <1>7 DEF Link, SameButReleased
<1>10. (h.rel + 1) + 1 = h.rel + 2 BY ShapeFacts
<1>9. ASSUME NEW v PROVE MemFront(h2, v) = IF v = h.freed THEN (h.rel + 1) + 1 ELSE MemFront(h, v)
  BY <1>1 DEF MemFront, SameButReleased
<1> QED BY <1>2, <1>3, <1>4, <1>5, <1>6, <1>8, <1>9, <1>10

\* The history keeps its shape when a slot is released: no slot is released before its
\* element was taken.
LEMMA ReleaseShape ==
  ASSUME NEW h, NEW h2, Shape(h), FrontLeaves(h, h2)
  PROVE  Shape(h2)
<1>1. SameButReleased(h, h2) /\ h2.rel = h.rel + 1 /\ h.rel < h.got /\ h.rel + 1 < h.first[h.freed + 1]
  BY DEF FrontLeaves
<1>2. LastVisit(h2) = LastVisit(h) BY ReleaseSame
<1>3. h.freed \in Nat /\ h.rel \in Nat /\ h.got \in Nat /\ h.tail \in Nat /\ h.freed <= h.tail /\ h.freed >= 1 /\ h.lf \in Nat
  BY ShapeFacts DEF Shape, Positions
<1>4. Counters(h2) BY <1>1, <1>2, <1>3 DEF Shape, Counters, SameButReleased
<1>5. Circular(h2) BY <1>1, <1>2 DEF Shape, Circular, SameButReleased
<1>6. Visits(h2) BY <1>1, <1>2 DEF Shape, Visits, SameButReleased
<1>7. \A v : MemFront(h2, v) = IF v = h.freed THEN h.rel + 2 ELSE MemFront(h, v) BY ReleaseSame
<1>8. MemTail(h2, h.front) = MemTail(h, h.front) BY ReleaseSame
<1>9. ASSUME NEW v \in h.freed..h.tail PROVE MemFront(h, v) <= MemFront(h2, v) /\ MemFront(h, v) \in Nat /\ MemFront(h2, v) \in Nat
  <2>1. Ordered(h, v) BY OrderedVisits
  <2>2. MemFront(h, v) \in Nat BY <2>1 DEF Ordered
  <2>3. v = h.freed => MemFront(h, v) = h.rel + 1 BY DEF MemFront
  <2> QED BY <1>3, <1>7, <2>2, <2>3
<1>10. h.freed + 1 \in 1..(h.tail + 1) /\ h.freed \in 1..(h.tail + 1) BY <1>3
<1>11. h.first[h.freed] \in Nat /\ h.first[h.freed + 1] \in Nat BY <1>10, FirstType
<1>12. h.first[h.freed] <= (h.rel + 1) + 1 /\ (h.rel + 1) + 1 <= h.first[h.freed + 1]
  BY <1>1, <1>3, <1>11 DEF Shape, Positions
<1>13. h.lf <= MemFront(h2, h.tail)
  <2>1. h.lf <= MemFront(h, h.tail) BY DEF Shape, Positions
  <2>2. h.tail \in h.freed..h.tail BY <1>3
  <2> QED BY <1>3, <1>9, <2>1, <2>2
<1>14. ASSUME NEW v \in h.freed..h.tail PROVE h.first[v + 1] - MemFront(h2, v) < h.room[v]
  <2>1. Ordered(h, v) BY OrderedVisits
  <2> QED BY <1>9, <2>1 DEF Ordered
<1>15. Positions(h2)
  BY <1>1, <1>8, <1>12, <1>13, <1>14 DEF Shape, Positions, SameButReleased
<1> QED BY <1>4, <1>5, <1>6, <1>15 DEF Shape

\* The producer's pending stores stay its own when a slot is released.
LEMMA ReleasePend ==
  ASSUME NEW h, NEW h2, Shape(h), Pend(h), FrontLeaves(h, h2)
  PROVE  Pend(h2)
<1>1. SameButReleased(h, h2) BY DEF FrontLeaves
<1>2. \A d : Begins(h2, d) <=> Begins(h, d) BY <1>1 DEF Begins, SameButReleased
<1>3. \A d : Kinds(h2, d) = Kinds(h, d) BY <1>1, <1>2 DEF Kinds, SameButReleased
<1>4. PendingTags(h2) BY <1>1, <1>3 DEF Pend, PendingTags, SameButReleased
<1>5. (\A v, x : IndexOf(h2, v, x) = IndexOf(h, v, x)) /\ (\A v, b : Link(h2, v, b) <=> Link(h, v, b))
  BY ReleaseSame
<1>6. \A e \in (h2.pub + 1)..h2.sent : Tag(e, 7) \in DOMAIN h2.S BY <1>4 DEF PendingTags
<1>7. ASSUME NEW e \in (h2.pub + 1)..h2.sent, NEW k \in 1..7, Tag(e, k) \in DOMAIN h2.S PROVE StoreIs(h2, e, k, h2.S[Tag(e, k)])
  <2>1. h2.pub = h.pub /\ h2.sent = h.sent /\ h2.S = h.S /\ h2.block = h.block /\ h2.visit = h.visit
    BY <1>1 DEF SameButReleased
  <2>2. PICK x : x = h.S[Tag(e, k)] OBVIOUS
  <2>3. StoreIs(h, e, k, x) BY <1>7, <2>1, <2>2, StoreAt DEF Pend
  <2>4. StoreIs(h2, e, k, x) BY <1>2, <1>5, <2>1, <2>3 DEF StoreIs
  <2> QED BY <2>1, <2>2, <2>4
<1>8. PendingStores(h2) BY <1>6, <1>7, StoresFromParts
<1> QED BY <1>4, <1>8 DEF Pend

\* The consumer's other pending stores stay in order.
LEMMA ReleaseFronts ==
  ASSUME NEW h, NEW h2, Shape(h), PendingFronts(h), FrontLeaves(h, h2)
  PROVE  PendingFronts(h2)
<1>0. /\ h.freed \in Nat /\ h.freed >= 1 /\ h.front \in Nat /\ h.tail \in Nat /\ h.front <= h.tail
      /\ h.rel \in Nat /\ h.got \in Nat
  BY ShapeFacts
<1>1. SameButReleased(h, h2) /\ h2.rel = h.rel + 1 /\ After(h.R, Tag(h.rel + 1, 4), h2.R)
  BY DEF FrontLeaves
<1>2. DOMAIN h2.R \subseteq DOMAIN h.R \ {Tag(h.rel + 1, 4)} /\ \A u \in DOMAIN h2.R : h2.R[u] = h.R[u]
  BY <1>1 DEF After
<1>3. \A v, x : IndexOf(h2, v, x) = IndexOf(h, v, x) BY ReleaseSame
<1>4. /\ h2.freed = h.freed /\ h2.front = h.front /\ h2.got = h.got /\ h2.first = h.first /\ h2.block = h.block /\ h2.visit = h.visit
  BY <1>1 DEF SameButReleased
<1>5. DOMAIN h2.R \subseteq Nat BY <1>2 DEF PendingFronts
<1>6. ASSUME NEW t \in DOMAIN h2.R
      PROVE  \/ \E e \in (h2.rel + 1)..h2.got : t = Tag(e, 4)
             \/ \E v \in (h2.freed + 1)..h2.front : t = Tag(h2.first[v], 2)
             \/ h2.R[t] = Fence
  <2>1. t \in DOMAIN h.R /\ t # Tag(h.rel + 1, 4) /\ h2.R[t] = h.R[t] BY <1>2
  <2>2. ASSUME NEW e \in (h.rel + 1)..h.got, t = Tag(e, 4) PROVE e \in (h2.rel + 1)..h2.got
    <3>1. e # h.rel + 1 BY <2>1, <2>2
    <3> QED BY <1>0, <1>1, <1>4, <3>1
  <2> QED BY <1>4, <2>1, <2>2 DEF PendingFronts
<1>7. \A t \in DOMAIN h2.R : \/ t < Tag(h2.got + 1, 1)
                             \/ h2.first[h2.front] = h2.got + 1 /\ t <= Tag(h2.got + 1, 2)
  BY <1>2, <1>4 DEF PendingFronts
<1>8. ASSUME NEW e \in (h2.rel + 1)..h2.got
      PROVE  /\ Tag(e, 4) \in DOMAIN h2.R
             /\ h2.R[Tag(e, 4)] = Store(<<"front", h2.block[h2.visit[e]]>>, IndexOf(h2, h2.visit[e], e + 1))
  <2>1. e \in (h.rel + 1)..h.got /\ e \in Nat /\ e # h.rel + 1 BY <1>0, <1>1, <1>4
  <2>2. Tag(e, 4) \in DOMAIN h.R /\ h.R[Tag(e, 4)] = Store(<<"front", h.block[h.visit[e]]>>, IndexOf(h, h.visit[e], e + 1))
    BY <2>1 DEF PendingFronts
  <2>3. Tag(e, 4) # Tag(h.rel + 1, 4) BY <1>0, <2>1 DEF Tag
  <2>4. h.R[Tag(e, 4)] # Fence
    <3>1. h.R[Tag(e, 4)].loc = <<"front", h.block[h.visit[e]]>> BY <2>2 DEF Store
    <3>2. h.R[Tag(e, 4)].loc[1] = "front" BY <3>1
    <3> QED BY <3>2 DEF Fence
  <2> QED BY <1>1, <1>3, <1>4, <2>2, <2>3, <2>4, FrontsKept
<1>9. ASSUME NEW v \in (h2.freed + 1)..h2.front
      PROVE  /\ Tag(h2.first[v], 2) \in DOMAIN h2.R
             /\ h2.R[Tag(h2.first[v], 2)] = Store(<<"frontBlock">>, h2.block[v])
  <2>1. v \in (h.freed + 1)..h.front /\ v \in 1..(h.tail + 1) BY <1>0, <1>4
  <2>2. Tag(h.first[v], 2) \in DOMAIN h.R /\ h.R[Tag(h.first[v], 2)] = Store(<<"frontBlock">>, h.block[v])
    BY <2>1 DEF PendingFronts
  <2>3. h.first[v] \in Nat BY <2>1, FirstType
  <2>4. Tag(h.first[v], 2) # Tag(h.rel + 1, 4) BY <1>0, <2>3 DEF Tag
  <2>5. h.R[Tag(h.first[v], 2)] # Fence
    <3>1. h.R[Tag(h.first[v], 2)].loc = <<"frontBlock">> BY <2>2 DEF Store
    <3>2. h.R[Tag(h.first[v], 2)].loc[1] = "frontBlock" BY <3>1
    <3> QED BY <3>2 DEF Fence
  <2> QED BY <1>1, <1>4, <2>2, <2>4, <2>5, FrontsKept
<1> QED BY <1>5, <1>6, <1>7, <1>8, <1>9 DEF PendingFronts

\* The front of the oldest block moves on by one in memory, and everything else is as it
\* was.
LEMMA ReleaseViews ==
  ASSUME NEW h, NEW h2, Shape(h), Fits(h), FrontLeaves(h, h2), NEW m, NEW m2,
         Wrote(m, m2, <<"front", h.block[h.freed]>>, IndexOf(h, h.freed, h.rel + 2)),
         NEW P, NEW P2, SameTails(P, P2), NEW C, NEW F, Views(h, m, P, C, F)
  PROVE  Views(h2, m2, P2, C, F)
<1>0. /\ h.freed \in Nat /\ h.tail <= LastVisit(h) /\ h.tail \in Nat /\ LastVisit(h) \in Nat /\ h.freed >= 1
      /\ h.freed <= h.front /\ h.front <= h.tail /\ h.front \in Nat /\ h.n \in Nat /\ h.got \in Nat /\ h.sent \in Nat
  BY ShapeFacts
<1>1. /\ SameButReleased(h, h2) BY DEF FrontLeaves
<1>2. /\ LastVisit(h2) = LastVisit(h) /\ \A v, x : IndexOf(h2, v, x) = IndexOf(h, v, x)
      /\ \A v : MemTail(h2, v) = MemTail(h, v) /\ OwnFront(h2, v) = OwnFront(h, v) /\ NextOf(h2, v) = NextOf(h, v)
      /\ \A v, b : Link(h2, v, b) <=> Link(h, v, b)
      /\ \A v : MemFront(h2, v) = IF v = h.freed THEN h.rel + 2 ELSE MemFront(h, v)
  BY ReleaseSame
<1>3. /\ h2.freed = h.freed /\ h2.front = h.front /\ h2.shown = h.shown /\ h2.tail = h.tail /\ h2.n = h.n /\ h2.room = h.room
      /\ h2.got = h.got /\ h2.sent = h.sent /\ h2.block = h.block /\ h2.first = h.first /\ h2.visit = h.visit
      /\ h2.lt = h.lt /\ h2.lf = h.lf /\ h2.S = h.S
  BY <1>1 DEF SameButReleased
<1>4. \A b \in Blocks : /\ m2[<<"tail", b>>] = m[<<"tail", b>>] /\ m2[<<"next", b>>] = m[<<"next", b>>]
                        /\ m2[<<"localTail", b>>] = m[<<"localTail", b>>]
                        /\ b # h.block[h.freed] => m2[<<"front", b>>] = m[<<"front", b>>]
                        /\ b = h.block[h.freed] => m2[<<"front", b>>] = IndexOf(h, h.freed, h.rel + 2)
  BY PlacesOf, PlacesDiffer, Places DEF Wrote
<1>5. m2[<<"tailBlock">>] = m[<<"tailBlock">>] /\ m2[<<"frontBlock">>] = m[<<"frontBlock">>]
  BY PlacesOf, PlacesDiffer DEF Wrote
<1>6. ASSUME NEW v \in h.freed..LastVisit(h) PROVE h.block[v] \in Blocks /\ (v # h.freed => h.block[v] # h.block[h.freed])
  <2>1. v \in 1..LastVisit(h) /\ h.freed \in h.freed..LastVisit(h) BY <1>0
  <2> QED BY <2>1, BlockFits, BlockInj
<1>a. h.freed..h.tail \subseteq h.freed..LastVisit(h) /\ (h.tail + 1)..LastVisit(h) \subseteq h.freed..LastVisit(h)
  BY <1>0
<1>7. TailViews(h2, m2, P2)
  <2>1. TailViews(h, m, P) BY DEF Views
  <2>2. \A v \in h.freed..h.tail : m2[<<"tail", h.block[v]>>] = m[<<"tail", h.block[v]>>] /\ P2[<<"tail", h.block[v]>>] = P[<<"tail", h.block[v]>>]
    BY <1>4, <1>6, <1>a DEF SameTails
  <2> QED BY <1>2, <1>3, <1>5, <2>1, <2>2 DEF TailViews, SameTails
<1>8. FrontViews(h2, m2, C)
  <2>1. FrontViews(h, m, C) BY DEF Views
  <2>2. \A v \in h.freed..h.tail : m2[<<"front", h.block[v]>>] = IndexOf(h, v, MemFront(h2, v))
    BY <1>2, <1>4, <1>6, <1>a, <2>1, ZenonT(60) DEF FrontViews
  <2> QED BY <1>2, <1>3, <1>5, <2>1, <2>2 DEF FrontViews
<1>9. FreeViews(h2, m2, P2, C, F)
  <2>1. FreeViews(h, m, P, C, F) BY DEF Views
  <2>2. \A v \in (h.tail + 1)..LastVisit(h) :
           /\ m2[<<"tail", h.block[v]>>] = m[<<"tail", h.block[v]>>] /\ P2[<<"tail", h.block[v]>>] = P[<<"tail", h.block[v]>>]
           /\ m2[<<"front", h.block[v]>>] = m[<<"front", h.block[v]>>]
    <3> TAKE v \in (h.tail + 1)..LastVisit(h)
    <3>1. v # h.freed /\ v \in h.freed..LastVisit(h) BY <1>0
    <3> QED BY <1>4, <1>6, <3>1 DEF SameTails
  <2>3. \A b \in Blocks : b > h.n => m2[<<"tail", b>>] = 0 /\ m2[<<"front", b>>] = 0 /\ C[<<"front", b>>] = 0 /\ F[b] = 0
    <3>1. h.block[h.freed] \in 1..h.n
      <4>1. h.freed \in 1..LastVisit(h) BY <1>0
      <4> QED BY <4>1, BlockFits
    <3>2. \A b \in Blocks : b > h.n => b # h.block[h.freed] BY <1>0, <3>1
    <3> QED BY <1>4, <2>1, <3>2 DEF FreeViews
  <2>4. \A v \in (h.tail + 1)..LastVisit(h) :
          /\ m2[<<"tail", h.block[v]>>] \in 0..(h.room[v] - 1)
          /\ P2[<<"tail", h.block[v]>>] = m2[<<"tail", h.block[v]>>]
          /\ m2[<<"front", h.block[v]>>] = m2[<<"tail", h.block[v]>>]
          /\ C[<<"front", h.block[v]>>] = m2[<<"tail", h.block[v]>>]
    BY <2>1, <2>2 DEF FreeViews
  <2> QED BY <1>2, <1>3, <2>3, <2>4 DEF FreeViews
<1>10. NextViews(h2, m2, P2)
  <2>1. NextViews(h, m, P) BY DEF Views
  <2>2. \A v \in h.freed..LastVisit(h) : m2[<<"next", h.block[v]>>] = m[<<"next", h.block[v]>>] /\ P2[<<"next", h.block[v]>>] = P[<<"next", h.block[v]>>]
    BY <1>4, <1>6 DEF SameTails
  <2> QED BY <1>2, <1>3, <2>1, <2>2 DEF NextViews
<1>11. DataViews(h2, m2)
  <2>1. DataViews(h, m) BY DEF Views
  <2>2. ASSUME NEW d \in (h.got + 1)..h.sent
        PROVE  m2[<<"data", h.block[h.visit[d]], IndexOf(h, h.visit[d], d)>>] = m[<<"data", h.block[h.visit[d]], IndexOf(h, h.visit[d], d)>>]
    <3>1. d \in 1..h.sent /\ d > h.got BY <1>0
    <3>2. <<"data", h.block[h.visit[d]], IndexOf(h, h.visit[d], d)>> \in Locations
      BY <3>1, DataPlace
    <3> QED BY <3>2, PlacesDiffer DEF Wrote
  <2> QED BY <1>2, <1>3, <2>1, <2>2 DEF DataViews
<1>12. ShadowViews(h2, m2, F)
  <2>1. ShadowViews(h, m, F) BY DEF Views
  <2>2. h.block[h.front] \in Blocks
    <3>1. h.front \in h.freed..LastVisit(h) BY <1>0
    <3> QED BY <1>6, <3>1
  <2>3. m2[<<"localTail", h.block[h.front]>>] = m[<<"localTail", h.block[h.front]>>] BY <1>4, <2>2
  <2> QED BY <1>2, <1>3, <2>1, <2>3 DEF ShadowViews
<1> QED BY <1>7, <1>8, <1>9, <1>10, <1>11, <1>12 DEF Views

\* Neither thread's call depends on the release: it can only make room.
LEMMA ReleaseCalls ==
  ASSUME NEW h, NEW h2, Shape(h), FrontLeaves(h, h2)
  PROVE  /\ \A call \in CallSet : ConsumerCall(h, call) => ConsumerCall(h2, call)
         /\ \A call \in CallSet : \A s : ProducerCall(h, call, s) => ProducerCall(h2, call, s)
         /\ \A s, mask : Sizing(h, s, mask) => Sizing(h2, s, mask)
<1>1. SameButReleased(h, h2) /\ h2.rel = h.rel + 1 BY DEF FrontLeaves
<1>2. /\ LastVisit(h2) = LastVisit(h) /\ \A v, x : IndexOf(h2, v, x) = IndexOf(h, v, x)
      /\ \A v : (Linked(h2, v) <=> Linked(h, v))
  BY ReleaseSame
<1>3. h.rel \in Nat BY ShapeFacts
<1>4. \A call, q : Walk(h, call, q) <=> Walk(h2, call, q)
  BY <1>1, <1>2 DEF Walk, SameButReleased
<1>5. \A call \in CallSet : ConsumerCall(h, call) => ConsumerCall(h2, call)
  BY <1>1, <1>2, <1>4 DEF ConsumerCall, SameButReleased
<1>6. \A call \in CallSet : call.start \in Nat BY CallFields
<1>7. \A call \in CallSet : call.start <= h.rel => call.start <= h2.rel BY <1>1, <1>3, <1>6
<1>8. \A call \in CallSet : \A s : ProducerCall(h, call, s) => ProducerCall(h2, call, s)
  BY <1>1, <1>2, <1>7 DEF ProducerCall, SameButReleased
<1>9. \A s, mask : Sizing(h, s, mask) => Sizing(h2, s, mask)
  BY <1>1, <1>2 DEF Sizing, SameButReleased
<1> QED BY <1>5, <1>8, <1>9

\* The visits that the consumer has reached are linked and have no stores pending.
LEMMA ShownVisit ==
  ASSUME NEW h, Shape(h), Pend(h), NEW w \in 1..h.tail, w <= h.shown, NEW j \in {2, 3, 4, 5}
  PROVE  Tag(h.first[w], j) \notin DOMAIN h.S /\ Linked(h, w)
<1>1. h.shown \in Nat BY ShapeFacts
<1>2. \A i \in {2, 3, 4, 5} : Tag(h.first[w], i) \notin DOMAIN h.S BY <1>1, OpenVisit
<1> QED BY <1>2 DEF Linked

\* A move of frontBlock that reaches memory puts the block behind the last one of the
\* circle, as the first of the free blocks.
LEMMA FreeSame ==
  ASSUME NEW h, NEW h2, Shape(h), BlockLeaves(h, h2)
  PROVE  /\ LastVisit(h2) = LastVisit(h) + 1
         /\ \A v \in 1..LastVisit(h) : h2.block[v] = h.block[v] /\ h2.room[v] = h.room[v]
         /\ \A v \in 1..LastVisit(h) : \A x : IndexOf(h2, v, x) = IndexOf(h, v, x)
         /\ h2.block[LastVisit(h) + 1] = h.block[h.freed] /\ h2.room[LastVisit(h) + 1] = h.room[h.freed]
         /\ \A v : MemTail(h2, v) = MemTail(h, v) /\ OwnFront(h2, v) = OwnFront(h, v)
         /\ \A v : (Linked(h2, v) <=> Linked(h, v)) /\ (Begins(h2, v) <=> Begins(h, v)) /\ Kinds(h2, v) = Kinds(h, v)
         /\ \A v \in (h.freed + 1)..h.tail : MemFront(h2, v) = MemFront(h, v)
<1>0. /\ h.freed \in Nat /\ h.freed >= 1 /\ h.front \in Nat /\ h.tail \in Nat /\ h.front <= h.tail /\ h.n \in Nat
      /\ LastVisit(h) \in Nat /\ LastVisit(h) = h.freed + h.n - 1 /\ h.tail <= LastVisit(h)
  BY ShapeFacts
<1>1. /\ SameButFreed(h, h2) /\ h2.freed = h.freed + 1 /\ h.freed < h.front /\ h.rel + 1 = h.first[h.freed + 1]
      /\ h2.block = [v \in 1..(LastVisit(h) + 1) |-> IF v = LastVisit(h) + 1 THEN h.block[h.freed] ELSE h.block[v]]
      /\ h2.room = [v \in 1..(LastVisit(h) + 1) |-> IF v = LastVisit(h) + 1 THEN h.room[h.freed] ELSE h.room[v]]
  BY DEF BlockLeaves
<1>2. LastVisit(h2) = LastVisit(h) + 1
  <2>1. LastVisit(h2) = h2.freed + h2.n - 1 BY DEF LastVisit
  <2>2. h2.n = h.n BY <1>1 DEF SameButFreed
  <2> QED BY <1>0, <1>1, <2>1, <2>2
<1>3. \A v \in 1..LastVisit(h) : h2.block[v] = h.block[v] /\ h2.room[v] = h.room[v] BY <1>0, <1>1
<1>4. h2.block[LastVisit(h) + 1] = h.block[h.freed] /\ h2.room[LastVisit(h) + 1] = h.room[h.freed]
  BY <1>0, <1>1
<1>5. \A v \in 1..LastVisit(h) : \A x : IndexOf(h2, v, x) = IndexOf(h, v, x)
  BY <1>1, <1>3 DEF IndexOf, SameButFreed
<1>6. \A v : MemTail(h2, v) = MemTail(h, v) /\ OwnFront(h2, v) = OwnFront(h, v)
  BY <1>1 DEF MemTail, OwnFront, SameButFreed
<1>7. \A v : (Linked(h2, v) <=> Linked(h, v)) /\ (Begins(h2, v) <=> Begins(h, v))
  BY <1>1 DEF Linked, Begins, SameButFreed
<1>8. \A v : Kinds(h2, v) = Kinds(h, v) BY <1>1, <1>7 DEF Kinds, SameButFreed
<1>9. \A v \in (h.freed + 1)..h.tail : MemFront(h2, v) = MemFront(h, v)
  <2> TAKE v \in (h.freed + 1)..h.tail
  <2>1. v # h.freed BY <1>0
  <2>2. MemFront(h, v) = h.first[v] BY <2>1 DEF MemFront
  <2>3. MemFront(h2, v) = IF v = h.freed + 1 THEN h.rel + 1 ELSE h.first[v]
    BY <1>1 DEF MemFront, SameButFreed
  <2> QED BY <1>1, <2>2, <2>3
<1> QED BY <1>2, <1>3, <1>4, <1>5, <1>6, <1>7, <1>8, <1>9

\* The circle is read from one block further on.
LEMMA FreeNext ==
  ASSUME NEW h, NEW h2, Shape(h), BlockLeaves(h, h2)
  PROVE  /\ \A v \in (h.freed + 1)..LastVisit(h) : NextOf(h2, v) = NextOf(h, v)
         /\ NextOf(h2, LastVisit(h) + 1) = NextOf(h, h.freed) /\ NextOf(h, h.freed) = h.block[h.freed + 1]
<1>0. /\ h.freed \in Nat /\ h.freed >= 1 /\ h.front \in Nat /\ h.tail \in Nat /\ h.front <= h.tail
      /\ LastVisit(h) \in Nat /\ h.tail <= LastVisit(h)
  BY ShapeFacts
<1>1. h2.freed = h.freed + 1 /\ h.freed < h.front BY DEF BlockLeaves
<1>2. /\ LastVisit(h2) = LastVisit(h) + 1
      /\ \A v \in 1..LastVisit(h) : h2.block[v] = h.block[v]
      /\ h2.block[LastVisit(h) + 1] = h.block[h.freed]
  BY FreeSame
<1>3. ASSUME NEW v \in (h.freed + 1)..LastVisit(h) PROVE NextOf(h2, v) = NextOf(h, v)
  <2>1. v # LastVisit(h) + 1 /\ (v # LastVisit(h) => v + 1 \in 1..LastVisit(h)) BY <1>0
  <2>2. NextOf(h2, v) = h2.block[v + 1] BY <1>2, <2>1 DEF NextOf
  <2>3. CASE v = LastVisit(h) BY <1>2, <2>2, <2>3 DEF NextOf
  <2>4. CASE v # LastVisit(h) BY <1>2, <2>1, <2>2, <2>4 DEF NextOf
  <2> QED BY <2>3, <2>4
<1>4. NextOf(h, h.freed) = h.block[h.freed + 1]
  <2>1. h.freed # LastVisit(h) BY <1>0, <1>1
  <2> QED BY <2>1 DEF NextOf
<1>5. NextOf(h2, LastVisit(h) + 1) = h.block[h.freed + 1]
  <2>1. h.freed + 1 \in 1..LastVisit(h) BY <1>0, <1>1
  <2> QED BY <1>1, <1>2, <2>1 DEF NextOf
<1> QED BY <1>3, <1>4, <1>5

\* The links are those they were.
LEMMA FreeLink ==
  ASSUME NEW h, NEW h2, Shape(h), BlockLeaves(h, h2), NEW v \in (h.freed + 1)..LastVisit(h), NEW b,
         Link(h, v, b)
  PROVE  Link(h2, v, b)
<1>0. /\ h.freed \in Nat /\ h.freed >= 1 /\ h.tail \in Nat /\ LastVisit(h) \in Nat /\ h.tail <= LastVisit(h)
  BY ShapeFacts
<1>1. h2.freed = h.freed + 1 /\ SameButFreed(h, h2) BY DEF BlockLeaves
<1>2. /\ LastVisit(h2) = LastVisit(h) + 1
      /\ \A w \in 1..LastVisit(h) : h2.block[w] = h.block[w]
      /\ h2.block[LastVisit(h) + 1] = h.block[h.freed]
      /\ \A w : (Linked(h2, w) <=> Linked(h, w))
  BY FreeSame
<1>3. NextOf(h2, v) = NextOf(h, v) BY FreeNext
<1>4. ASSUME v < h.tail, Stale(h, v, b) PROVE Stale(h2, v, b)
  <2>1. PICK w \in h.freed..LastVisit(h) : b = h.block[w] /\ (w = h.freed \/ w > v + 1) /\ Linked(h, w)
    BY <1>4 DEF Stale
  <2>2. CASE w = h.freed
    <3>1. LastVisit(h) + 1 \in h2.freed..LastVisit(h2) /\ LastVisit(h) + 1 > v + 1 /\ LastVisit(h) + 1 > h.tail
      BY <1>0, <1>1, <1>2, <1>4
    <3>2. LastVisit(h) + 1 \notin h.grown
      <4>1. h.grown \subseteq 2..h.tail BY DEF Shape, Circular
      <4> QED BY <1>0, <3>1, <4>1
    <3>3. Linked(h2, LastVisit(h) + 1) BY <1>2, <3>2 DEF Linked
    <3>4. b = h2.block[LastVisit(h) + 1] BY <1>2, <2>1, <2>2
    <3> QED BY <3>1, <3>3, <3>4 DEF Stale
  <2>3. CASE w # h.freed
    <3>1. w \in h2.freed..LastVisit(h2) /\ w \in 1..LastVisit(h) BY <1>0, <1>1, <1>2, <2>3
    <3> QED BY <1>2, <2>1, <2>3, <3>1 DEF Stale
  <2> QED BY <2>2, <2>3
<1>5. h2.tail = h.tail /\ h2.first = h.first /\ h2.S = h.S BY <1>1 DEF SameButFreed
<1> QED BY <1>3, <1>4, <1>5 DEF Link

\* The history keeps its shape when the consumer's old front block becomes free.
LEMMA FreeShape ==
  ASSUME NEW h, NEW h2, Shape(h), BlockLeaves(h, h2)
  PROVE  Shape(h2)
<1>0. /\ h.freed \in Nat /\ h.freed >= 1 /\ h.front \in Nat /\ h.tail \in Nat /\ h.front <= h.tail /\ h.n \in Nat
      /\ LastVisit(h) \in Nat /\ h.tail <= LastVisit(h) /\ h.rel \in Nat /\ h.unit \in Nat
  BY ShapeFacts
<1>1. SameButFreed(h, h2) /\ h2.freed = h.freed + 1 /\ h.freed < h.front /\ h.rel + 1 = h.first[h.freed + 1]
  BY DEF BlockLeaves
<1>2. /\ LastVisit(h2) = LastVisit(h) + 1
      /\ \A w \in 1..LastVisit(h) : h2.block[w] = h.block[w] /\ h2.room[w] = h.room[w]
      /\ h2.block[LastVisit(h) + 1] = h.block[h.freed] /\ h2.room[LastVisit(h) + 1] = h.room[h.freed]
      /\ \A v : MemTail(h2, v) = MemTail(h, v)
      /\ \A v \in (h.freed + 1)..h.tail : MemFront(h2, v) = MemFront(h, v)
  BY FreeSame
<1>3. Counters(h2) BY <1>0, <1>1, <1>2 DEF Shape, Counters, SameButFreed
<1>4. Visits(h2) BY <1>1 DEF Shape, Visits, SameButFreed
<1>5. Positions(h2)
  <2>1. h.freed + 1 \in 2..h.tail /\ h.tail \in (h.freed + 1)..h.tail /\ h.tail \in 1..LastVisit(h)
    BY <1>0, <1>1
  <2>2. h.first[h.freed + 1] < h.first[(h.freed + 1) + 1] BY <2>1 DEF Shape, Visits
  <2>3. (h.freed + 1) + 1 \in 1..(h.tail + 1) /\ h.freed + 1 \in 1..(h.tail + 1) BY <1>0, <1>1
  <2>4. h.first[h.freed + 1] \in Nat /\ h.first[(h.freed + 1) + 1] \in Nat BY <2>3, FirstType
  <2>5. h.first[h2.freed] <= h.rel + 1 /\ h.rel + 1 <= h.first[h2.freed + 1] BY <1>1, <2>2, <2>4
  <2>6. \A v \in h2.freed..h.tail : h.first[v + 1] - MemFront(h2, v) < h2.room[v]
    <3> TAKE v \in h2.freed..h.tail
    <3>1. v \in h.freed..h.tail /\ v \in (h.freed + 1)..h.tail /\ v \in 1..LastVisit(h)
      BY <1>0, <1>1
    <3>2. h.first[v + 1] - MemFront(h, v) < h.room[v] BY <3>1 DEF Shape, Positions
    <3> QED BY <1>2, <3>1, <3>2
  <2>7. MemFront(h2, h.tail) = MemFront(h, h.tail) /\ h2.room[h.tail] = h.room[h.tail] BY <1>2, <2>1
  <2>8. /\ h.first[h.front] <= h.got + 1 /\ h.got + 1 <= h.first[h.front + 1]
        /\ h.first[h.shown] <= h.pub + 1 /\ h.pub + 1 <= h.first[h.shown + 1]
        /\ h.shown > 1 => h.first[h.shown] <= h.pub
        /\ h.lt \in Nat /\ h.got + 1 <= h.lt /\ h.lt <= MemTail(h, h.front)
        /\ h.lf \in Nat /\ h.first[h.tail] <= h.lf /\ h.lf <= MemFront(h, h.tail)
        /\ h.sent + 1 - h.lf < h.room[h.tail]
    BY DEF Shape, Positions
  <2> QED BY <1>1, <1>2, <2>5, <2>6, <2>7, <2>8 DEF Positions, SameButFreed
<1>6. Circular(h2)
  <2>1. h.freed \in 1..LastVisit(h) /\ h.freed \in h.freed..LastVisit(h) BY <1>0, <1>1
  <2>2. h2.block \in [1..LastVisit(h2) -> 1..h2.n]
    <3>1. \A v \in 1..LastVisit(h) : h.block[v] \in 1..h.n BY BlockType
    <3>2. h2.n = h.n BY <1>1 DEF SameButFreed
    <3>3. h2.block = [v \in 1..(LastVisit(h) + 1) |-> IF v = LastVisit(h) + 1 THEN h.block[h.freed] ELSE h.block[v]]
      BY DEF BlockLeaves
    <3>4. \A v \in 1..(LastVisit(h) + 1) : v = LastVisit(h) + 1 \/ v \in 1..LastVisit(h) BY <1>0
    <3> QED BY <1>2, <2>1, <3>1, <3>2, <3>3, <3>4
  <2>3. h2.room \in [1..LastVisit(h2) -> Nat] /\ \A v \in 1..LastVisit(h2) : h2.room[v] > h2.unit
    <3>1. \A v \in 1..LastVisit(h) : h.room[v] \in Nat /\ h.room[v] > h.unit BY DEF Shape, Circular
    <3>2. h2.unit = h.unit BY <1>1 DEF SameButFreed
    <3>3. h2.room = [v \in 1..(LastVisit(h) + 1) |-> IF v = LastVisit(h) + 1 THEN h.room[h.freed] ELSE h.room[v]]
      BY DEF BlockLeaves
    <3>4. \A v \in 1..(LastVisit(h) + 1) : v = LastVisit(h) + 1 \/ v \in 1..LastVisit(h) BY <1>0
    <3> QED BY <1>2, <2>1, <3>1, <3>2, <3>3, <3>4
  <2>4. ASSUME NEW v \in h2.freed..LastVisit(h2), NEW w \in h2.freed..LastVisit(h2), h2.block[v] = h2.block[w] PROVE v = w
    <3>1. (v = LastVisit(h) + 1 \/ v \in (h.freed + 1)..LastVisit(h)) /\ (w = LastVisit(h) + 1 \/ w \in (h.freed + 1)..LastVisit(h))
      BY <1>0, <1>1, <1>2
    <3>2. ASSUME NEW u \in (h.freed + 1)..LastVisit(h) PROVE h2.block[u] = h.block[u] /\ h.block[u] # h.block[h.freed] /\ u \in h.freed..LastVisit(h)
      <4>1. u \in 1..LastVisit(h) /\ u \in h.freed..LastVisit(h) /\ u # h.freed BY <1>0
      <4> QED BY <1>2, <2>1, <4>1, BlockInj
    <3>3. CASE v = LastVisit(h) + 1 /\ w = LastVisit(h) + 1 BY <3>3
    <3>4. CASE v = LastVisit(h) + 1 /\ w \in (h.freed + 1)..LastVisit(h) BY <1>2, <2>4, <3>2, <3>4
    <3>5. CASE w = LastVisit(h) + 1 /\ v \in (h.freed + 1)..LastVisit(h) BY <1>2, <2>4, <3>2, <3>5
    <3>6. CASE w \in (h.freed + 1)..LastVisit(h) /\ v \in (h.freed + 1)..LastVisit(h)
      BY <2>4, <3>2, <3>6, BlockInj
    <3> QED BY <3>1, <3>3, <3>4, <3>5, <3>6
  <2>5. ASSUME NEW b \in 1..h2.n PROVE \E v \in h2.freed..LastVisit(h2) : h2.block[v] = b
    <3>1. b \in 1..h.n BY <1>1 DEF SameButFreed
    <3>2. PICK v \in h.freed..LastVisit(h) : h.block[v] = b BY <3>1 DEF Shape, Circular
    <3>3. CASE v = h.freed
      <4>1. LastVisit(h) + 1 \in h2.freed..LastVisit(h2) BY <1>0, <1>1, <1>2
      <4> QED BY <1>2, <3>2, <3>3, <4>1
    <3>4. CASE v # h.freed
      <4>1. v \in h2.freed..LastVisit(h2) /\ v \in 1..LastVisit(h) BY <1>0, <1>1, <1>2, <3>4
      <4> QED BY <1>2, <3>2, <4>1
    <3> QED BY <3>3, <3>4
  <2>6. h2.grown \subseteq 2..h2.tail BY <1>1 DEF SameButFreed, Shape, Circular
  <2> QED BY <2>2, <2>3, <2>4, <2>5, <2>6 DEF Circular
<1> QED BY <1>3, <1>4, <1>5, <1>6 DEF Shape

\* The producer's pending stores stay its own.
LEMMA FreePend ==
  ASSUME NEW h, NEW h2, Shape(h), Pend(h), BlockLeaves(h, h2)
  PROVE  Pend(h2)
<1>0. /\ h.freed \in Nat /\ h.freed >= 1 /\ h.tail \in Nat /\ LastVisit(h) \in Nat /\ h.tail <= LastVisit(h)
      /\ h.pub \in Nat /\ h.sent \in Nat /\ h.front \in Nat /\ h.shown \in Nat /\ h.front <= h.shown /\ h.freed < h.front
  BY ShapeFacts DEF BlockLeaves
<1>1. SameButFreed(h, h2) BY DEF BlockLeaves
<1>2. /\ \A w \in 1..LastVisit(h) : h2.block[w] = h.block[w]
      /\ \A v \in 1..LastVisit(h) : \A x : IndexOf(h2, v, x) = IndexOf(h, v, x)
      /\ \A v : (Begins(h2, v) <=> Begins(h, v)) /\ Kinds(h2, v) = Kinds(h, v)
  BY FreeSame
<1>4. PendingTags(h2) BY <1>1, <1>2 DEF Pend, PendingTags, SameButFreed
<1>6. \A e \in (h2.pub + 1)..h2.sent : Tag(e, 7) \in DOMAIN h2.S BY <1>4 DEF PendingTags
<1>7. ASSUME NEW e \in (h2.pub + 1)..h2.sent, NEW k \in 1..7, Tag(e, k) \in DOMAIN h2.S PROVE StoreIs(h2, e, k, h2.S[Tag(e, k)])
  <2>1. h2.pub = h.pub /\ h2.sent = h.sent /\ h2.S = h.S /\ h2.visit = h.visit
    BY <1>1 DEF SameButFreed
  <2>2. PICK x : x = h.S[Tag(e, k)] OBVIOUS
  <2>3. StoreIs(h, e, k, x) /\ Tag(e, k) \in DOMAIN h.S /\ e \in (h.pub + 1)..h.sent
    BY <1>7, <2>1, <2>2, StoreAt DEF Pend
  <2>4. e \in 1..h.sent /\ e > h.pub /\ e \in Nat BY <1>0, <2>3
  <2>5. h.visit[e] \in 1..h.tail BY <2>4, VisitType
  <2>6. h.shown <= h.visit[e] BY <2>4, VisitsOf
  <2>7. h.visit[e] \in 1..LastVisit(h) /\ h.visit[e] \in (h.freed + 1)..LastVisit(h) /\ h.visit[e] - 1 \in 1..LastVisit(h)
    BY <1>0, <2>5, <2>6
  <2>8. h2.block[h.visit[e]] = h.block[h.visit[e]] /\ h2.block[h.visit[e] - 1] = h.block[h.visit[e] - 1]
    BY <1>2, <2>7
  <2>9. Link(h, h.visit[e], x.val) => Link(h2, h.visit[e], x.val) BY <2>7, FreeLink
  <2>10. \A y : IndexOf(h2, h.visit[e], y) = IndexOf(h, h.visit[e], y) BY <1>2, <2>7
  <2>11. StoreIs(h2, e, k, x) BY <1>2, <2>1, <2>3, <2>8, <2>9, <2>10 DEF StoreIs
  <2> QED BY <2>1, <2>2, <2>11
<1>8. PendingStores(h2) BY <1>6, <1>7, StoresFromParts
<1> QED BY <1>4, <1>8 DEF Pend

\* The consumer's other pending stores stay in order.
LEMMA FreeFronts ==
  ASSUME NEW h, NEW h2, Shape(h), PendingFronts(h), BlockLeaves(h, h2)
  PROVE  PendingFronts(h2)
<1>0. /\ h.freed \in Nat /\ h.freed >= 1 /\ h.front \in Nat /\ h.tail \in Nat /\ h.front <= h.tail
      /\ h.rel \in Nat /\ h.got \in Nat /\ h.sent \in Nat /\ h.got <= h.sent /\ LastVisit(h) \in Nat /\ h.tail <= LastVisit(h)
  BY ShapeFacts
<1>1. SameButFreed(h, h2) /\ h2.freed = h.freed + 1 /\ After(h.R, Tag(h.first[h.freed + 1], 2), h2.R) /\ h.freed < h.front
  BY DEF BlockLeaves
<1>2. DOMAIN h2.R \subseteq DOMAIN h.R \ {Tag(h.first[h.freed + 1], 2)} /\ \A u \in DOMAIN h2.R : h2.R[u] = h.R[u]
  BY <1>1 DEF After
<1>3. /\ \A v \in 1..LastVisit(h) : \A x : IndexOf(h2, v, x) = IndexOf(h, v, x)
      /\ \A w \in 1..LastVisit(h) : h2.block[w] = h.block[w]
  BY FreeSame
<1>4. /\ h2.front = h.front /\ h2.got = h.got /\ h2.rel = h.rel /\ h2.first = h.first /\ h2.visit = h.visit
  BY <1>1 DEF SameButFreed
<1>a. h.freed + 1 \in 1..h.tail /\ h.freed + 1 \in 1..(h.tail + 1) BY <1>0, <1>1
<1>b. h.first[h.freed + 1] \in Nat BY <1>a, FirstType
<1>5. DOMAIN h2.R \subseteq Nat BY <1>2 DEF PendingFronts
<1>6. ASSUME NEW t \in DOMAIN h2.R
      PROVE  \/ \E e \in (h2.rel + 1)..h2.got : t = Tag(e, 4)
             \/ \E v \in (h2.freed + 1)..h2.front : t = Tag(h2.first[v], 2)
             \/ h2.R[t] = Fence
  <2>1. t \in DOMAIN h.R /\ t # Tag(h.first[h.freed + 1], 2) /\ h2.R[t] = h.R[t] BY <1>2
  <2>2. ASSUME NEW v \in (h.freed + 1)..h.front, t = Tag(h.first[v], 2) PROVE v \in (h2.freed + 1)..h2.front
    <3>1. v # h.freed + 1 BY <2>1, <2>2
    <3> QED BY <1>0, <1>1, <1>4, <3>1
  <2> QED BY <1>4, <2>1, <2>2 DEF PendingFronts
<1>7. \A t \in DOMAIN h2.R : \/ t < Tag(h2.got + 1, 1)
                             \/ h2.first[h2.front] = h2.got + 1 /\ t <= Tag(h2.got + 1, 2)
  BY <1>2, <1>4 DEF PendingFronts
<1>8. ASSUME NEW e \in (h2.rel + 1)..h2.got
      PROVE  /\ Tag(e, 4) \in DOMAIN h2.R
             /\ h2.R[Tag(e, 4)] = Store(<<"front", h2.block[h2.visit[e]]>>, IndexOf(h2, h2.visit[e], e + 1))
  <2>1. e \in (h.rel + 1)..h.got /\ e \in Nat /\ e \in 1..h.sent BY <1>0, <1>4
  <2>2. Tag(e, 4) \in DOMAIN h.R /\ h.R[Tag(e, 4)] = Store(<<"front", h.block[h.visit[e]]>>, IndexOf(h, h.visit[e], e + 1))
    BY <2>1 DEF PendingFronts
  <2>3. Tag(e, 4) # Tag(h.first[h.freed + 1], 2) BY <1>b, <2>1 DEF Tag
  <2>4. h.R[Tag(e, 4)] # Fence
    <3>1. h.R[Tag(e, 4)].loc = <<"front", h.block[h.visit[e]]>> BY <2>2 DEF Store
    <3>2. h.R[Tag(e, 4)].loc[1] = "front" BY <3>1
    <3> QED BY <3>2 DEF Fence
  <2>5. h.visit[e] \in 1..h.tail BY <2>1, VisitType
  <2>6. h.visit[e] \in 1..LastVisit(h) BY <1>0, <2>5
  <2>7. h2.block[h.visit[e]] = h.block[h.visit[e]] /\ IndexOf(h2, h.visit[e], e + 1) = IndexOf(h, h.visit[e], e + 1)
    BY <1>3, <2>6
  <2> QED BY <1>1, <1>4, <2>2, <2>3, <2>4, <2>7, FrontsKept
<1>9. ASSUME NEW v \in (h2.freed + 1)..h2.front
      PROVE  /\ Tag(h2.first[v], 2) \in DOMAIN h2.R
             /\ h2.R[Tag(h2.first[v], 2)] = Store(<<"frontBlock">>, h2.block[v])
  <2>1. v \in (h.freed + 1)..h.front /\ v \in 1..h.tail /\ v \in 1..(h.tail + 1) /\ h.freed + 1 < v /\ v \in 1..LastVisit(h)
    BY <1>0, <1>1, <1>4
  <2>2. Tag(h.first[v], 2) \in DOMAIN h.R /\ h.R[Tag(h.first[v], 2)] = Store(<<"frontBlock">>, h.block[v])
    BY <2>1 DEF PendingFronts
  <2>3. h.first[v] \in Nat BY <2>1, FirstType
  <2>4. h.first[h.freed + 1] < h.first[v] BY <1>a, <2>1, FirstStrict
  <2>5. Tag(h.first[v], 2) # Tag(h.first[h.freed + 1], 2) BY <1>b, <2>3, <2>4 DEF Tag
  <2>6. h.R[Tag(h.first[v], 2)] # Fence
    <3>1. h.R[Tag(h.first[v], 2)].loc = <<"frontBlock">> BY <2>2 DEF Store
    <3>2. h.R[Tag(h.first[v], 2)].loc[1] = "frontBlock" BY <3>1
    <3> QED BY <3>2 DEF Fence
  <2> QED BY <1>1, <1>3, <1>4, <2>1, <2>2, <2>5, <2>6, FrontsKept
<1> QED BY <1>5, <1>6, <1>7, <1>8, <1>9 DEF PendingFronts

\* The block that became free is empty, in memory and to both threads.
LEMMA FreeBlockViews ==
  ASSUME NEW h, NEW h2, Shape(h), Pend(h), Fits(h), BlockLeaves(h, h2), NEW m, NEW m2,
         Wrote(m, m2, <<"frontBlock">>, h.block[h.freed + 1]),
         NEW P, NEW P2, SameTails(P, P2), NEW C, NEW F, Views(h, m, P, C, F)
  PROVE  Views(h2, m2, P2, C, F)
<1>0. /\ h.freed \in Nat /\ h.tail <= LastVisit(h) /\ h.tail \in Nat /\ LastVisit(h) \in Nat /\ h.freed >= 1
      /\ h.freed <= h.front /\ h.front <= h.shown /\ h.shown <= h.tail /\ h.shown \in Nat /\ h.front \in Nat /\ h.n \in Nat /\ h.got \in Nat /\ h.sent \in Nat
  BY ShapeFacts
<1>1. SameButFreed(h, h2) /\ h2.freed = h.freed + 1 /\ h.freed < h.front /\ h.rel + 1 = h.first[h.freed + 1]
  BY DEF BlockLeaves
<1>2. /\ LastVisit(h2) = LastVisit(h) + 1
      /\ \A v \in 1..LastVisit(h) : h2.block[v] = h.block[v] /\ h2.room[v] = h.room[v]
      /\ \A v \in 1..LastVisit(h) : \A x : IndexOf(h2, v, x) = IndexOf(h, v, x)
      /\ h2.block[LastVisit(h) + 1] = h.block[h.freed] /\ h2.room[LastVisit(h) + 1] = h.room[h.freed]
      /\ \A v : MemTail(h2, v) = MemTail(h, v) /\ OwnFront(h2, v) = OwnFront(h, v)
      /\ \A v \in (h.freed + 1)..h.tail : MemFront(h2, v) = MemFront(h, v)
  BY FreeSame
<1>3. /\ h2.front = h.front /\ h2.shown = h.shown /\ h2.tail = h.tail /\ h2.n = h.n
      /\ h2.got = h.got /\ h2.sent = h.sent /\ h2.first = h.first /\ h2.visit = h.visit
      /\ h2.lt = h.lt /\ h2.lf = h.lf /\ h2.S = h.S
  BY <1>1 DEF SameButFreed
<1>4. \A b \in Blocks : /\ m2[<<"tail", b>>] = m[<<"tail", b>>] /\ m2[<<"next", b>>] = m[<<"next", b>>]
                        /\ m2[<<"localTail", b>>] = m[<<"localTail", b>>] /\ m2[<<"front", b>>] = m[<<"front", b>>]
  BY PlacesOf, PlacesDiffer DEF Wrote
<1>5. m2[<<"tailBlock">>] = m[<<"tailBlock">>] /\ m2[<<"frontBlock">>] = h.block[h.freed + 1]
  BY PlacesOf, PlacesDiffer DEF Wrote
<1>6. ASSUME NEW v \in h.freed..LastVisit(h) PROVE h.block[v] \in Blocks
  <2>1. v \in 1..LastVisit(h) BY <1>0
  <2> QED BY <2>1, BlockFits
<1>a. /\ h2.freed..h.tail \subseteq h.freed..LastVisit(h) /\ h2.freed..h.tail \subseteq (h.freed + 1)..h.tail
      /\ h2.freed..h.tail \subseteq 1..LastVisit(h) /\ h2.freed..h.tail \subseteq h.freed..h.tail
      /\ (h.tail + 1)..LastVisit(h) \subseteq h.freed..LastVisit(h) /\ (h.tail + 1)..LastVisit(h) \subseteq 1..LastVisit(h)
      /\ h.tail \in 1..LastVisit(h) /\ h.shown \in 1..LastVisit(h) /\ h.front \in 1..LastVisit(h) /\ h.freed + 1 \in 1..LastVisit(h)
      /\ h.freed \in h.freed..h.tail /\ h.freed \in h.freed..LastVisit(h) /\ h.front \in h.freed..LastVisit(h)
        BY <1>0, <1>1
<1>7. TailViews(h2, m2, P2)
  <2>1. TailViews(h, m, P) BY DEF Views
  <2>2. ASSUME NEW v \in h2.freed..h.tail
        PROVE  /\ m2[<<"tail", h2.block[v]>>] = m[<<"tail", h.block[v]>>] /\ P2[<<"tail", h2.block[v]>>] = P[<<"tail", h.block[v]>>]
               /\ \A x : IndexOf(h2, v, x) = IndexOf(h, v, x)
    <3>1. h.block[v] \in Blocks BY <1>6, <1>a
    <3>2. h2.block[v] = h.block[v] /\ \A x : IndexOf(h2, v, x) = IndexOf(h, v, x) BY <1>2, <1>a
    <3>3. m2[<<"tail", h.block[v]>>] = m[<<"tail", h.block[v]>>] BY <1>4, <3>1
    <3>4. P2[<<"tail", h.block[v]>>] = P[<<"tail", h.block[v]>>] BY <3>1 DEF SameTails
    <3> QED BY <3>2, <3>3, <3>4
  <2>3. \A v \in h2.freed..h.tail : /\ P[<<"tail", h.block[v]>>] = IndexOf(h, v, h.first[v + 1])
                                    /\ m[<<"tail", h.block[v]>>] = IndexOf(h, v, MemTail(h, v))
    BY <1>a, <2>1 DEF TailViews
  <2>4. P2[<<"tailBlock">>] = h2.block[h.tail] /\ m2[<<"tailBlock">>] = h2.block[h.shown]
    BY <1>2, <1>5, <1>a, <2>1 DEF TailViews, SameTails
  <2>5. ASSUME NEW v \in h2.freed..h.tail
        PROVE  P2[<<"tail", h2.block[v]>>] = IndexOf(h2, v, h.first[v + 1]) /\ m2[<<"tail", h2.block[v]>>] = IndexOf(h2, v, MemTail(h2, v))
    <3>1. MemTail(h2, v) = MemTail(h, v) BY <1>2
    <3>3. /\ IndexOf(h2, v, h.first[v + 1]) = IndexOf(h, v, h.first[v + 1])
          /\ IndexOf(h2, v, MemTail(h2, v)) = IndexOf(h, v, MemTail(h, v))
      BY <2>2, <3>1
    <3>4. P2[<<"tail", h2.block[v]>>] = P[<<"tail", h.block[v]>>] /\ m2[<<"tail", h2.block[v]>>] = m[<<"tail", h.block[v]>>]
      BY <2>2
    <3>5. P[<<"tail", h.block[v]>>] = IndexOf(h, v, h.first[v + 1]) /\ m[<<"tail", h.block[v]>>] = IndexOf(h, v, MemTail(h, v))
      BY <2>3
    <3> QED BY <3>3, <3>4, <3>5
  <2> QED BY <1>3, <2>4, <2>5 DEF TailViews
<1>8. FrontViews(h2, m2, C)
  <2>1. FrontViews(h, m, C) BY DEF Views
  <2>2. \A v \in h2.freed..h.tail : /\ h2.block[v] = h.block[v] /\ m2[<<"front", h2.block[v]>>] = m[<<"front", h.block[v]>>]
                                    /\ \A x : IndexOf(h2, v, x) = IndexOf(h, v, x)
                                    /\ MemFront(h2, v) = MemFront(h, v)
    BY <1>2, <1>4, <1>6, <1>a
  <2>3. \A v \in h2.freed..h.tail : /\ C[<<"front", h.block[v]>>] = IndexOf(h, v, OwnFront(h, v))
                                    /\ m[<<"front", h.block[v]>>] = IndexOf(h, v, MemFront(h, v))
    BY <1>a, <2>1 DEF FrontViews
  <2>4. C[<<"frontBlock">>] = h2.block[h.front] /\ m2[<<"frontBlock">>] = h2.block[h2.freed]
    BY <1>1, <1>2, <1>5, <1>a, <2>1 DEF FrontViews
  <2>5. ASSUME NEW v \in h2.freed..h.tail
        PROVE  C[<<"front", h2.block[v]>>] = IndexOf(h2, v, OwnFront(h2, v)) /\ m2[<<"front", h2.block[v]>>] = IndexOf(h2, v, MemFront(h2, v))
    <3>1. OwnFront(h2, v) = OwnFront(h, v) BY <1>2
    <3>2. h2.block[v] = h.block[v] /\ m2[<<"front", h2.block[v]>>] = m[<<"front", h.block[v]>>]
      BY <2>2
    <3>3. /\ IndexOf(h2, v, OwnFront(h2, v)) = IndexOf(h, v, OwnFront(h, v))
          /\ IndexOf(h2, v, MemFront(h2, v)) = IndexOf(h, v, MemFront(h, v))
      BY <2>2, <3>1
    <3>4. C[<<"front", h.block[v]>>] = IndexOf(h, v, OwnFront(h, v)) /\ m[<<"front", h.block[v]>>] = IndexOf(h, v, MemFront(h, v))
      BY <2>3
    <3> QED BY <3>2, <3>3, <3>4
  <2> QED BY <1>3, <2>4, <2>5 DEF FrontViews
<1>9. FreeViews(h2, m2, P2, C, F)
  <2>1. FreeViews(h, m, P, C, F) /\ TailViews(h, m, P) /\ FrontViews(h, m, C) BY DEF Views
  <2>2. ASSUME NEW v \in (h.tail + 1)..LastVisit(h)
        PROVE  /\ m2[<<"tail", h2.block[v]>>] \in 0..(h2.room[v] - 1)
               /\ P2[<<"tail", h2.block[v]>>] = m2[<<"tail", h2.block[v]>>]
               /\ m2[<<"front", h2.block[v]>>] = m2[<<"tail", h2.block[v]>>]
               /\ C[<<"front", h2.block[v]>>] = m2[<<"tail", h2.block[v]>>]
    <3>1. h2.block[v] = h.block[v] /\ h2.room[v] = h.room[v] /\ h.block[v] \in Blocks
      BY <1>2, <1>6, <1>a
    <3>2. /\ m[<<"tail", h.block[v]>>] \in 0..(h.room[v] - 1) /\ P[<<"tail", h.block[v]>>] = m[<<"tail", h.block[v]>>]
          /\ m[<<"front", h.block[v]>>] = m[<<"tail", h.block[v]>>] /\ C[<<"front", h.block[v]>>] = m[<<"tail", h.block[v]>>]
      BY <2>1 DEF FreeViews
    <3>3. P2[<<"tail", h.block[v]>>] = P[<<"tail", h.block[v]>>] BY <3>1 DEF SameTails
    <3>4. m2[<<"tail", h.block[v]>>] = m[<<"tail", h.block[v]>>] /\ m2[<<"front", h.block[v]>>] = m[<<"front", h.block[v]>>]
      BY <1>4, <3>1
    <3> QED BY <3>1, <3>2, <3>3, <3>4
  <2>3. LET b == h.block[h.freed] IN
               /\ m2[<<"tail", b>>] \in 0..(h.room[h.freed] - 1)
               /\ P2[<<"tail", b>>] = m2[<<"tail", b>>]
               /\ m2[<<"front", b>>] = m2[<<"tail", b>>]
               /\ C[<<"front", b>>] = m2[<<"tail", b>>]
    <3>1. h.block[h.freed] \in Blocks BY <1>6, <1>a
    <3>2. MemTail(h, h.freed) = h.first[h.freed + 1]
      <4>1. h.freed < h.shown BY <1>0, <1>1
      <4> QED BY <4>1 DEF MemTail
    <3>3. OwnFront(h, h.freed) = h.first[h.freed + 1] BY <1>1 DEF OwnFront
    <3>4. MemFront(h, h.freed) = h.first[h.freed + 1] BY <1>1 DEF MemFront
    <3>5. h.first[h.freed + 1] \in Int BY <1>a, OrderedVisits DEF Ordered
    <3>6. IndexOf(h, h.freed, h.first[h.freed + 1]) \in 0..(h.room[h.freed] - 1)
      BY <1>a, <3>5, IndexNext
    <3>7. /\ m[<<"tail", h.block[h.freed]>>] = IndexOf(h, h.freed, h.first[h.freed + 1])
          /\ P[<<"tail", h.block[h.freed]>>] = IndexOf(h, h.freed, h.first[h.freed + 1])
      BY <1>a, <2>1, <3>2 DEF TailViews
    <3>8. /\ m[<<"front", h.block[h.freed]>>] = IndexOf(h, h.freed, h.first[h.freed + 1])
          /\ C[<<"front", h.block[h.freed]>>] = IndexOf(h, h.freed, h.first[h.freed + 1])
      BY <1>a, <2>1, <3>3, <3>4 DEF FrontViews
    <3>9. /\ m2[<<"tail", h.block[h.freed]>>] = m[<<"tail", h.block[h.freed]>>] /\ m2[<<"front", h.block[h.freed]>>] = m[<<"front", h.block[h.freed]>>]
          /\ P2[<<"tail", h.block[h.freed]>>] = P[<<"tail", h.block[h.freed]>>]
      BY <1>4, <3>1 DEF SameTails
    <3> QED BY <3>6, <3>7, <3>8, <3>9
  <2>4. \A b \in Blocks : b > h.n => m2[<<"tail", b>>] = 0 /\ m2[<<"front", b>>] = 0 /\ C[<<"front", b>>] = 0 /\ F[b] = 0
    BY <1>4, <2>1 DEF FreeViews
  <2>5. ASSUME NEW v \in (h2.tail + 1)..LastVisit(h2)
        PROVE  /\ m2[<<"tail", h2.block[v]>>] \in 0..(h2.room[v] - 1)
               /\ P2[<<"tail", h2.block[v]>>] = m2[<<"tail", h2.block[v]>>]
               /\ m2[<<"front", h2.block[v]>>] = m2[<<"tail", h2.block[v]>>]
               /\ C[<<"front", h2.block[v]>>] = m2[<<"tail", h2.block[v]>>]
    <3>1. v = LastVisit(h) + 1 \/ v \in (h.tail + 1)..LastVisit(h) BY <1>0, <1>2, <1>3
    <3>2. CASE v = LastVisit(h) + 1
      <4>1. h2.block[v] = h.block[h.freed] /\ h2.room[v] = h.room[h.freed] BY <1>2, <3>2
      <4> QED BY <2>3, <4>1
    <3>3. CASE v \in (h.tail + 1)..LastVisit(h) BY <2>2, <3>3
    <3> QED BY <3>1, <3>2, <3>3
  <2> QED BY <1>3, <2>4, <2>5 DEF FreeViews
<1>10. NextViews(h2, m2, P2)
  <2>1. NextViews(h, m, P) BY DEF Views
  <2>2. ASSUME NEW v \in (h.freed + 1)..LastVisit(h)
        PROVE  /\ P2[<<"next", h2.block[v]>>] = NextOf(h2, v)
               /\ \/ v <= h2.tail /\ Tag(h2.first[v], 4) \in DOMAIN h2.S
                  \/ Link(h2, v, m2[<<"next", h2.block[v]>>])
    <3>1. v \in 1..LastVisit(h) /\ v \in h.freed..LastVisit(h) BY <1>0
    <3>2. h2.block[v] = h.block[v] /\ h.block[v] \in Blocks BY <1>2, <1>6, <3>1
    <3>3. m2[<<"next", h2.block[v]>>] = m[<<"next", h.block[v]>>] /\ P2[<<"next", h2.block[v]>>] = P[<<"next", h.block[v]>>]
      <4>1. m2[<<"next", h.block[v]>>] = m[<<"next", h.block[v]>>] BY <1>4, <3>2
      <4>2. P2[<<"next", h.block[v]>>] = P[<<"next", h.block[v]>>] BY <3>2 DEF SameTails
      <4> QED BY <3>2, <4>1, <4>2
    <3>4. P[<<"next", h.block[v]>>] = NextOf(h, v) /\ (\/ v <= h.tail /\ Tag(h.first[v], 4) \in DOMAIN h.S
                                                      \/ Link(h, v, m[<<"next", h.block[v]>>]))
                                                        BY <2>1, <3>1 DEF NextViews
    <3>5. NextOf(h2, v) = NextOf(h, v) BY FreeNext
    <3>6. Link(h, v, m[<<"next", h.block[v]>>]) => Link(h2, v, m[<<"next", h.block[v]>>])
      BY FreeLink
    <3> QED BY <1>3, <3>3, <3>4, <3>5, <3>6
  <2>3. /\ P2[<<"next", h2.block[LastVisit(h) + 1]>>] = NextOf(h2, LastVisit(h) + 1)
        /\ Link(h2, LastVisit(h) + 1, m2[<<"next", h2.block[LastVisit(h) + 1]>>])
    <3>1. h2.block[LastVisit(h) + 1] = h.block[h.freed] /\ h.block[h.freed] \in Blocks
      BY <1>2, <1>6, <1>a
    <3>2. m2[<<"next", h.block[h.freed]>>] = m[<<"next", h.block[h.freed]>>] /\ P2[<<"next", h.block[h.freed]>>] = P[<<"next", h.block[h.freed]>>]
      BY <1>4, <3>1 DEF SameTails
    <3>3. P[<<"next", h.block[h.freed]>>] = NextOf(h, h.freed) /\ (\/ Tag(h.first[h.freed], 4) \in DOMAIN h.S
                                                      \/ Link(h, h.freed, m[<<"next", h.block[h.freed]>>]))
                                                        BY <1>a, <2>1 DEF NextViews
    <3>4. NextOf(h2, LastVisit(h) + 1) = NextOf(h, h.freed) BY FreeNext
    <3>5. h.freed \in 1..h.tail /\ h.freed + 1 \in 1..h.tail /\ h.freed <= h.shown /\ h.freed + 1 <= h.shown
      BY <1>0, <1>1
    <3>6. Tag(h.first[h.freed], 4) \notin DOMAIN h.S /\ Tag(h.first[h.freed + 1], 5) \notin DOMAIN h.S
      BY <3>5, ShownVisit
    <3>7. m[<<"next", h.block[h.freed]>>] = NextOf(h, h.freed) BY <3>3, <3>6 DEF Link
    <3>8. ~ (LastVisit(h) + 1 < h2.tail) BY <1>0, <1>3
    <3> QED BY <3>1, <3>2, <3>3, <3>4, <3>7, <3>8 DEF Link
  <2>4. ASSUME NEW v \in h2.freed..LastVisit(h2) PROVE v = LastVisit(h) + 1 \/ v \in (h.freed + 1)..LastVisit(h)
    BY <1>0, <1>1, <1>2
  <2>5. ASSUME NEW v \in h2.freed..LastVisit(h2)
        PROVE  /\ P2[<<"next", h2.block[v]>>] = NextOf(h2, v)
               /\ \/ v <= h2.tail /\ Tag(h2.first[v], 4) \in DOMAIN h2.S
                  \/ Link(h2, v, m2[<<"next", h2.block[v]>>])
    <3>1. CASE v = LastVisit(h) + 1 BY <2>3, <3>1
    <3>2. CASE v \in (h.freed + 1)..LastVisit(h) BY <2>2, <3>2
    <3> QED BY <2>4, <3>1, <3>2
  <2> QED BY <2>5 DEF NextViews
<1>11. DataViews(h2, m2)
  <2>1. DataViews(h, m) BY DEF Views
  <2>2. ASSUME NEW d \in (h.got + 1)..h.sent
        PROVE  m2[<<"data", h2.block[h.visit[d]], IndexOf(h2, h.visit[d], d)>>] = m[<<"data", h.block[h.visit[d]], IndexOf(h, h.visit[d], d)>>]
    <3>1. d \in 1..h.sent /\ d > h.got BY <1>0
    <3>2. <<"data", h.block[h.visit[d]], IndexOf(h, h.visit[d], d)>> \in Locations /\ h.visit[d] \in h.freed..h.tail
      BY <3>1, DataPlace
    <3>3. h.visit[d] \in 1..LastVisit(h) BY <1>0, <3>2
    <3>4. h2.block[h.visit[d]] = h.block[h.visit[d]] /\ IndexOf(h2, h.visit[d], d) = IndexOf(h, h.visit[d], d)
      BY <1>2, <3>3
    <3> QED BY <3>2, <3>4, PlacesDiffer DEF Wrote
  <2> QED BY <1>3, <2>1, <2>2 DEF DataViews
<1>12. ShadowViews(h2, m2, F)
  <2>1. ShadowViews(h, m, F) BY DEF Views
  <2>2. h.block[h.front] \in Blocks BY <1>6, <1>a
  <2>3. m2[<<"localTail", h.block[h.front]>>] = m[<<"localTail", h.block[h.front]>>] BY <1>4, <2>2
  <2>4. h2.block[h.front] = h.block[h.front] /\ h2.block[h.tail] = h.block[h.tail]
        /\ IndexOf(h2, h.front, h.lt) = IndexOf(h, h.front, h.lt) /\ IndexOf(h2, h.tail, h.lf) = IndexOf(h, h.tail, h.lf)
          BY <1>2, <1>a
  <2> QED BY <1>3, <2>1, <2>3, <2>4 DEF ShadowViews
<1> QED BY <1>7, <1>8, <1>9, <1>10, <1>11, <1>12 DEF Views

\* Neither thread's call depends on the block: a walk of size_approx goes on where it
\* was.
LEMMA FreeCalls ==
  ASSUME NEW h, NEW h2, Shape(h), BlockLeaves(h, h2)
  PROVE  /\ \A call \in CallSet : ConsumerCall(h, call) => ConsumerCall(h2, call)
         /\ \A call \in CallSet : \A s : ProducerCall(h, call, s) => ProducerCall(h2, call, s)
         /\ \A s, mask : Sizing(h, s, mask) => Sizing(h2, s, mask)
<1>0. /\ h.freed \in Nat /\ h.tail <= LastVisit(h) /\ h.tail \in Nat /\ LastVisit(h) \in Nat /\ h.freed >= 1 /\ h.n \in Nat
      /\ h.freed <= h.front /\ h.front <= h.shown /\ h.shown <= h.tail /\ h.shown \in Nat /\ h.front \in Nat
      /\ h.got \in Nat /\ h.pub \in Nat /\ h.sent \in Nat /\ h.got <= h.pub /\ h.pub <= h.sent
  BY ShapeFacts
<1>1. SameButFreed(h, h2) /\ h2.freed = h.freed + 1 /\ h.freed < h.front BY DEF BlockLeaves
<1>2. /\ LastVisit(h2) = LastVisit(h) + 1
      /\ \A v \in 1..LastVisit(h) : h2.block[v] = h.block[v] /\ h2.room[v] = h.room[v]
      /\ \A v \in 1..LastVisit(h) : \A x : IndexOf(h2, v, x) = IndexOf(h, v, x)
      /\ h2.block[LastVisit(h) + 1] = h.block[h.freed] /\ h2.room[LastVisit(h) + 1] = h.room[h.freed]
      /\ \A v : (Linked(h2, v) <=> Linked(h, v))
  BY FreeSame
<1>3. /\ h2.front = h.front /\ h2.shown = h.shown /\ h2.tail = h.tail /\ h2.n = h.n /\ h2.pub = h.pub /\ h2.rel = h.rel
      /\ h2.got = h.got /\ h2.sent = h.sent /\ h2.first = h.first /\ h2.visit = h.visit /\ h2.unit = h.unit
      /\ h2.lt = h.lt /\ h2.lf = h.lf /\ h2.S = h.S /\ h2.grown = h.grown
  BY <1>1 DEF SameButFreed
<1>4. /\ h.front \in 1..LastVisit(h) /\ h.tail \in 1..LastVisit(h) BY <1>0
<1>5. ASSUME NEW call \in CallSet, NEW q \in h.freed..LastVisit(h), Walk(h, call, q)
      PROVE  \E w \in h2.freed..LastVisit(h2) : Walk(h2, call, w)
  <2>1. CASE q = h.freed
    <3>1. LastVisit(h) + 1 \in h2.freed..LastVisit(h2) /\ LastVisit(h) + 1 > h.tail
      BY <1>0, <1>1, <1>2
    <3>2. call.start <= call.sum + h.got /\ call.block = h.block[h.freed] /\ call.sum + h.got <= h.sent
      BY <1>1, <1>5, <2>1 DEF Walk
    <3>3. Linked(h2, LastVisit(h) + 1)
      <4>1. h.grown \subseteq 2..h.tail BY DEF Shape, Circular
      <4>2. LastVisit(h) + 1 \notin h2.grown BY <1>0, <1>3, <4>1
      <4> QED BY <4>2 DEF Linked
    <3>4. LastVisit(h) + 1 \notin h2.front..h2.tail BY <1>0, <1>3
    <3>5. Walk(h2, call, LastVisit(h) + 1) BY <1>2, <1>3, <3>1, <3>2, <3>3, <3>4 DEF Walk
    <3> QED BY <3>1, <3>5
  <2>2. CASE q # h.freed
    <3>1. q \in h2.freed..LastVisit(h2) /\ q \in 1..LastVisit(h) BY <1>0, <1>1, <1>2, <2>2
    <3>2. h2.block[q] = h.block[q] BY <1>2, <3>1
    <3>3. Walk(h2, call, q) BY <1>2, <1>3, <1>5, <3>1, <3>2 DEF Walk
    <3> QED BY <3>1, <3>3
  <2> QED BY <2>1, <2>2
<1>6. ASSUME NEW call \in CallSet, ConsumerCall(h, call) PROVE ConsumerCall(h2, call)
  <2>1. (\E q \in h.freed..LastVisit(h) : Walk(h, call, q)) => (\E q \in h2.freed..LastVisit(h2) : Walk(h2, call, q))
    BY <1>5
  <2>2. h2.block[h.front] = h.block[h.front] BY <1>2, <1>4
  <2>3. call.pc = "advance" => h2.block[h.front + 1] = h.block[h.front + 1]
    <3> SUFFICES ASSUME call.pc = "advance" PROVE h2.block[h.front + 1] = h.block[h.front + 1] OBVIOUS
    <3>1. h.front < h.shown BY <1>6 DEF ConsumerCall
    <3>2. h.front + 1 \in 1..LastVisit(h) BY <1>0, <3>1
    <3> QED BY <1>2, <3>2
  <2>4. call.pc = "element" => /\ h2.block[h.visit[h.got + 1]] = h.block[h.visit[h.got + 1]]
                               /\ IndexOf(h2, h.visit[h.got + 1], h.got + 1) = IndexOf(h, h.visit[h.got + 1], h.got + 1)
    <3> SUFFICES ASSUME call.pc = "element" PROVE /\ h2.block[h.visit[h.got + 1]] = h.block[h.visit[h.got + 1]]
                               /\ IndexOf(h2, h.visit[h.got + 1], h.got + 1) = IndexOf(h, h.visit[h.got + 1], h.got + 1) OBVIOUS
    <3>1. h.got < h.pub BY <1>6 DEF ConsumerCall
    <3>2. h.got + 1 \in 1..h.sent BY <1>0, <3>1
    <3>3. h.visit[h.got + 1] \in 1..h.tail BY <3>2, VisitType
    <3>4. h.visit[h.got + 1] \in 1..LastVisit(h) BY <1>0, <3>3
    <3> QED BY <1>2, <3>4
  <2> QED BY <1>3, <1>6, <2>1, <2>2, <2>3, <2>4 DEF ConsumerCall
<1>8. ASSUME NEW call \in CallSet, NEW s, ProducerCall(h, call, s) PROVE ProducerCall(h2, call, s)
  <2>1. h2.room[h.tail] = h.room[h.tail] BY <1>2, <1>4
  <2>2. call.pc = "ahead" => h.tail < LastVisit(h2) /\ call.block = h2.block[h.tail + 1]
    <3> SUFFICES ASSUME call.pc = "ahead" PROVE h.tail < LastVisit(h2) /\ call.block = h2.block[h.tail + 1] OBVIOUS
    <3>1. h.tail < LastVisit(h) /\ call.block = h.block[h.tail + 1] BY <1>8 DEF ProducerCall
    <3>2. h.tail + 1 \in 1..LastVisit(h) /\ h.tail < LastVisit(h2) BY <1>0, <1>2, <3>1
    <3> QED BY <1>2, <3>1, <3>2
  <2> QED BY <1>3, <1>8, <2>1, <2>2 DEF ProducerCall
<1>9. ASSUME NEW s, NEW mask, Sizing(h, s, mask) PROVE Sizing(h2, s, mask)
  <2>1. \A v \in 1..LastVisit(h2) : h2.room[v] = mask[h2.block[v]] + 1
    <3> TAKE v \in 1..LastVisit(h2)
    <3>1. v = LastVisit(h) + 1 \/ v \in 1..LastVisit(h) BY <1>0, <1>2
    <3>2. h.freed \in 1..LastVisit(h) BY <1>0
    <3> QED BY <1>2, <1>9, <3>1, <3>2 DEF Sizing
  <2> QED BY <1>3, <1>9, <2>1 DEF Sizing
<1> QED BY <1>6, <1>8, <1>9

-----------------------------------------------------------------------------
(* An enqueue: elements, visits and blocks.                                *)

\* An element is written into the tail block.
SameVisit(h, h2) ==
  /\ h2.n = h.n /\ h2.unit = h.unit /\ h2.freed = h.freed /\ h2.front = h.front /\ h2.shown = h.shown /\ h2.tail = h.tail
  /\ h2.rel = h.rel /\ h2.got = h.got /\ h2.pub = h.pub /\ h2.sent = h.sent + 1 /\ h2.block = h.block /\ h2.room = h.room
  /\ h2.grown = h.grown /\ h2.base = h.base /\ h2.lt = h.lt /\ h2.R = h.R
  /\ h2.first = [v \in 1..(h.tail + 1) |-> IF v = h.tail + 1 THEN h.sent + 2 ELSE h.first[v]]
  /\ h2.visit = [d \in 1..(h.sent + 1) |-> IF d = h.sent + 1 THEN h.tail ELSE h.visit[d]]
  /\ h2.lf \in Nat /\ h.lf <= h2.lf /\ h2.lf <= MemFront(h, h.tail) /\ h.sent + 2 - h2.lf < h.room[h.tail]

\* An element is written into a block ahead, which starts visit tail + 1.
NewVisit(h, h2) ==
  /\ h2.unit = h.unit /\ h2.freed = h.freed /\ h2.front = h.front /\ h2.shown = h.shown /\ h2.tail = h.tail + 1
  /\ h2.rel = h.rel /\ h2.got = h.got /\ h2.pub = h.pub /\ h2.sent = h.sent + 1
  /\ h2.lt = h.lt /\ h2.R = h.R /\ h2.lf = h.sent + 1
  /\ h2.n \in Nat /\ h.n <= h2.n /\ h.tail < LastVisit(h2)
  /\ \A v \in 1..LastVisit(h) : h2.block[v] = h.block[v] /\ h2.room[v] = h.room[v]
  /\ h.grown \subseteq h2.grown /\ h2.grown \subseteq h.grown \cup {h.tail + 1}
  /\ h2.first = [v \in 1..(h.tail + 2) |-> IF v = h.tail + 2 THEN h.sent + 2 ELSE h.first[v]]
  /\ h2.base \in [1..(h.tail + 1) -> Int] /\ \A v \in 1..h.tail : h2.base[v] = h.base[v]
  /\ h2.visit = [d \in 1..(h.sent + 1) |-> IF d = h.sent + 1 THEN h.tail + 1 ELSE h.visit[d]]
  /\ h.sent + 2 - h.lf = h.room[h.tail]

\* The block ahead was free.
AheadVisit(h, h2) ==
  NewVisit(h, h2) /\ h2.n = h.n /\ h2.block = h.block /\ h2.room = h.room /\ h2.grown = h.grown

\* The block ahead is a new one.
GrownVisit(h, h2) ==
  /\ NewVisit(h, h2) /\ h2.n = h.n + 1 /\ h.tail = LastVisit(h) /\ h2.grown = h.grown \cup {h.tail + 1}
  /\ h2.block = [v \in 1..(h.tail + 1) |-> IF v = h.tail + 1 THEN h.n + 1 ELSE h.block[v]]
  /\ h2.room \in [1..(h.tail + 1) -> Nat] /\ h2.room[h.tail + 1] > h.unit

\* The stores of the new element joined the pending ones, and a fence with
\* nothing before it left.
Issued(h, h2, K) ==
  /\ K \subseteq 1..7
  /\ DOMAIN h2.S \subseteq DOMAIN h.S \cup {Tag(h.sent + 1, k) : k \in K}
  /\ \A k \in K : Tag(h.sent + 1, k) \in DOMAIN h2.S
  /\ \A t \in DOMAIN h.S : t \in DOMAIN h2.S => h2.S[t] = h.S[t]
  /\ \A t \in DOMAIN h.S : \/ t \in DOMAIN h2.S
                           \/ h.S[t] = Fence /\ \A u \in DOMAIN h.S : t <= u

\* The tags of the old elements stay, but for a fence.
LEMMA IssuedTags ==
  ASSUME NEW h, NEW h2, NEW K, Shape(h), Pend(h), Issued(h, h2, K), NEW d \in 1..h.sent,
         NEW j \in 1..7, j # 6
  PROVE  Tag(d, j) \in DOMAIN h2.S <=> Tag(d, j) \in DOMAIN h.S
<1>0. h.sent \in Nat /\ d \in Nat BY ShapeFacts
<1>1. Tag(d, j) \notin {Tag(h.sent + 1, k) : k \in K}
  <2>0. K \subseteq 1..7 BY DEF Issued
  <2>1. \A k \in K : Tag(d, j) # Tag(h.sent + 1, k) BY <1>0, <2>0 DEF Tag
  <2> QED BY <2>1
<1>2. ASSUME Tag(d, j) \in DOMAIN h.S PROVE Tag(d, j) \in DOMAIN h2.S
  <2>1. d \in (h.pub + 1)..h.sent BY <1>0, <1>2, TagOf
  <2>2. StoreIs(h, d, j, h.S[Tag(d, j)]) BY <1>2, <2>1, StoreAt DEF Pend
  <2>3. h.S[Tag(d, j)] # Fence BY <2>2, StoreFields
  <2> QED BY <1>2, <2>3 DEF Issued
<1> QED BY <1>1, <1>2 DEF Issued

\* An enqueue does not change the tails in memory of the blocks visited before.
LEMMA MemTailSame ==
  ASSUME NEW h, NEW h2, NEW K, Shape(h), Pend(h), Issued(h, h2, K), NEW v \in h.freed..h.tail,
         h2.shown = h.shown, h2.pub = h.pub, \A w \in 1..h.tail : h2.first[w] = h.first[w]
  PROVE  MemTail(h2, v) = MemTail(h, v)
<1>0. /\ h.freed \in Nat /\ h.freed >= 1 /\ h.tail \in Nat /\ h.shown \in Nat /\ h.shown <= h.tail
      /\ h.shown >= 1
  BY ShapeFacts
<1>1. v \in 1..h.tail /\ v \in Nat /\ v \in 1..(h.tail + 1) BY <1>0
<1>2. CASE v < h.shown
  <2>1. v + 1 \in 1..h.tail BY <1>0, <1>1, <1>2
  <2> QED BY <1>2, <2>1 DEF MemTail
<1>3. CASE v = h.shown BY <1>0, <1>3 DEF MemTail
<1>4. CASE v > h.shown
  <2>1. ASSUME Tag(h.first[v], 3) \in DOMAIN h.S PROVE h.first[v] \in 1..h.sent
    BY <1>1, <2>1, OpenVisit
  <2>2. h.first[v] \in Nat BY <1>1, FirstType
  <2>3. h.first[v] \in 1..h.sent
    <3>1. v \in 2..h.tail /\ v + 1 \in 1..(h.tail + 1) /\ 1 \in 1..(h.tail + 1) /\ h.tail + 1 \in 1..(h.tail + 1)
      BY <1>0, <1>1, <1>4
    <3>2. h.first[v] < h.first[v + 1] BY <3>1 DEF Shape, Visits
    <3>3. h.first[v + 1] <= h.first[h.tail + 1] BY <1>0, <3>1, FirstMonotone
    <3>4. h.first[1] <= h.first[v] BY <1>0, <1>1, <3>1, FirstMonotone
    <3>5. h.first[1] = 1 /\ h.first[h.tail + 1] = h.sent + 1 BY DEF Shape, Visits
    <3>6. h.first[v + 1] \in Nat /\ h.sent \in Nat BY <3>1, FirstType, ShapeFacts
    <3> QED BY <2>2, <3>2, <3>3, <3>4, <3>5, <3>6
  <2>4. Tag(h.first[v], 3) \in DOMAIN h2.S <=> Tag(h.first[v], 3) \in DOMAIN h.S
    <3>1. PICK d \in 1..h.sent : d = h.first[v] BY <2>3
    <3>2. 3 \in 1..7 /\ 3 # 6 OBVIOUS
    <3>3. Tag(d, 3) \in DOMAIN h2.S <=> Tag(d, 3) \in DOMAIN h.S BY <3>2, IssuedTags
    <3> QED BY <3>1, <3>3
  <2>5. h2.first[v] = h.first[v] /\ ~ (v < h.shown) /\ v # h.shown BY <1>0, <1>1, <1>4
  <2> QED BY <2>4, <2>5 DEF MemTail
<1> QED BY <1>0, <1>1, <1>2, <1>3, <1>4

\* An enqueue into the tail block keeps the shape: it has a slot to spare.
LEMMA SameVisitShape ==
  ASSUME NEW h, NEW h2, NEW K, Shape(h), Pend(h), Issued(h, h2, K), SameVisit(h, h2)
  PROVE  Shape(h2)
<1>0. /\ h.freed \in Nat /\ h.tail <= LastVisit(h) /\ h.tail \in Nat /\ LastVisit(h) \in Nat /\ h.freed >= 1 /\ h.n \in Nat
      /\ h.freed <= h.front /\ h.front <= h.shown /\ h.shown <= h.tail /\ h.shown \in Nat /\ h.front \in Nat /\ h.rel \in Nat
      /\ h.got \in Nat /\ h.pub \in Nat /\ h.sent \in Nat /\ h.got <= h.pub /\ h.pub <= h.sent /\ h.unit \in Nat
  BY ShapeFacts
<1>1. /\ h2.n = h.n /\ h2.unit = h.unit /\ h2.freed = h.freed /\ h2.front = h.front /\ h2.shown = h.shown /\ h2.tail = h.tail
      /\ h2.rel = h.rel /\ h2.got = h.got /\ h2.pub = h.pub /\ h2.sent = h.sent + 1 /\ h2.block = h.block /\ h2.room = h.room
      /\ h2.grown = h.grown /\ h2.base = h.base /\ h2.lt = h.lt
      /\ h2.lf \in Nat /\ h.lf <= h2.lf /\ h2.lf <= MemFront(h, h.tail) /\ h.sent + 2 - h2.lf < h.room[h.tail]
  BY DEF SameVisit
<1>2. /\ h2.first = [v \in 1..(h.tail + 1) |-> IF v = h.tail + 1 THEN h.sent + 2 ELSE h.first[v]]
      /\ h2.visit = [d \in 1..(h.sent + 1) |-> IF d = h.sent + 1 THEN h.tail ELSE h.visit[d]]
  BY DEF SameVisit
<1>3. LastVisit(h2) = LastVisit(h) BY <1>1 DEF LastVisit
<1>4. Counters(h2) BY <1>0, <1>1, <1>3 DEF Shape, Counters
<1>5. Circular(h2) BY <1>1, <1>3 DEF Shape, Circular
<1>6. \A v \in 1..h.tail : h2.first[v] = h.first[v] BY <1>0, <1>2
<1>7. h2.first[h.tail + 1] = h.sent + 2 /\ h.first[h.tail + 1] = h.sent + 1
  <2>1. h.first[h.tail + 1] = h.sent + 1 BY DEF Shape, Visits
  <2>2. h.tail + 1 \in 1..(h.tail + 1) BY <1>0
  <2>3. h2.first[h.tail + 1] = h.sent + 2 BY <1>2, <2>2
  <2> QED BY <2>1, <2>3
<1>8. \A v \in 1..(h.tail + 1) : h.first[v] \in Nat /\ h2.first[v] \in Nat /\ h.first[v] <= h2.first[v] /\ h.first[v] <= h.sent + 1
  <2> TAKE v \in 1..(h.tail + 1)
  <2>1. h.first[v] \in Nat BY FirstType
  <2>2. h.first[v] <= h.first[h.tail + 1]
    <3>1. h.tail + 1 \in 1..(h.tail + 1) /\ v <= h.tail + 1 BY <1>0
    <3> QED BY <3>1, FirstMonotone
  <2>3. v = h.tail + 1 \/ v \in 1..h.tail BY <1>0
  <2> QED BY <1>0, <1>6, <1>7, <2>1, <2>2, <2>3
<1>9. Visits(h2)
  <2>1. h2.first \in [1..(h.tail + 1) -> Nat] BY <1>2, <1>8
  <2>2. h2.first[1] = 1
    <3>1. 1 \in 1..h.tail BY <1>0
    <3> QED BY <1>6, <3>1 DEF Shape, Visits
  <2>3. ASSUME NEW v \in 1..(h.tail + 1), NEW w \in 1..(h.tail + 1), v <= w PROVE h2.first[v] <= h2.first[w]
    <3>1. h.first[v] <= h.first[w] BY <2>3, FirstMonotone
    <3>2. CASE w = h.tail + 1
      <4>1. v = h.tail + 1 \/ v \in 1..h.tail BY <1>0
      <4> QED BY <1>0, <1>6, <1>7, <1>8, <3>2, <4>1
    <3>3. CASE w # h.tail + 1
      <4>1. v \in 1..h.tail /\ w \in 1..h.tail BY <1>0, <2>3, <3>3
      <4> QED BY <1>6, <3>1, <4>1
    <3> QED BY <3>2, <3>3
  <2>4. ASSUME NEW v \in 2..h.tail PROVE h2.first[v] < h2.first[v + 1]
    <3>0. h.first[v] < h.first[v + 1] BY DEF Shape, Visits
    <3>1. h.first[v] < h.first[v + 1] /\ v \in 1..h.tail /\ v + 1 \in 1..(h.tail + 1) /\ v \in 1..(h.tail + 1)
      BY <1>0, <3>0
    <3>2. h2.first[v] = h.first[v] /\ h.first[v + 1] <= h2.first[v + 1] /\ h.first[v] \in Nat /\ h.first[v + 1] \in Nat /\ h2.first[v + 1] \in Nat
      BY <1>6, <1>8, <3>1
    <3> QED BY <3>1, <3>2
  <2>5. \A v, w \in 1..h.tail : v <= w => h2.first[w] - h2.first[v] >= (w - v) * h.unit
    BY <1>6 DEF Shape, Visits
  <2>6. h2.base \in [1..h.tail -> Int] BY <1>1 DEF Shape, Visits
  <2>7. h2.visit \in [1..(h.sent + 1) -> 1..h.tail]
    <3>1. \A d \in 1..h.sent : h.visit[d] \in 1..h.tail BY DEF Shape, Visits
    <3>2. h.tail \in 1..h.tail /\ \A d \in 1..(h.sent + 1) : d = h.sent + 1 \/ d \in 1..h.sent
      BY <1>0
    <3> QED BY <1>2, <3>1, <3>2
  <2>8. ASSUME NEW d \in 1..(h.sent + 1) PROVE h2.first[h2.visit[d]] <= d /\ d < h2.first[h2.visit[d] + 1]
    <3>1. CASE d = h.sent + 1
      <4>1. h2.visit[d] = h.tail BY <1>2, <3>1
      <4>2. h.tail \in 1..h.tail /\ h.tail \in 1..(h.tail + 1) BY <1>0
      <4> QED BY <1>0, <1>6, <1>7, <1>8, <3>1, <4>1, <4>2
    <3>2. CASE d # h.sent + 1
      <4>1. d \in 1..h.sent /\ d \in Nat BY <1>0, <3>2
      <4>2. h2.visit[d] = h.visit[d] BY <1>2, <3>2
      <4>3. /\ h.visit[d] \in 1..h.tail /\ h.visit[d] + 1 \in 1..(h.tail + 1) /\ h.first[h.visit[d]] <= d /\ d < h.first[h.visit[d] + 1]
        BY <4>1, VisitType
      <4>4. h.first[h.visit[d] + 1] <= h2.first[h.visit[d] + 1] /\ h.first[h.visit[d] + 1] \in Nat /\ h2.first[h.visit[d] + 1] \in Nat
        BY <1>8, <4>3
      <4> QED BY <1>6, <4>1, <4>2, <4>3, <4>4
    <3> QED BY <3>1, <3>2
  <2>9. (h.sent + 1) + 1 = h.sent + 2 BY <1>0
  <2>10. h2.first[h2.tail + 1] = h2.sent + 1 BY <1>1, <1>7, <2>9
  <2> QED BY <1>1, <2>1, <2>2, <2>3, <2>4, <2>5, <2>6, <2>7, <2>8, <2>10 DEF Visits
<1>10. \A v \in h.freed..h.tail : MemTail(h2, v) = MemTail(h, v) BY <1>1, <1>6, MemTailSame
<1>11. \A v \in h.freed..h.tail : MemFront(h2, v) = MemFront(h, v)
  <2> TAKE v \in h.freed..h.tail
  <2>1. v \in 1..h.tail BY <1>0
  <2> QED BY <1>1, <1>6, <2>1 DEF MemFront
<1>12. Positions(h2)
  <2>1. /\ h.freed \in 1..h.tail /\ h.front \in 1..h.tail /\ h.shown \in 1..h.tail /\ h.tail \in 1..h.tail
        /\ h.freed + 1 \in 1..(h.tail + 1) /\ h.front + 1 \in 1..(h.tail + 1) /\ h.shown + 1 \in 1..(h.tail + 1)
        /\ h.front \in h.freed..h.tail /\ h.tail \in h.freed..h.tail
    BY <1>0
  <2>2. /\ h2.first[h.freed] = h.first[h.freed] /\ h2.first[h.front] = h.first[h.front] /\ h2.first[h.shown] = h.first[h.shown] /\ h2.first[h.tail] = h.first[h.tail]
        /\ h.first[h.freed + 1] <= h2.first[h.freed + 1] /\ h.first[h.front + 1] <= h2.first[h.front + 1] /\ h.first[h.shown + 1] <= h2.first[h.shown + 1]
        /\ h.first[h.freed + 1] \in Nat /\ h.first[h.front + 1] \in Nat /\ h.first[h.shown + 1] \in Nat
        /\ h2.first[h.freed + 1] \in Nat /\ h2.first[h.front + 1] \in Nat /\ h2.first[h.shown + 1] \in Nat
    BY <1>6, <1>8, <2>1
  <2>3. /\ h.first[h.freed] <= h.rel + 1 /\ h.rel + 1 <= h.first[h.freed + 1]
        /\ h.first[h.front] <= h.got + 1 /\ h.got + 1 <= h.first[h.front + 1]
        /\ h.first[h.shown] <= h.pub + 1 /\ h.pub + 1 <= h.first[h.shown + 1]
        /\ h.shown > 1 => h.first[h.shown] <= h.pub
        /\ h.lt \in Nat /\ h.got + 1 <= h.lt /\ h.lt <= MemTail(h, h.front)
        /\ h.lf \in Nat /\ h.first[h.tail] <= h.lf
    BY DEF Shape, Positions
  <2>4. h.rel + 1 <= h2.first[h.freed + 1] /\ h.got + 1 <= h2.first[h.front + 1] /\ h.pub + 1 <= h2.first[h.shown + 1]
    BY <1>0, <2>2, <2>3
  <2>5. MemTail(h2, h.front) = MemTail(h, h.front) /\ MemFront(h2, h.tail) = MemFront(h, h.tail)
    BY <1>10, <1>11, <2>1
  <2>6. h.first[h.tail] <= h2.lf
    <3>1. h.tail \in 1..(h.tail + 1) BY <1>0
    <3>2. h.first[h.tail] \in Nat BY <1>8, <3>1
    <3> QED BY <1>1, <2>3, <3>2
  <2>7. (h.sent + 1) + 1 = h.sent + 2 BY <1>0
  <2>8. ASSUME NEW v \in h.freed..h.tail PROVE h2.first[v + 1] - MemFront(h2, v) < h.room[v]
    <3>1. Ordered(h, v) BY OrderedVisits
    <3>2. CASE v = h.tail
      <4>1. MemFront(h, h.tail) \in Nat BY <3>1, <3>2 DEF Ordered
      <4>2. h.room[h.tail] \in Nat BY <3>1, <3>2 DEF Ordered
      <4> QED BY <1>0, <1>1, <1>7, <2>5, <3>2, <4>1, <4>2
    <3>3. CASE v # h.tail
      <4>1. v + 1 \in 1..h.tail BY <1>0, <3>3
      <4> QED BY <1>6, <1>11, <3>1, <4>1 DEF Ordered
    <3> QED BY <3>2, <3>3
  <2>9. /\ h2.first[h2.freed] <= h2.rel + 1 /\ h2.rel + 1 <= h2.first[h2.freed + 1]
        /\ h2.first[h2.front] <= h2.got + 1 /\ h2.got + 1 <= h2.first[h2.front + 1]
        /\ h2.first[h2.shown] <= h2.pub + 1 /\ h2.pub + 1 <= h2.first[h2.shown + 1]
        /\ h2.shown > 1 => h2.first[h2.shown] <= h2.pub
    BY <1>1, <2>2, <2>3, <2>4
  <2>10. h2.lt \in Nat /\ h2.got + 1 <= h2.lt /\ h2.lt <= MemTail(h2, h2.front) BY <1>1, <2>3, <2>5
  <2>11. h2.lf \in Nat /\ h2.first[h2.tail] <= h2.lf /\ h2.lf <= MemFront(h2, h2.tail)
    BY <1>1, <2>2, <2>5, <2>6
  <2>12. h2.sent + 1 - h2.lf < h2.room[h2.tail]
    <3>1. h2.sent = h.sent + 1 /\ h2.room = h.room /\ h2.tail = h.tail /\ h2.lf \in Nat BY <1>1
    <3>2. h.sent + 2 - h2.lf < h.room[h.tail] BY <1>1
    <3>3. h.room[h.tail] \in Nat
      <4>1. Ordered(h, h.tail) BY <2>1, OrderedVisits
      <4> QED BY <4>1 DEF Ordered
    <3> QED BY <1>0, <3>1, <3>2, <3>3
  <2>13. \A v \in h2.freed..h2.tail : h2.first[v + 1] - MemFront(h2, v) < h2.room[v] BY <1>1, <2>8
  <2> QED BY <2>9, <2>10, <2>11, <2>12, <2>13 DEF Positions
<1> QED BY <1>4, <1>5, <1>9, <1>12 DEF Shape

\* An enqueue into the free block ahead keeps the circle as it is.
LEMMA AheadCircular ==
  ASSUME NEW h, NEW h2, Shape(h), AheadVisit(h, h2)
  PROVE  Circular(h2) /\ LastVisit(h2) = LastVisit(h)
<1>1. h2.n = h.n /\ h2.block = h.block /\ h2.room = h.room /\ h2.grown = h.grown /\ h2.freed = h.freed /\ h2.unit = h.unit /\ h2.tail = h.tail + 1
  BY DEF AheadVisit, NewVisit
<1>2. LastVisit(h2) = LastVisit(h) BY <1>1 DEF LastVisit
<1>3. h.grown \subseteq 2..h.tail /\ h.tail \in Nat BY ShapeFacts DEF Shape, Circular
<1>4. h2.grown \subseteq 2..h2.tail BY <1>1, <1>3
<1> QED BY <1>1, <1>2, <1>4 DEF Shape, Circular

\* An enqueue into a new block puts it between the tail block and the front block.
LEMMA GrownCircular ==
  ASSUME NEW h, NEW h2, Shape(h), GrownVisit(h, h2)
  PROVE  Circular(h2) /\ LastVisit(h2) = LastVisit(h) + 1
<1>0. /\ h.freed \in Nat /\ h.tail \in Nat /\ LastVisit(h) \in Nat /\ h.freed >= 1 /\ h.n \in Nat /\ h.n >= 1 /\ h.freed <= h.tail
  BY ShapeFacts
<1>1. /\ h2.n = h.n + 1 /\ h.tail = LastVisit(h) /\ h2.freed = h.freed /\ h2.unit = h.unit /\ h2.tail = h.tail + 1
      /\ h2.grown = h.grown \cup {h.tail + 1}
      /\ h2.block = [v \in 1..(h.tail + 1) |-> IF v = h.tail + 1 THEN h.n + 1 ELSE h.block[v]]
      /\ h2.room \in [1..(h.tail + 1) -> Nat] /\ h2.room[h.tail + 1] > h.unit
      /\ \A v \in 1..LastVisit(h) : h2.room[v] = h.room[v]
  BY DEF GrownVisit, NewVisit
<1>2. LastVisit(h2) = h.tail + 1
  <2>1. LastVisit(h2) = h.freed + (h.n + 1) - 1 /\ LastVisit(h) = h.freed + h.n - 1
    BY <1>1 DEF LastVisit
  <2> QED BY <1>0, <1>1, <2>1
<1>3. h.grown \subseteq 2..h.tail BY DEF Shape, Circular
<1>4. h2.grown \subseteq 2..h2.tail
  <2>1. h.tail + 1 \in 2..(h.tail + 1) /\ 2..h.tail \subseteq 2..(h.tail + 1) BY <1>0
  <2> QED BY <1>1, <1>3, <2>1
<1>5. \A v \in 1..h.tail : h.block[v] \in 1..h.n /\ h2.block[v] = h.block[v] /\ h.block[v] # h.n + 1
  <2> TAKE v \in 1..h.tail
  <2>1. v \in 1..LastVisit(h) /\ v \in 1..(h.tail + 1) /\ v # h.tail + 1 BY <1>0, <1>1
  <2>2. h.block[v] \in 1..h.n BY <2>1, BlockType
  <2> QED BY <1>0, <1>1, <2>1, <2>2
<1>6. h2.block[h.tail + 1] = h.n + 1
  <2>1. h.tail + 1 \in 1..(h.tail + 1) BY <1>0
  <2> QED BY <1>1, <2>1
<1>7. h2.block \in [1..(h.tail + 1) -> 1..(h.n + 1)]
  <2>1. ASSUME NEW v \in 1..(h.tail + 1) PROVE (IF v = h.tail + 1 THEN h.n + 1 ELSE h.block[v]) \in 1..(h.n + 1)
    <3>1. v = h.tail + 1 \/ v \in 1..h.tail BY <1>0
    <3> QED BY <1>0, <1>5, <3>1
  <2> QED BY <1>1, <2>1
<1>8. ASSUME NEW v \in h.freed..(h.tail + 1), NEW w \in h.freed..(h.tail + 1), h2.block[v] = h2.block[w] PROVE v = w
  <2>1. (v = h.tail + 1 \/ v \in 1..h.tail) /\ (w = h.tail + 1 \/ w \in 1..h.tail) BY <1>0
  <2>2. CASE v \in 1..h.tail /\ w \in 1..h.tail
    <3>1. v \in h.freed..LastVisit(h) /\ w \in h.freed..LastVisit(h) BY <1>0, <1>1, <2>2
    <3>2. h.block[v] = h.block[w] BY <1>5, <1>8, <2>2
    <3> QED BY <3>1, <3>2, BlockInj
  <2> QED BY <1>5, <1>6, <1>8, <2>1, <2>2
<1>9. ASSUME NEW b \in 1..(h.n + 1) PROVE \E v \in h.freed..(h.tail + 1) : h2.block[v] = b
  <2>1. CASE b = h.n + 1
    <3>1. h.tail + 1 \in h.freed..(h.tail + 1) BY <1>0
    <3> QED BY <1>6, <2>1, <3>1
  <2>2. CASE b # h.n + 1
    <3>1. b \in 1..h.n BY <1>0, <2>2
    <3>2. PICK v \in h.freed..LastVisit(h) : h.block[v] = b BY <3>1 DEF Shape, Circular
    <3>3. v \in 1..h.tail /\ v \in h.freed..(h.tail + 1) BY <1>0, <1>1
    <3> QED BY <1>5, <3>2, <3>3
  <2> QED BY <2>1, <2>2
<1>10. ASSUME NEW v \in 1..(h.tail + 1) PROVE h2.room[v] > h.unit
  <2>1. v = h.tail + 1 \/ v \in 1..LastVisit(h) BY <1>0, <1>1
  <2>2. CASE v \in 1..LastVisit(h)
    <3>1. h.room[v] > h.unit BY <2>2 DEF Shape, Circular
    <3> QED BY <1>1, <2>2, <3>1
  <2> QED BY <1>1, <2>1, <2>2
<1> QED BY <1>1, <1>2, <1>4, <1>7, <1>8, <1>9, <1>10 DEF Circular

\* The visit that begins holds the new element and no other.
LEMMA NewVisitFirst ==
  ASSUME NEW h, NEW h2, Shape(h), NewVisit(h, h2)
  PROVE  /\ \A v \in 1..(h.tail + 1) : h2.first[v] = h.first[v]
         /\ h2.first[h.tail + 2] = h.sent + 2 /\ h.first[h.tail + 1] = h.sent + 1 /\ h2.first[h.tail + 1] = h.sent + 1
         /\ \A d \in 1..h.sent : h2.visit[d] = h.visit[d]
         /\ h2.visit[h.sent + 1] = h.tail + 1
<1>0. h.tail \in Nat /\ h.sent \in Nat BY ShapeFacts
<1>1. /\ h2.first = [v \in 1..(h.tail + 2) |-> IF v = h.tail + 2 THEN h.sent + 2 ELSE h.first[v]]
      /\ h2.visit = [d \in 1..(h.sent + 1) |-> IF d = h.sent + 1 THEN h.tail + 1 ELSE h.visit[d]]
  BY DEF NewVisit
<1>2. \A v \in 1..(h.tail + 1) : h2.first[v] = h.first[v] BY <1>0, <1>1
<1>3. h.tail + 1 \in 1..(h.tail + 1) /\ h.tail + 2 \in 1..(h.tail + 2) /\ h.sent + 1 \in 1..(h.sent + 1)
  BY <1>0
<1>4. h.first[h.tail + 1] = h.sent + 1 BY DEF Shape, Visits
<1>5. \A d \in 1..h.sent : h2.visit[d] = h.visit[d] BY <1>0, <1>1
<1> QED BY <1>1, <1>2, <1>3, <1>4, <1>5

\* The visits follow one another after a new one began.
LEMMA NewVisitVisits ==
  ASSUME NEW h, NEW h2, Shape(h), NewVisit(h, h2)
  PROVE  Visits(h2)
<1>0. /\ h.tail \in Nat /\ h.sent \in Nat /\ h.unit \in Nat /\ h.tail >= 1 BY ShapeFacts
<1>1. h2.tail = h.tail + 1 /\ h2.sent = h.sent + 1 /\ h2.unit = h.unit /\ h2.base \in [1..(h.tail + 1) -> Int]
  BY DEF NewVisit
<1>2. /\ h2.first = [v \in 1..(h.tail + 2) |-> IF v = h.tail + 2 THEN h.sent + 2 ELSE h.first[v]]
      /\ h2.visit = [d \in 1..(h.sent + 1) |-> IF d = h.sent + 1 THEN h.tail + 1 ELSE h.visit[d]]
  BY DEF NewVisit
<1>3. /\ \A v \in 1..(h.tail + 1) : h2.first[v] = h.first[v]
      /\ h2.first[h.tail + 2] = h.sent + 2 /\ h.first[h.tail + 1] = h.sent + 1 /\ h2.first[h.tail + 1] = h.sent + 1
      /\ \A d \in 1..h.sent : h2.visit[d] = h.visit[d]
      /\ h2.visit[h.sent + 1] = h.tail + 1
  BY NewVisitFirst
<1>4. \A v \in 1..(h.tail + 1) : h.first[v] \in Nat /\ h2.first[v] \in Nat /\ h2.first[v] <= h.sent + 1
  <2> TAKE v \in 1..(h.tail + 1)
  <2>1. h.first[v] \in Nat BY FirstType
  <2>2. h.tail + 1 \in 1..(h.tail + 1) /\ v <= h.tail + 1 BY <1>0
  <2>3. h.first[v] <= h.first[h.tail + 1] BY <2>2, FirstMonotone
  <2> QED BY <1>3, <2>1, <2>3
<1>5. \A v \in 1..(h.tail + 2) : v = h.tail + 2 \/ v \in 1..(h.tail + 1) BY <1>0
<1>6. (h.tail + 1) + 1 = h.tail + 2 /\ (h.sent + 1) + 1 = h.sent + 2 BY <1>0
<1>7. h2.first \in [1..(h.tail + 2) -> Nat]
  <2>1. ASSUME NEW v \in 1..(h.tail + 2) PROVE (IF v = h.tail + 2 THEN h.sent + 2 ELSE h.first[v]) \in Nat
    BY <1>0, <1>4, <1>5
  <2> QED BY <1>2, <2>1
<1>8. h2.first[1] = 1
  <2>1. 1 \in 1..(h.tail + 1) BY <1>0
  <2>2. h.first[1] = 1 BY DEF Shape, Visits
  <2> QED BY <1>3, <2>1, <2>2
<1>9. ASSUME NEW v \in 1..(h.tail + 2), NEW w \in 1..(h.tail + 2), v <= w PROVE h2.first[v] <= h2.first[w]
  <2>1. CASE w = h.tail + 2
    <3>1. CASE v = h.tail + 2 BY <1>0, <1>3, <2>1, <3>1
    <3>2. CASE v \in 1..(h.tail + 1)
      <4>1. h2.first[v] \in Nat /\ h2.first[v] <= h.sent + 1 BY <1>4, <3>2
      <4> QED BY <1>0, <1>3, <2>1, <4>1
    <3> QED BY <1>5, <3>1, <3>2
  <2>2. CASE w \in 1..(h.tail + 1)
    <3>1. v \in 1..(h.tail + 1) BY <1>0, <1>9, <2>2
    <3>2. h.first[v] <= h.first[w] BY <1>9, <2>2, <3>1, FirstMonotone
    <3> QED BY <1>3, <2>2, <3>1, <3>2
  <2> QED BY <1>5, <2>1, <2>2
<1>10. ASSUME NEW v \in 2..(h.tail + 1) PROVE h2.first[v] < h2.first[v + 1]
  <2>1. CASE v = h.tail + 1
    <3>1. h2.first[v] = h.sent + 1 /\ v + 1 = h.tail + 2 BY <1>0, <1>3, <2>1
    <3> QED BY <1>0, <1>3, <3>1
  <2>2. CASE v # h.tail + 1
    <3>1. v \in 2..h.tail /\ v \in 1..(h.tail + 1) /\ v + 1 \in 1..(h.tail + 1) BY <1>0, <2>2
    <3>2. h.first[v] < h.first[v + 1] BY <3>1 DEF Shape, Visits
    <3> QED BY <1>3, <3>1, <3>2
  <2> QED BY <2>1, <2>2
<1>11. h.sent + 1 - h.first[h.tail] >= h.unit
  <2>1. h.tail \in h.freed..h.tail /\ h.tail \in 1..(h.tail + 1) BY <1>0, ShapeFacts
  <2>2. h.room[h.tail] \in Nat /\ h.room[h.tail] > h.unit
    <3>1. Ordered(h, h.tail) BY <2>1, OrderedVisits
    <3> QED BY <3>1 DEF Ordered
  <2>3. h.lf \in Nat /\ h.first[h.tail] <= h.lf BY DEF Shape, Positions
  <2>4. h.sent + 2 - h.lf = h.room[h.tail] BY DEF NewVisit
  <2>5. h.first[h.tail] \in Nat BY <1>4, <2>1
  <2> QED BY <1>0, <2>2, <2>3, <2>4, <2>5
<1>12. ASSUME NEW v \in 1..(h.tail + 1), NEW w \in 1..(h.tail + 1), v <= w PROVE h2.first[w] - h2.first[v] >= (w - v) * h.unit
  <2>1. h2.first[v] = h.first[v] /\ h2.first[w] = h.first[w] BY <1>3
  <2>2. CASE w \in 1..h.tail
    <3>1. v \in 1..h.tail BY <1>0, <1>12, <2>2
    <3>2. h.first[w] - h.first[v] >= (w - v) * h.unit BY <1>12, <2>2, <3>1 DEF Shape, Visits
    <3> QED BY <2>1, <3>2
  <2>3. CASE w = h.tail + 1 /\ v = h.tail + 1
    <3>1. h2.first[w] - h2.first[v] = 0 BY <1>0, <1>3, <2>3
    <3>2. (w - v) * h.unit = 0 BY <1>0, <2>3
    <3> QED BY <3>1, <3>2
  <2>4. CASE w = h.tail + 1 /\ v # h.tail + 1
    <3>1. v \in 1..h.tail /\ h.tail \in 1..h.tail /\ v <= h.tail /\ h.tail \in 1..(h.tail + 1)
      BY <1>0, <2>4
    <3>2. h.first[h.tail] - h.first[v] >= (h.tail - v) * h.unit BY <3>1 DEF Shape, Visits
    <3>3. PICK d \in Nat : d = h.tail - v BY <1>0, <3>1
    <3>4. w - v = d + 1 BY <1>0, <2>4, <3>1, <3>3
    <3>5. (d + 1) * h.unit = d * h.unit + h.unit BY <1>0
    <3>6. PICK x \in Nat : x = d * h.unit BY <1>0
    <3>7. h.first[h.tail] - h.first[v] >= x BY <3>2, <3>3, <3>6
    <3>8. (w - v) * h.unit = x + h.unit BY <3>4, <3>5, <3>6
    <3>9. h.first[v] \in Nat /\ h.first[h.tail] \in Nat BY <1>4, <3>1
    <3>10. h2.first[w] = h.sent + 1 BY <1>3, <2>4
    <3>11. h.sent + 1 - h.first[v] >= x + h.unit BY <1>0, <1>11, <3>7, <3>9
    <3>12. h2.first[w] - h2.first[v] >= x + h.unit BY <1>0, <2>1, <3>9, <3>10, <3>11
    <3> QED BY <3>8, <3>12
  <2> QED BY <1>0, <2>2, <2>3, <2>4
<1>13. h2.visit \in [1..(h.sent + 1) -> 1..(h.tail + 1)]
  <2>1. \A d \in 1..h.sent : h.visit[d] \in 1..(h.tail + 1) BY VisitType
  <2>2. h.tail + 1 \in 1..(h.tail + 1) /\ \A d \in 1..(h.sent + 1) : d = h.sent + 1 \/ d \in 1..h.sent
    BY <1>0
  <2> QED BY <1>2, <2>1, <2>2
<1>14. ASSUME NEW d \in 1..(h.sent + 1) PROVE h2.first[h2.visit[d]] <= d /\ d < h2.first[h2.visit[d] + 1]
  <2>1. CASE d = h.sent + 1
    <3>1. h2.visit[d] = h.tail + 1 BY <1>3, <2>1
    <3>2. h2.first[h2.visit[d]] = h.sent + 1 /\ h2.first[h2.visit[d] + 1] = h.sent + 2
      BY <1>3, <1>6, <3>1
    <3> QED BY <1>0, <2>1, <3>2
  <2>2. CASE d # h.sent + 1
    <3>1. d \in 1..h.sent BY <1>0, <2>2
    <3>2. /\ h.visit[d] \in 1..(h.tail + 1) /\ h.visit[d] + 1 \in 1..(h.tail + 1) /\ h.first[h.visit[d]] <= d /\ d < h.first[h.visit[d] + 1]
      BY <3>1, VisitType
    <3> QED BY <1>3, <3>1, <3>2
  <2> QED BY <2>1, <2>2
<1>15. /\ h2.first \in [1..(h2.tail + 1) -> Nat] /\ h2.first[h2.tail + 1] = h2.sent + 1
  BY <1>1, <1>3, <1>6, <1>7
<1>16. \A v, w \in 1..(h2.tail + 1) : v <= w => h2.first[v] <= h2.first[w] BY <1>1, <1>6, <1>9
<1> QED BY <1>1, <1>8, <1>10, <1>12, <1>13, <1>14, <1>15, <1>16 DEF Visits

\* A new visit keeps the shape: the block it begins in is empty, and no smaller than the
\* smallest.
LEMMA NewVisitShape ==
  ASSUME NEW h, NEW h2, NEW K, Shape(h), Pend(h), Issued(h, h2, K), NewVisit(h, h2), Circular(h2)
  PROVE  Shape(h2)
<1>0. /\ h.freed \in Nat /\ h.tail \in Nat /\ LastVisit(h) \in Nat /\ h.freed >= 1 /\ h.n \in Nat /\ h.n >= 1
      /\ h.freed <= h.front /\ h.front <= h.shown /\ h.shown <= h.tail /\ h.shown \in Nat /\ h.front \in Nat /\ h.rel \in Nat
      /\ h.got \in Nat /\ h.pub \in Nat /\ h.sent \in Nat /\ h.rel <= h.got /\ h.got <= h.pub /\ h.pub <= h.sent /\ h.unit \in Nat /\ h.unit >= 1
  BY ShapeFacts
<1>1. /\ h2.unit = h.unit /\ h2.freed = h.freed /\ h2.front = h.front /\ h2.shown = h.shown /\ h2.tail = h.tail + 1
      /\ h2.rel = h.rel /\ h2.got = h.got /\ h2.pub = h.pub /\ h2.sent = h.sent + 1
      /\ h2.lt = h.lt /\ h2.lf = h.sent + 1 /\ h2.n \in Nat /\ h.n <= h2.n /\ h.tail < LastVisit(h2)
      /\ \A v \in 1..LastVisit(h) : h2.block[v] = h.block[v] /\ h2.room[v] = h.room[v]
  BY DEF NewVisit
<1>2. /\ \A v \in 1..(h.tail + 1) : h2.first[v] = h.first[v]
      /\ h2.first[h.tail + 2] = h.sent + 2 /\ h2.first[h.tail + 1] = h.sent + 1
  BY NewVisitFirst
<1>3. Visits(h2) BY NewVisitVisits
<1>4. LastVisit(h2) \in Nat /\ h2.tail <= LastVisit(h2)
  <2>1. LastVisit(h2) = h.freed + h2.n - 1 BY <1>1 DEF LastVisit
  <2> QED BY <1>0, <1>1, <2>1
<1>5. Counters(h2) BY <1>0, <1>1, <1>4 DEF Counters
<1>6. \A v \in h.freed..h.tail : MemTail(h2, v) = MemTail(h, v)
  <2>1. \A v \in 1..h.tail : h2.first[v] = h.first[v] BY <1>0, <1>2
  <2> QED BY <1>1, <2>1, MemTailSame
<1>7. \A v \in h.freed..h.tail : MemFront(h2, v) = MemFront(h, v)
  <2> TAKE v \in h.freed..h.tail
  <2>1. v \in 1..(h.tail + 1) BY <1>0
  <2> QED BY <1>1, <1>2, <2>1 DEF MemFront
<1>8. MemFront(h2, h2.tail) = h.sent + 1
  <2>1. h2.tail # h2.freed BY <1>0, <1>1
  <2> QED BY <1>1, <1>2, <2>1 DEF MemFront
<1>9. /\ h.freed \in 1..(h.tail + 1) /\ h.front \in 1..(h.tail + 1) /\ h.shown \in 1..(h.tail + 1)
      /\ h.freed + 1 \in 1..(h.tail + 1) /\ h.front + 1 \in 1..(h.tail + 1) /\ h.shown + 1 \in 1..(h.tail + 1)
      /\ h.front \in h.freed..h.tail
  BY <1>0
<1>10. /\ h.first[h.freed] <= h.rel + 1 /\ h.rel + 1 <= h.first[h.freed + 1]
       /\ h.first[h.front] <= h.got + 1 /\ h.got + 1 <= h.first[h.front + 1]
       /\ h.first[h.shown] <= h.pub + 1 /\ h.pub + 1 <= h.first[h.shown + 1]
       /\ h.shown > 1 => h.first[h.shown] <= h.pub
       /\ h.lt \in Nat /\ h.got + 1 <= h.lt /\ h.lt <= MemTail(h, h.front)
  BY DEF Shape, Positions
<1>11. /\ h2.first[h2.freed] <= h2.rel + 1 /\ h2.rel + 1 <= h2.first[h2.freed + 1]
       /\ h2.first[h2.front] <= h2.got + 1 /\ h2.got + 1 <= h2.first[h2.front + 1]
       /\ h2.first[h2.shown] <= h2.pub + 1 /\ h2.pub + 1 <= h2.first[h2.shown + 1]
       /\ h2.shown > 1 => h2.first[h2.shown] <= h2.pub
  BY <1>1, <1>2, <1>9, <1>10
<1>12. h2.lt \in Nat /\ h2.got + 1 <= h2.lt /\ h2.lt <= MemTail(h2, h2.front)
  BY <1>1, <1>6, <1>9, <1>10
<1>13. h2.lf \in Nat /\ h2.first[h2.tail] <= h2.lf /\ h2.lf <= MemFront(h2, h2.tail)
  BY <1>0, <1>1, <1>2, <1>8
<1>14. h2.room[h2.tail] \in Nat /\ h2.room[h2.tail] > 1
  <2>1. h2.tail \in 1..LastVisit(h2) BY <1>0, <1>1, <1>4
  <2>2. h2.room[h2.tail] > h2.unit /\ h2.room[h2.tail] \in Nat BY <2>1 DEF Circular
  <2> QED BY <1>0, <1>1, <2>2
<1>15. h2.sent + 1 - h2.lf < h2.room[h2.tail] BY <1>0, <1>1, <1>14
<1>16. ASSUME NEW v \in h.freed..(h.tail + 1) PROVE h2.first[v + 1] - MemFront(h2, v) < h2.room[v]
  <2>1. CASE v = h.tail + 1
    <3>1. MemFront(h2, v) = h.sent + 1 /\ h2.first[v + 1] = h.sent + 2
      <4>1. v + 1 = h.tail + 2 BY <1>0, <2>1
      <4> QED BY <1>1, <1>2, <1>8, <2>1, <4>1
    <3>2. h2.room[v] \in Nat /\ h2.room[v] > 1 BY <1>1, <1>14, <2>1
    <3> QED BY <1>0, <3>1, <3>2
  <2>2. CASE v # h.tail + 1
    <3>1. v \in h.freed..h.tail /\ v + 1 \in 1..(h.tail + 1) /\ v \in 1..LastVisit(h)
      <4>1. h.tail <= LastVisit(h) BY ShapeFacts
      <4> QED BY <1>0, <2>2, <4>1
    <3>2. h.first[v + 1] - MemFront(h, v) < h.room[v]
      <4>1. Ordered(h, v) BY <3>1, OrderedVisits
      <4> QED BY <4>1 DEF Ordered
    <3> QED BY <1>1, <1>2, <1>7, <3>1, <3>2
  <2> QED BY <2>1, <2>2
<1>17. \A v \in h2.freed..h2.tail : h2.first[v + 1] - MemFront(h2, v) < h2.room[v] BY <1>1, <1>16
<1>18. Positions(h2) BY <1>11, <1>12, <1>13, <1>15, <1>17 DEF Positions
<1> QED BY <1>3, <1>5, <1>18 DEF Shape

\* What the three have in common.
Enqueued(h, h2) ==
  /\ h2.unit = h.unit /\ h2.freed = h.freed /\ h2.front = h.front /\ h2.shown = h.shown /\ h2.tail \in {h.tail, h.tail + 1}
  /\ h2.rel = h.rel /\ h2.got = h.got /\ h2.pub = h.pub /\ h2.sent = h.sent + 1 /\ h2.lt = h.lt /\ h2.R = h.R
  /\ h2.n \in Nat /\ h.n <= h2.n
  /\ \A v \in 1..LastVisit(h) : h2.block[v] = h.block[v] /\ h2.room[v] = h.room[v]
  /\ \A v \in 1..h.tail : h2.first[v] = h.first[v] /\ h2.base[v] = h.base[v] /\ (v \in h2.grown <=> v \in h.grown)
  /\ \A d \in 1..h.sent : h2.visit[d] = h.visit[d]
  /\ h2.visit[h.sent + 1] = h2.tail /\ h2.first[h2.tail + 1] = h.sent + 2
  /\ h2.tail = h.tail + 1 => h2.first[h2.tail] = h.sent + 1

\* An enqueue into the tail block adds one element and the stores that are pending for
\* it.
LEMMA SameEnqueued ==
  ASSUME NEW h, NEW h2, Shape(h), SameVisit(h, h2)
  PROVE  Enqueued(h, h2)
<1>0. h.tail \in Nat /\ h.sent \in Nat /\ h.n \in Nat BY ShapeFacts
<1>1. /\ h2.n = h.n /\ h2.unit = h.unit /\ h2.freed = h.freed /\ h2.front = h.front /\ h2.shown = h.shown /\ h2.tail = h.tail
      /\ h2.rel = h.rel /\ h2.got = h.got /\ h2.pub = h.pub /\ h2.sent = h.sent + 1 /\ h2.block = h.block /\ h2.room = h.room
      /\ h2.grown = h.grown /\ h2.base = h.base /\ h2.lt = h.lt /\ h2.R = h.R
      /\ h2.first = [v \in 1..(h.tail + 1) |-> IF v = h.tail + 1 THEN h.sent + 2 ELSE h.first[v]]
      /\ h2.visit = [d \in 1..(h.sent + 1) |-> IF d = h.sent + 1 THEN h.tail ELSE h.visit[d]]
  BY DEF SameVisit
<1>2. \A v \in 1..h.tail : h2.first[v] = h.first[v] BY <1>0, <1>1
<1>3. \A d \in 1..h.sent : h2.visit[d] = h.visit[d] BY <1>0, <1>1
<1>4. h.tail + 1 \in 1..(h.tail + 1) /\ h.sent + 1 \in 1..(h.sent + 1) /\ h.tail # h.tail + 1
  BY <1>0
<1>5. h2.first[h.tail + 1] = h.sent + 2 /\ h2.visit[h.sent + 1] = h.tail BY <1>1, <1>4
<1> QED BY <1>0, <1>1, <1>2, <1>3, <1>4, <1>5 DEF Enqueued

\* So does one that begins a visit.
LEMMA NewEnqueued ==
  ASSUME NEW h, NEW h2, Shape(h), NewVisit(h, h2)
  PROVE  Enqueued(h, h2)
<1>0. h.tail \in Nat /\ h.sent \in Nat /\ h.n \in Nat BY ShapeFacts
<1>1. /\ h2.unit = h.unit /\ h2.freed = h.freed /\ h2.front = h.front /\ h2.shown = h.shown /\ h2.tail = h.tail + 1
      /\ h2.rel = h.rel /\ h2.got = h.got /\ h2.pub = h.pub /\ h2.sent = h.sent + 1
      /\ h2.lt = h.lt /\ h2.R = h.R /\ h2.n \in Nat /\ h.n <= h2.n
      /\ \A v \in 1..LastVisit(h) : h2.block[v] = h.block[v] /\ h2.room[v] = h.room[v]
      /\ \A v \in 1..h.tail : h2.base[v] = h.base[v]
      /\ h.grown \subseteq h2.grown /\ h2.grown \subseteq h.grown \cup {h.tail + 1}
  BY DEF NewVisit
<1>2. /\ \A v \in 1..(h.tail + 1) : h2.first[v] = h.first[v]
      /\ h2.first[h.tail + 2] = h.sent + 2 /\ h2.first[h.tail + 1] = h.sent + 1
      /\ \A d \in 1..h.sent : h2.visit[d] = h.visit[d]
      /\ h2.visit[h.sent + 1] = h.tail + 1
  BY NewVisitFirst
<1>3. (h.tail + 1) + 1 = h.tail + 2 /\ \A v \in 1..h.tail : v \in 1..(h.tail + 1) /\ v # h.tail + 1
  BY <1>0
<1>4. \A v \in 1..h.tail : h2.first[v] = h.first[v] BY <1>2, <1>3
<1>5. \A v \in 1..h.tail : v \in h2.grown <=> v \in h.grown BY <1>1, <1>3
<1>6. h2.first[h2.tail + 1] = h.sent + 2 /\ h2.first[h2.tail] = h.sent + 1 BY <1>1, <1>2, <1>3
<1>7. h2.visit[h.sent + 1] = h2.tail /\ h2.tail \in {h.tail, h.tail + 1} BY <1>1, <1>2
<1> QED BY <1>1, <1>2, <1>4, <1>5, <1>6, <1>7 DEF Enqueued

-----------------------------------------------------------------------------
(* An enqueue: the pending stores.                                         *)

\* The stores of the earlier elements are those they were.
LEMMA EnqueuedKinds ==
  ASSUME NEW h, NEW h2, Shape(h), Enqueued(h, h2), NEW d \in 1..h.sent
  PROVE  (Begins(h2, d) <=> Begins(h, d)) /\ Kinds(h2, d) = Kinds(h, d)
<1>1. h.visit[d] \in 1..h.tail BY VisitType
<1>2. h2.visit[d] = h.visit[d] BY DEF Enqueued
<1>3. h2.first[h.visit[d]] = h.first[h.visit[d]] /\ (h.visit[d] \in h2.grown <=> h.visit[d] \in h.grown)
  BY <1>1 DEF Enqueued
<1>4. Begins(h2, d) <=> Begins(h, d) BY <1>2, <1>3 DEF Begins
<1> QED BY <1>2, <1>3, <1>4 DEF Kinds

\* The earlier elements are in the slots they were in.
LEMMA EnqueuedIndex ==
  ASSUME NEW h, NEW h2, Shape(h), Enqueued(h, h2), NEW v \in 1..h.tail, NEW x
  PROVE  IndexOf(h2, v, x) = IndexOf(h, v, x) /\ h2.block[v] = h.block[v] /\ v \in 1..LastVisit(h)
<1>1. v \in 1..LastVisit(h) BY ShapeFacts
<1>2. h2.room[v] = h.room[v] /\ h2.base[v] = h.base[v] /\ h2.block[v] = h.block[v]
  BY <1>1 DEF Enqueued
<1> QED BY <1>1, <1>2 DEF IndexOf

\* The stores of the new element.
NewStores(h, h2, K) ==
  /\ Issued(h, h2, K) /\ K = Kinds(h2, h.sent + 1)
  /\ \A k \in K : StoreIs(h2, h.sent + 1, k, h2.S[Tag(h.sent + 1, k)])

\* A next pointer that was right or stale still is.
LinksKept(h, h2) == \A v \in h.freed..LastVisit(h) : \A b : Link(h, v, b) => Link(h2, v, b)

\* Every pending store is one of an unpublished element after an enqueue too; the new
\* ones are later than the others.
LEMMA EnqueuedTags ==
  ASSUME NEW h, NEW h2, NEW K, Shape(h), Pend(h), Enqueued(h, h2), NewStores(h, h2, K)
  PROVE  PendingTags(h2)
<1>0. h.pub \in Nat /\ h.sent \in Nat /\ h.pub <= h.sent BY ShapeFacts
<1>1. h2.pub = h.pub /\ h2.sent = h.sent + 1 BY DEF Enqueued
<1>2. PICK E : E = h.sent + 1 OBVIOUS
<1>3. E \in Nat /\ E > h.sent /\ E \in (h.pub + 1)..(h.sent + 1) BY <1>0, <1>2
<1>4. Issued(h, h2, K) /\ K = Kinds(h2, E) /\ K \subseteq 1..7 BY <1>2 DEF NewStores, Issued
<1>5. 6 \in K /\ 7 \in K BY <1>4 DEF Kinds
<1>6. \A k \in K : Tag(E, k) \in DOMAIN h2.S BY <1>2, <1>4 DEF Issued
<1>7. \A t \in DOMAIN h2.S : t \in DOMAIN h.S \/ \E k \in K : t = Tag(E, k) BY <1>2, <1>4 DEF Issued
<1>8. \A d \in (h.pub + 1)..(h.sent + 1) : d = E \/ (d \in (h.pub + 1)..h.sent /\ d \in 1..h.sent)
  BY <1>0, <1>2
<1>9. \A t \in DOMAIN h.S : \E e \in (h.pub + 1)..h.sent, k \in 1..7 : t = Tag(e, k) /\ k \in Kinds(h, e) /\ e \in 1..h.sent /\ e \in Nat
  BY PendingIs DEF Pend
<1>10. \A t \in DOMAIN h.S, k \in 1..7 : t < Tag(E, k) /\ t \in Nat
  <2> TAKE t \in DOMAIN h.S, k \in 1..7
  <2>1. PICK e \in (h.pub + 1)..h.sent, j \in 1..7 : t = Tag(e, j) /\ e \in Nat BY <1>9
  <2> QED BY <1>0, <1>3, <2>1 DEF Tag
<1>11. ASSUME NEW t \in DOMAIN h2.S PROVE \E e \in (h.pub + 1)..(h.sent + 1) : \E k \in Kinds(h2, e) : t = Tag(e, k)
  <2>1. CASE \E k \in K : t = Tag(E, k) BY <1>3, <1>4, <2>1
  <2>2. CASE t \in DOMAIN h.S
    <3>1. PICK e \in (h.pub + 1)..h.sent, k \in 1..7 : t = Tag(e, k) /\ k \in Kinds(h, e) /\ e \in 1..h.sent
      BY <1>9, <2>2
    <3>2. Kinds(h2, e) = Kinds(h, e) BY <3>1, EnqueuedKinds
    <3>3. e \in (h.pub + 1)..(h.sent + 1) BY <1>0
    <3> QED BY <3>1, <3>2, <3>3
  <2> QED BY <1>7, <2>1, <2>2
<1>12. ASSUME NEW e \in (h.pub + 1)..(h.sent + 1) PROVE Tag(e, 7) \in DOMAIN h2.S
  <2>1. CASE e = E BY <1>5, <1>6, <2>1
  <2>2. CASE e \in (h.pub + 1)..h.sent /\ e \in 1..h.sent
    <3>1. Tag(e, 7) \in DOMAIN h.S BY <2>2 DEF Pend, PendingTags
    <3>2. 7 \in 1..7 /\ 7 # 6 OBVIOUS
    <3> QED BY <1>4, <2>2, <3>1, <3>2, IssuedTags
  <2> QED BY <1>8, <2>1, <2>2
<1>13. ASSUME NEW e \in (h.pub + 1)..(h.sent + 1), NEW t \in DOMAIN h2.S, t < Tag(e, 6) PROVE Tag(e, 6) \in DOMAIN h2.S
  <2>1. CASE e = E BY <1>5, <1>6, <2>1
  <2>2. CASE e \in (h.pub + 1)..h.sent /\ e \in 1..h.sent
    <3>1. t \in DOMAIN h.S
      <4>1. \A k \in K : t # Tag(E, k) BY <1>0, <1>3, <1>4, <1>13, <2>2 DEF Tag
      <4> QED BY <1>7, <4>1
    <3>2. Tag(e, 6) \in DOMAIN h.S BY <1>13, <2>2, <3>1 DEF Pend, PendingTags
    <3>3. t \in Nat /\ Tag(e, 6) \in Nat
      <4>1. 1 \in 1..7 OBVIOUS
      <4> QED BY <1>10, <3>1, <3>2, <4>1
    <3>4. ~ (Tag(e, 6) <= t) BY <1>13, <3>3
    <3> QED BY <1>4, <3>1, <3>2, <3>4 DEF Issued
  <2> QED BY <1>8, <2>1, <2>2
<1>14. ASSUME NEW d \in (h.pub + 1)..(h.sent + 1), NEW e \in (h.pub + 1)..(h.sent + 1),
              NEW j \in Kinds(h2, d) \cap {3, 4, 5, 7},
              NEW k \in Kinds(h2, e) \cap {3, 4, 5, 7}, Tag(d, j) < Tag(e, k),
              Tag(d, j) \in DOMAIN h2.S
       PROVE  Tag(e, k) \in DOMAIN h2.S
  <2>0. j \in 1..7 /\ j # 6 /\ k \in 1..7 /\ k # 6 OBVIOUS
  <2>1. CASE e = E BY <1>4, <1>6, <2>1
  <2>2. CASE e \in (h.pub + 1)..h.sent /\ e \in 1..h.sent
    <3>1. d # E BY <1>0, <1>3, <1>14, <2>0, <2>2 DEF Tag
    <3>2. d \in (h.pub + 1)..h.sent /\ d \in 1..h.sent BY <1>8, <3>1
    <3>3. Tag(d, j) \in DOMAIN h.S BY <1>4, <1>14, <2>0, <3>2, IssuedTags
    <3>4. j \in Kinds(h, d) \cap {3, 4, 5, 7} /\ k \in Kinds(h, e) \cap {3, 4, 5, 7}
      BY <2>2, <3>2, EnqueuedKinds
    <3>5. Tag(e, k) \in DOMAIN h.S BY <1>14, <2>2, <3>2, <3>3, <3>4 DEF Pend, PendingTags
    <3> QED BY <1>4, <2>0, <2>2, <3>5, IssuedTags
  <2> QED BY <1>8, <2>1, <2>2
<1> QED BY <1>1, <1>11, <1>12, <1>13, <1>14 DEF PendingTags

\* And each of them is the store that its tag says.
LEMMA EnqueuedStores ==
  ASSUME NEW h, NEW h2, NEW K, Shape(h), Pend(h), Enqueued(h, h2), NewStores(h, h2, K),
         LinksKept(h, h2)
  PROVE  PendingStores(h2)
<1>0. h.pub \in Nat /\ h.sent \in Nat /\ h.pub <= h.sent /\ h.freed \in Nat /\ h.tail \in Nat /\ h.tail <= LastVisit(h) /\ LastVisit(h) \in Nat
      /\ h.shown \in Nat /\ h.freed <= h.shown
  BY ShapeFacts
<1>1. h2.pub = h.pub /\ h2.sent = h.sent + 1 BY DEF Enqueued
<1>2. PICK E : E = h.sent + 1 OBVIOUS
<1>3. Issued(h, h2, K) /\ K = Kinds(h2, E) /\ K \subseteq 1..7 BY <1>2 DEF NewStores, Issued
<1>4. \A d \in (h.pub + 1)..(h.sent + 1) : d = E \/ (d \in (h.pub + 1)..h.sent /\ d \in 1..h.sent)
  BY <1>0, <1>2
<1>5. PendingTags(h2) BY EnqueuedTags
<1>6. \A t \in DOMAIN h2.S : t \in DOMAIN h.S \/ \E k \in K : t = Tag(E, k) BY <1>2, <1>3 DEF Issued
<1>7. ASSUME NEW d \in (h.pub + 1)..(h.sent + 1), NEW k \in 1..7, Tag(d, k) \in DOMAIN h2.S PROVE StoreIs(h2, d, k, h2.S[Tag(d, k)])
  <2>1. CASE d = E
    <3>1. Tag(d, k) \notin DOMAIN h.S
      <4>1. ASSUME Tag(d, k) \in DOMAIN h.S PROVE FALSE
        <5>1. d \in Nat BY <1>0
        <5>2. d \in (h.pub + 1)..h.sent BY <4>1, <5>1, TagOf
        <5> QED BY <1>0, <1>2, <2>1, <5>2
      <4> QED BY <4>1
    <3>2. PICK j \in K : Tag(d, k) = Tag(E, j) BY <1>6, <1>7, <3>1
    <3>3. j = k BY <1>0, <1>2, <1>3, <2>1, <3>2 DEF Tag
    <3>4. k \in K BY <3>2, <3>3
    <3> QED BY <1>2, <2>1, <3>4 DEF NewStores
  <2>2. CASE d \in (h.pub + 1)..h.sent /\ d \in 1..h.sent
    <3>1. Tag(d, k) \in DOMAIN h.S
      <4>1. \A j \in K : Tag(d, k) # Tag(E, j) BY <1>0, <1>2, <1>3, <2>2 DEF Tag
      <4> QED BY <1>6, <1>7, <4>1
    <3>2. StoreIs(h, d, k, h.S[Tag(d, k)]) BY <2>2, <3>1, StoreAt DEF Pend
    <3>3. h2.S[Tag(d, k)] = h.S[Tag(d, k)] BY <1>3, <1>7, <3>1 DEF Issued
    <3>4. PICK v : v = h.visit[d] OBVIOUS
    <3>5. h2.visit[d] = v BY <2>2, <3>4 DEF Enqueued
    <3>6. v \in 1..h.tail BY <2>2, <3>4, VisitType
    <3>7. h2.block[v] = h.block[v] /\ \A x : IndexOf(h2, v, x) = IndexOf(h, v, x)
      BY <3>6, EnqueuedIndex
    <3>8. Begins(h2, d) <=> Begins(h, d) BY <2>2, EnqueuedKinds
    <3>9. v \in h.freed..LastVisit(h)
      <4>1. d > h.pub BY <1>0, <2>2
      <4>2. h.shown <= v BY <2>2, <3>4, <4>1, VisitsOf
      <4> QED BY <1>0, <3>6, <4>2
    <3>10. \A b : Link(h, v, b) => Link(h2, v, b) BY <3>9 DEF LinksKept
    <3>11. k = 5 => h2.block[v - 1] = h.block[v - 1]
      <4>1. ASSUME k = 5 PROVE v > 1
        <5>1. k \in Kinds(h, d) BY <2>2, <3>1, TagOf
        <5>2. Begins(h, d) BY <4>1, <5>1, KindsFacts
        <5> QED BY <3>4, <5>2 DEF Begins
      <4>2. ASSUME k = 5 PROVE v - 1 \in 1..h.tail BY <1>0, <3>6, <4>1, <4>2
      <4> QED BY <4>2, EnqueuedIndex
    <3> QED BY <3>2, <3>3, <3>4, <3>5, <3>7, <3>8, <3>10, <3>11 DEF StoreIs
  <2> QED BY <1>4, <2>1, <2>2
<1>8. \A e \in (h2.pub + 1)..h2.sent : Tag(e, 7) \in DOMAIN h2.S BY <1>5 DEF PendingTags
<1> QED BY <1>1, <1>7, <1>8, StoresFromParts

\* Every visit but the first holds an element.
LEMMA VisitHasElement ==
  ASSUME NEW h, Shape(h), NEW v \in 2..h.tail
  PROVE  h.first[v] \in 1..h.sent
<1>0. h.tail \in Nat /\ h.sent \in Nat BY ShapeFacts
<1>1. v \in 1..(h.tail + 1) /\ v + 1 \in 1..(h.tail + 1) /\ 1 \in 1..(h.tail + 1) /\ h.tail + 1 \in 1..(h.tail + 1)
      /\ v + 1 <= h.tail + 1 /\ 1 <= v
  BY <1>0
<1>2. h.first[v] < h.first[v + 1] BY DEF Shape, Visits
<1>3. h.first[v + 1] <= h.first[h.tail + 1] BY <1>1, FirstMonotone
<1>4. h.first[1] <= h.first[v] BY <1>1, FirstMonotone
<1>5. h.first[1] = 1 /\ h.first[h.tail + 1] = h.sent + 1 BY DEF Shape, Visits
<1>6. h.first[v] \in Nat /\ h.first[v + 1] \in Nat BY <1>1, FirstType
<1> QED BY <1>0, <1>2, <1>3, <1>4, <1>5, <1>6

\* The pending links of the old visits.
LEMMA EnqueuedLinked ==
  ASSUME NEW h, NEW h2, NEW K, Shape(h), Pend(h), Enqueued(h, h2), Issued(h, h2, K),
         NEW w \in 1..h.tail
  PROVE  /\ w > 1 => (Tag(h2.first[w], 5) \in DOMAIN h2.S <=> Tag(h.first[w], 5) \in DOMAIN h.S)
         /\ w > 1 => (Tag(h2.first[w], 4) \in DOMAIN h2.S <=> Tag(h.first[w], 4) \in DOMAIN h.S)
         /\ Linked(h2, w) <=> Linked(h, w)
<1>0. h.tail \in Nat BY ShapeFacts
<1>1. h2.first[w] = h.first[w] /\ (w \in h2.grown <=> w \in h.grown) BY DEF Enqueued
<1>2. CASE w = 1
  <2>1. w \notin h.grown BY <1>2 DEF Shape, Circular
  <2> QED BY <1>1, <1>2, <2>1 DEF Linked
<1>3. CASE w > 1
  <2>1. w \in 2..h.tail BY <1>0, <1>3
  <2>2. PICK d \in 1..h.sent : d = h.first[w] BY <2>1, VisitHasElement
  <2>3. 5 \in 1..7 /\ 5 # 6 /\ 4 \in 1..7 /\ 4 # 6 OBVIOUS
  <2>4. Tag(d, 5) \in DOMAIN h2.S <=> Tag(d, 5) \in DOMAIN h.S BY <2>3, IssuedTags
  <2>5. Tag(d, 4) \in DOMAIN h2.S <=> Tag(d, 4) \in DOMAIN h.S BY <2>3, IssuedTags
  <2> QED BY <1>1, <2>2, <2>4, <2>5 DEF Linked
<1> QED BY <1>0, <1>2, <1>3

\* No block is added.
SameCircle(h, h2) == /\ h2.n = h.n /\ h2.block = h.block /\ h2.room = h.room /\ h2.grown = h.grown

\* An enqueue that adds no block changes no link.
LEMMA LinksKeptSame ==
  ASSUME NEW h, NEW h2, NEW K, Shape(h), Pend(h), Enqueued(h, h2), NewStores(h, h2, K),
         SameCircle(h, h2), 5 \notin K
  PROVE  LinksKept(h, h2) /\ LastVisit(h2) = LastVisit(h) /\ \A v : NextOf(h2, v) = NextOf(h, v)
<1>0. /\ h.freed \in Nat /\ h.tail \in Nat /\ LastVisit(h) \in Nat /\ h.freed >= 1 /\ h.tail <= LastVisit(h) /\ h.sent \in Nat
  BY ShapeFacts
<1>1. h2.freed = h.freed /\ h2.n = h.n /\ h2.block = h.block /\ h2.tail \in {h.tail, h.tail + 1} /\ h2.grown = h.grown
  BY DEF Enqueued, SameCircle
<1>2. LastVisit(h2) = LastVisit(h) BY <1>1 DEF LastVisit
<1>3. \A v : NextOf(h2, v) = NextOf(h, v) BY <1>1, <1>2 DEF NextOf
<1>4. Issued(h, h2, K) BY DEF NewStores
<1>5. \A w \in h.freed..LastVisit(h) : Linked(h, w) => Linked(h2, w)
  <2> TAKE w \in h.freed..LastVisit(h)
  <2>1. CASE w \in 1..h.tail BY <1>4, <2>1, EnqueuedLinked
  <2>2. CASE w \notin 1..h.tail
    <3>1. h.grown \subseteq 2..h.tail BY DEF Shape, Circular
    <3>2. w \notin h2.grown BY <1>0, <1>1, <2>2, <3>1
    <3> QED BY <3>2 DEF Linked
  <2> QED BY <2>1, <2>2
<1>6. \A v, b : Stale(h, v, b) => Stale(h2, v, b) BY <1>1, <1>2, <1>5 DEF Stale
<1>7. Tag(h.sent + 1, 5) \notin DOMAIN h2.S
  <2>1. ASSUME Tag(h.sent + 1, 5) \in DOMAIN h.S PROVE FALSE
    <3>1. PICK d \in Nat : d = h.sent + 1 BY <1>0
    <3>2. 5 \in 1..7 /\ Tag(d, 5) \in DOMAIN h.S BY <2>1, <3>1
    <3>3. d \in (h.pub + 1)..h.sent BY <3>2, TagOf
    <3> QED BY <1>0, <3>1, <3>3
  <2>2. \A k \in K : Tag(h.sent + 1, 5) # Tag(h.sent + 1, k)
    <3>1. K \subseteq 1..7 BY <1>4 DEF Issued
    <3> QED BY <1>0, <3>1 DEF Tag
  <2> QED BY <1>4, <2>1, <2>2 DEF Issued
<1>8. ASSUME NEW v \in h.freed..LastVisit(h), NEW b, Link(h, v, b) PROVE Link(h2, v, b)
  <2>1. CASE v < h.tail
    <3>1. v + 1 \in 1..h.tail /\ v + 1 > 1 /\ v < h2.tail BY <1>0, <1>1, <2>1
    <3>2. Tag(h2.first[v + 1], 5) \in DOMAIN h2.S <=> Tag(h.first[v + 1], 5) \in DOMAIN h.S
      <4>1. PICK w \in 1..h.tail : w = v + 1 BY <3>1
      <4> QED BY <1>4, <3>1, <4>1, EnqueuedLinked
    <3> QED BY <1>3, <1>6, <1>8, <2>1, <3>1, <3>2 DEF Link
  <2>2. CASE ~ (v < h.tail)
    <3>1. b = NextOf(h, v) BY <1>8, <2>2 DEF Link
    <3>2. ~ (v < h2.tail /\ Tag(h2.first[v + 1], 5) \in DOMAIN h2.S)
      <4>1. ASSUME v < h2.tail PROVE Tag(h2.first[v + 1], 5) \notin DOMAIN h2.S
        <5>1. v + 1 = h2.tail /\ h2.tail = h.tail + 1 BY <1>0, <1>1, <2>2, <4>1
        <5>2. h2.first[h2.tail] = h.sent + 1 BY <5>1 DEF Enqueued
        <5> QED BY <1>7, <5>1, <5>2
      <4> QED BY <4>1
    <3> QED BY <1>3, <3>1, <3>2 DEF Link
  <2> QED BY <2>1, <2>2
<1> QED BY <1>2, <1>3, <1>8 DEF LinksKept

\* An enqueue that adds one changes the link of the tail block, which the front block
\* was behind; until the new link is in memory the stale one leads to the old front
\* block or a block after it.
LEMMA LinksKeptGrown ==
  ASSUME NEW h, NEW h2, NEW K, Shape(h), Pend(h), Enqueued(h, h2), NewStores(h, h2, K),
         GrownVisit(h, h2), 5 \in K
  PROVE  LinksKept(h, h2)
<1>0. /\ h.freed \in Nat /\ h.tail \in Nat /\ LastVisit(h) \in Nat /\ h.freed >= 1 /\ h.tail <= LastVisit(h) /\ h.sent \in Nat
      /\ h.shown \in Nat /\ h.freed <= h.shown /\ h.shown <= h.tail
  BY ShapeFacts
<1>1. h2.freed = h.freed /\ h.tail = LastVisit(h) /\ h2.tail = h.tail + 1
  BY DEF GrownVisit, NewVisit
<1>2. LastVisit(h2) = LastVisit(h) + 1 BY GrownCircular
<1>3. Issued(h, h2, K) BY DEF NewStores
<1>4. \A v \in 1..LastVisit(h) : h2.block[v] = h.block[v] BY DEF Enqueued
<1>5. \A w \in h.freed..LastVisit(h) : (Linked(h, w) => Linked(h2, w)) /\ h2.block[w] = h.block[w] /\ w \in h2.freed..LastVisit(h2)
  <2> TAKE w \in h.freed..LastVisit(h)
  <2>1. w \in 1..h.tail /\ w \in 1..LastVisit(h) /\ w \in h.freed..(LastVisit(h) + 1) BY <1>0, <1>1
  <2>2. Linked(h2, w) <=> Linked(h, w) BY <1>3, <2>1, EnqueuedLinked
  <2> QED BY <1>1, <1>2, <1>4, <2>1, <2>2
<1>6. \A v, b : Stale(h, v, b) => Stale(h2, v, b) BY <1>1, <1>5 DEF Stale
<1>7. Linked(h, h.freed)
  <2>1. ASSUME Tag(h.first[h.freed], 5) \in DOMAIN h.S PROVE FALSE
    <3>1. h.freed \in 1..h.tail /\ 5 \in {2, 3, 4, 5} BY <1>0
    <3>2. h.freed > h.shown BY <2>1, <3>1, OpenVisit
    <3> QED BY <1>0, <3>2
  <2> QED BY <2>1 DEF Linked
<1>8. ASSUME NEW v \in h.freed..LastVisit(h), NEW b, Link(h, v, b) PROVE Link(h2, v, b)
  <2>1. CASE v < h.tail
    <3>1. v + 1 \in 1..h.tail /\ v + 1 > 1 /\ v < h2.tail BY <1>0, <1>1, <2>1
    <3>2. Tag(h2.first[v + 1], 5) \in DOMAIN h2.S <=> Tag(h.first[v + 1], 5) \in DOMAIN h.S
      <4>1. PICK w \in 1..h.tail : w = v + 1 BY <3>1
      <4> QED BY <1>3, <3>1, <4>1, EnqueuedLinked
    <3>3. NextOf(h2, v) = NextOf(h, v)
      <4>1. v # LastVisit(h) /\ v # LastVisit(h2) /\ v + 1 \in 1..LastVisit(h)
        BY <1>0, <1>1, <1>2, <2>1, <3>1
      <4> QED BY <1>4, <4>1 DEF NextOf
    <3> QED BY <1>6, <1>8, <2>1, <3>1, <3>2, <3>3 DEF Link
  <2>2. CASE ~ (v < h.tail)
    <3>1. v = h.tail BY <1>0, <1>1, <2>2
    <3>2. b = h.block[h.freed] BY <1>1, <1>8, <3>1 DEF Link, NextOf
    <3>3. h2.first[h2.tail] = h.sent + 1 /\ v + 1 = h2.tail /\ v < h2.tail
      BY <1>0, <1>1, <3>1 DEF Enqueued
    <3>4. Tag(h.sent + 1, 5) \in DOMAIN h2.S BY <1>3 DEF Issued
    <3>5. h.freed \in h.freed..LastVisit(h) BY <1>0
    <3>6. Stale(h2, v, b) BY <1>1, <1>5, <1>7, <3>2, <3>5 DEF Stale
    <3> QED BY <3>3, <3>4, <3>6 DEF Link
  <2> QED BY <2>1, <2>2
<1> QED BY <1>8 DEF LinksKept

-----------------------------------------------------------------------------
(* An enqueue: what memory and the threads see.                            *)

\* The producer sees its new tail block and tail.
TailMoved(h, h2, P, P2) ==
  /\ P2[<<"tailBlock">>] = h2.block[h2.tail]
  /\ \A b \in Blocks : P2[<<"tail", b>>] = IF b = h2.block[h2.tail] THEN IndexOf(h2, h2.tail, h.sent + 2) ELSE P[<<"tail", b>>]
\* Its copy of the front.
FrontCopied(h2, F, F2) ==
  \A b \in Blocks : F2[b] = IF b = h2.block[h2.tail] THEN IndexOf(h2, h2.tail, h2.lf) ELSE F[b]
\* A block ahead is empty.
Empty(h, h2, m, C) ==
  h2.tail = h.tail + 1 =>
  /\ m[<<"tail", h2.block[h2.tail]>>] = IndexOf(h2, h2.tail, h.sent + 1)
  /\ m[<<"front", h2.block[h2.tail]>>] = IndexOf(h2, h2.tail, h.sent + 1)
  /\ C[<<"front", h2.block[h2.tail]>>] = IndexOf(h2, h2.tail, h.sent + 1)
  /\ Tag(h.sent + 1, 3) \in DOMAIN h2.S

\* An enqueue with stores of the kinds K leads from h to h2.
EnqueueStep(h, h2, K) == Shape(h) /\ Pend(h) /\ Shape(h2) /\ Enqueued(h, h2) /\ NewStores(h, h2, K) /\ Fits(h2)

\* The types of an enqueue and what it leaves alone.
LEMMA EnqueueCounters ==
  ASSUME NEW h, NEW h2, NEW K, EnqueueStep(h, h2, K)
  PROVE  /\ h.freed \in Nat /\ h.tail <= LastVisit(h) /\ h.tail \in Nat /\ LastVisit(h) \in Nat /\ h.freed >= 1 /\ h.n \in Nat
         /\ h.freed <= h.front /\ h.front <= h.shown /\ h.shown <= h.tail /\ h.shown \in Nat /\ h.front \in Nat /\ h.rel \in Nat
         /\ h.got \in Nat /\ h.pub \in Nat /\ h.sent \in Nat /\ h.got <= h.pub /\ h.pub <= h.sent /\ h.rel <= h.got
         /\ h2.freed = h.freed /\ h2.front = h.front /\ h2.shown = h.shown /\ (h2.tail = h.tail \/ h2.tail = h.tail + 1)
         /\ h2.tail \in Nat /\ LastVisit(h2) \in Nat /\ h2.tail <= LastVisit(h2) /\ h.tail <= h2.tail
         /\ h2.rel = h.rel /\ h2.got = h.got /\ h2.pub = h.pub /\ h2.sent = h.sent + 1 /\ h2.lt = h.lt /\ h2.R = h.R /\ h2.n \in Nat
<1>1. Shape(h) /\ Shape(h2) /\ Enqueued(h, h2) BY DEF EnqueueStep
<1>2. h.tail \in Nat BY <1>1, ShapeFacts
<1>3. /\ h2.freed = h.freed /\ h2.front = h.front /\ h2.shown = h.shown /\ h2.tail \in {h.tail, h.tail + 1}
      /\ h2.rel = h.rel /\ h2.got = h.got /\ h2.pub = h.pub /\ h2.sent = h.sent + 1 /\ h2.lt = h.lt /\ h2.R = h.R /\ h2.n \in Nat
  BY <1>1 DEF Enqueued
<1>4. /\ h.freed \in Nat /\ h.tail <= LastVisit(h) /\ h.tail \in Nat /\ LastVisit(h) \in Nat /\ h.freed >= 1 /\ h.n \in Nat
      /\ h.freed <= h.front /\ h.front <= h.shown /\ h.shown <= h.tail /\ h.shown \in Nat /\ h.front \in Nat /\ h.rel \in Nat
      /\ h.got \in Nat /\ h.pub \in Nat /\ h.sent \in Nat /\ h.got <= h.pub /\ h.pub <= h.sent /\ h.rel <= h.got
  BY <1>1, ShapeFacts
<1>5. h2.tail \in Nat /\ LastVisit(h2) \in Nat /\ h2.tail <= LastVisit(h2) BY <1>1, ShapeFacts
<1> QED BY <1>2, <1>3, <1>4, <1>5

\* The fronts and tails of the blocks visited before the enqueue stand for the elements
\* they did.
LEMMA EnqueueFirsts ==
  ASSUME NEW h, NEW h2, NEW K, EnqueueStep(h, h2, K)
  PROVE  /\ \A v \in 1..h2.tail : h2.first[v] = h.first[v]
         /\ \A v \in h.freed..h.tail : MemTail(h2, v) = MemTail(h, v) /\ MemFront(h2, v) = MemFront(h, v) /\ OwnFront(h2, v) = OwnFront(h, v)
         /\ h2.tail = h.tail + 1 => MemFront(h2, h2.tail) = h.sent + 1 /\ OwnFront(h2, h2.tail) = h.sent + 1
         /\ h2.tail = h.tail + 1 /\ Tag(h.sent + 1, 3) \in DOMAIN h2.S => MemTail(h2, h2.tail) = h.sent + 1
<1>0. /\ h.freed \in Nat /\ h.tail \in Nat /\ h.freed >= 1 /\ h.freed <= h.front /\ h.front <= h.shown /\ h.shown <= h.tail /\ h.shown \in Nat /\ h.front \in Nat
      /\ h2.freed = h.freed /\ h2.front = h.front /\ h2.shown = h.shown /\ (h2.tail = h.tail \/ h2.tail = h.tail + 1)
      /\ h2.rel = h.rel /\ h2.got = h.got /\ h2.pub = h.pub
  BY EnqueueCounters
<1>1. Shape(h) /\ Pend(h) /\ Enqueued(h, h2) /\ Issued(h, h2, K) BY DEF EnqueueStep, NewStores
<1>2. \A v \in 1..h.tail : h2.first[v] = h.first[v] BY <1>1 DEF Enqueued
<1>3. h2.tail = h.tail + 1 => h2.first[h2.tail] = h.sent + 1 BY <1>1 DEF Enqueued
<1>4. h.first[h.tail + 1] = h.sent + 1 BY <1>1 DEF Shape, Visits
<1>5. \A v \in 1..h2.tail : h2.first[v] = h.first[v]
  <2> TAKE v \in 1..h2.tail
  <2>1. v \in 1..h.tail \/ (v = h.tail + 1 /\ h2.tail = h.tail + 1) BY <1>0
  <2> QED BY <1>2, <1>3, <1>4, <2>1
<1>6. ASSUME NEW v \in h.freed..h.tail PROVE MemTail(h2, v) = MemTail(h, v) /\ MemFront(h2, v) = MemFront(h, v) /\ OwnFront(h2, v) = OwnFront(h, v)
  <2>1. MemTail(h2, v) = MemTail(h, v) BY <1>0, <1>1, <1>2, MemTailSame
  <2>2. v \in 1..h.tail /\ v \in Nat /\ h2.first[v] = h.first[v] BY <1>0, <1>2
  <2>3. MemFront(h2, v) = MemFront(h, v) BY <1>0, <2>2 DEF MemFront
  <2>4. v < h.front => h2.first[v + 1] = h.first[v + 1]
    <3>1. v < h.front => v + 1 \in 1..h.tail BY <1>0, <2>2
    <3> QED BY <1>2, <3>1
  <2>5. OwnFront(h2, v) = OwnFront(h, v) BY <1>0, <2>2, <2>4 DEF OwnFront
  <2> QED BY <2>1, <2>3, <2>5
<1>7. ASSUME h2.tail = h.tail + 1 PROVE MemFront(h2, h2.tail) = h.sent + 1 /\ OwnFront(h2, h2.tail) = h.sent + 1
  <2>1. h2.tail # h2.freed /\ ~ (h2.tail < h2.front) /\ h2.tail # h2.front BY <1>0, <1>7
  <2> QED BY <1>3, <1>7, <2>1 DEF MemFront, OwnFront
<1>8. ASSUME h2.tail = h.tail + 1, Tag(h.sent + 1, 3) \in DOMAIN h2.S PROVE MemTail(h2, h2.tail) = h.sent + 1
  <2>1. ~ (h2.tail < h2.shown) /\ h2.tail # h2.shown BY <1>0, <1>8
  <2> QED BY <1>3, <1>8, <2>1 DEF MemTail
<1> QED BY <1>5, <1>6, <1>7, <1>8

\* The blocks visited before are those they were, and the tail block is none of them.
LEMMA EnqueueBlocks ==
  ASSUME NEW h, NEW h2, NEW K, EnqueueStep(h, h2, K)
  PROVE  /\ \A v \in 1..LastVisit(h) : h2.block[v] = h.block[v]
         /\ \A v \in 1..LastVisit(h2) : h2.block[v] \in Blocks /\ h2.block[v] \in 1..h2.n
         /\ \A v \in 1..h.tail : \A x : IndexOf(h2, v, x) = IndexOf(h, v, x)
         /\ \A v \in h.freed..LastVisit(h2) : h2.block[v] = h2.block[h2.tail] => v = h2.tail
<1>0. h2.freed = h.freed /\ h2.tail \in h2.freed..LastVisit(h2) BY EnqueueCounters
<1>1. Shape(h) /\ Shape(h2) /\ Enqueued(h, h2) /\ Fits(h2) BY DEF EnqueueStep
<1>2. \A v \in 1..LastVisit(h) : h2.block[v] = h.block[v] BY <1>1 DEF Enqueued
<1>3. \A v \in 1..LastVisit(h2) : h2.block[v] \in Blocks /\ h2.block[v] \in 1..h2.n
  BY <1>1, BlockFits
<1>4. \A v \in 1..h.tail : \A x : IndexOf(h2, v, x) = IndexOf(h, v, x) BY <1>1, EnqueuedIndex
<1>5. \A v \in h.freed..LastVisit(h2) : h2.block[v] = h2.block[h2.tail] => v = h2.tail
  BY <1>0, <1>1, BlockInj
<1> QED BY <1>2, <1>3, <1>4, <1>5

\* The producer sees its own tail move on by one; memory shows nothing of it yet.
LEMMA EnqueueTailViews ==
  ASSUME NEW h, NEW h2, NEW K, EnqueueStep(h, h2, K), NEW m, NEW P, NEW P2, NEW C,
         TailMoved(h, h2, P, P2), Empty(h, h2, m, C), TailViews(h, m, P)
  PROVE  TailViews(h2, m, P2)
<1>0. /\ h.freed \in Nat /\ h.tail \in Nat /\ h.freed >= 1 /\ h.freed <= h.front /\ h.front <= h.shown /\ h.shown <= h.tail /\ h.shown \in Nat /\ h.front \in Nat
      /\ h2.freed = h.freed /\ h2.shown = h.shown /\ (h2.tail = h.tail \/ h2.tail = h.tail + 1) /\ h.tail <= LastVisit(h) /\ LastVisit(h) \in Nat
      /\ h2.tail <= LastVisit(h2) /\ LastVisit(h2) \in Nat /\ h.sent \in Nat
  BY EnqueueCounters
<1>1. \A v \in h.freed..h2.tail : v = h2.tail \/ (v \in 1..h.tail /\ v \in h.freed..h.tail /\ v + 1 \in 1..h2.tail)
  BY <1>0
<1>2. /\ \A v \in 1..LastVisit(h) : h2.block[v] = h.block[v]
      /\ \A v \in 1..LastVisit(h2) : h2.block[v] \in Blocks
      /\ \A v \in 1..h.tail : \A x : IndexOf(h2, v, x) = IndexOf(h, v, x)
      /\ \A v \in h.freed..LastVisit(h2) : h2.block[v] = h2.block[h2.tail] => v = h2.tail
  BY EnqueueBlocks
<1>3. /\ \A v \in 1..h2.tail : h2.first[v] = h.first[v]
      /\ \A v \in h.freed..h.tail : MemTail(h2, v) = MemTail(h, v)
      /\ h2.tail = h.tail + 1 /\ Tag(h.sent + 1, 3) \in DOMAIN h2.S => MemTail(h2, h2.tail) = h.sent + 1
  BY EnqueueFirsts
<1>4. h2.first[h2.tail + 1] = h.sent + 2 BY DEF EnqueueStep, Enqueued
<1>5. m[<<"tailBlock">>] = h2.block[h2.shown]
  <2>1. h.shown \in 1..LastVisit(h) BY <1>0
  <2>2. m[<<"tailBlock">>] = h.block[h.shown] BY DEF TailViews
  <2> QED BY <1>0, <1>2, <2>1, <2>2
<1>6. ASSUME NEW v \in h.freed..h2.tail PROVE P2[<<"tail", h2.block[v]>>] = IndexOf(h2, v, h2.first[v + 1])
  <2>0. v \in 1..LastVisit(h2) /\ v \in h.freed..LastVisit(h2) BY <1>0
  <2>1. h2.block[v] \in Blocks BY <1>2, <2>0
  <2>2. CASE v = h2.tail BY <1>4, <2>1, <2>2 DEF TailMoved
  <2>3. CASE v # h2.tail
    <3>1. v \in 1..h.tail /\ v \in h.freed..h.tail /\ v + 1 \in 1..h2.tail /\ v \in 1..LastVisit(h)
      BY <1>0, <1>1, <2>3
    <3>2. P2[<<"tail", h2.block[v]>>] = P[<<"tail", h2.block[v]>>]
      BY <1>2, <2>0, <2>1, <2>3 DEF TailMoved
    <3>3. P[<<"tail", h.block[v]>>] = IndexOf(h, v, h.first[v + 1]) BY <3>1 DEF TailViews
    <3>4. h2.block[v] = h.block[v] /\ h2.first[v + 1] = h.first[v + 1] BY <1>2, <1>3, <3>1
    <3> QED BY <1>2, <3>1, <3>2, <3>3, <3>4
  <2> QED BY <2>2, <2>3
<1>7. ASSUME NEW v \in h.freed..h2.tail PROVE m[<<"tail", h2.block[v]>>] = IndexOf(h2, v, MemTail(h2, v))
  <2>1. CASE v \in h.freed..h.tail
    <3>1. v \in 1..h.tail /\ v \in 1..LastVisit(h) BY <1>0, <2>1
    <3>2. m[<<"tail", h.block[v]>>] = IndexOf(h, v, MemTail(h, v)) BY <2>1 DEF TailViews
    <3>3. h2.block[v] = h.block[v] BY <1>2, <3>1
    <3> QED BY <1>2, <1>3, <2>1, <3>1, <3>2, <3>3
  <2>2. CASE v \notin h.freed..h.tail
    <3>1. v = h2.tail /\ h2.tail = h.tail + 1 BY <1>0, <2>2
    <3>2. MemTail(h2, v) = h.sent + 1 BY <1>3, <3>1 DEF Empty
    <3> QED BY <3>1, <3>2 DEF Empty
  <2> QED BY <2>1, <2>2
<1>8. P2[<<"tailBlock">>] = h2.block[h2.tail] BY DEF TailMoved
<1> QED BY <1>0, <1>5, <1>6, <1>7, <1>8 DEF TailViews

\* The fronts stand for what they did; a block that is entered is empty.
LEMMA EnqueueFrontViews ==
  ASSUME NEW h, NEW h2, NEW K, EnqueueStep(h, h2, K), NEW m, NEW C, Empty(h, h2, m, C),
         FrontViews(h, m, C)
  PROVE  FrontViews(h2, m, C)
<1>0. /\ h.freed \in Nat /\ h.tail \in Nat /\ h.freed >= 1 /\ h.freed <= h.front /\ h.front <= h.shown /\ h.shown <= h.tail /\ h.shown \in Nat /\ h.front \in Nat
      /\ h2.freed = h.freed /\ h2.front = h.front /\ (h2.tail = h.tail \/ h2.tail = h.tail + 1) /\ h.tail <= LastVisit(h) /\ LastVisit(h) \in Nat
  BY EnqueueCounters
<1>2. /\ \A v \in 1..LastVisit(h) : h2.block[v] = h.block[v]
      /\ \A v \in 1..h.tail : \A x : IndexOf(h2, v, x) = IndexOf(h, v, x)
  BY EnqueueBlocks
<1>3. /\ \A v \in h.freed..h.tail : MemFront(h2, v) = MemFront(h, v) /\ OwnFront(h2, v) = OwnFront(h, v)
      /\ h2.tail = h.tail + 1 => MemFront(h2, h2.tail) = h.sent + 1 /\ OwnFront(h2, h2.tail) = h.sent + 1
  BY EnqueueFirsts
<1>4. C[<<"frontBlock">>] = h2.block[h2.front] /\ m[<<"frontBlock">>] = h2.block[h2.freed]
  <2>1. h.front \in 1..LastVisit(h) /\ h.freed \in 1..LastVisit(h) BY <1>0
  <2>2. C[<<"frontBlock">>] = h.block[h.front] /\ m[<<"frontBlock">>] = h.block[h.freed]
    BY DEF FrontViews
  <2> QED BY <1>0, <1>2, <2>1, <2>2
<1>5. ASSUME NEW v \in h.freed..h2.tail
      PROVE  /\ C[<<"front", h2.block[v]>>] = IndexOf(h2, v, OwnFront(h2, v))
             /\ m[<<"front", h2.block[v]>>] = IndexOf(h2, v, MemFront(h2, v))
  <2>1. CASE v \in h.freed..h.tail
    <3>1. v \in 1..h.tail /\ v \in 1..LastVisit(h) BY <1>0, <2>1
    <3>2. C[<<"front", h.block[v]>>] = IndexOf(h, v, OwnFront(h, v)) /\ m[<<"front", h.block[v]>>] = IndexOf(h, v, MemFront(h, v))
      BY <2>1 DEF FrontViews
    <3>3. h2.block[v] = h.block[v] BY <1>2, <3>1
    <3> QED BY <1>2, <1>3, <2>1, <3>1, <3>2, <3>3
  <2>2. CASE v \notin h.freed..h.tail
    <3>1. v = h2.tail /\ h2.tail = h.tail + 1 BY <1>0, <2>2
    <3> QED BY <1>3, <3>1 DEF Empty
  <2> QED BY <2>1, <2>2
<1> QED BY <1>0, <1>4, <1>5 DEF FrontViews

\* The new element is pending, and the others are where they were.
LEMMA EnqueueDataViews ==
  ASSUME NEW h, NEW h2, NEW K, EnqueueStep(h, h2, K), NEW m, DataViews(h, m)
  PROVE  DataViews(h2, m)
<1>0. h.sent \in Nat /\ h.got \in Nat /\ h2.got = h.got /\ h2.sent = h.sent + 1 /\ h.tail \in Nat /\ h.tail <= LastVisit(h) /\ LastVisit(h) \in Nat
  BY EnqueueCounters
<1>1. Shape(h) /\ Pend(h) /\ Enqueued(h, h2) /\ Issued(h, h2, K) /\ K = Kinds(h2, h.sent + 1)
  BY DEF EnqueueStep, NewStores
<1>2. /\ \A v \in 1..LastVisit(h) : h2.block[v] = h.block[v]
      /\ \A v \in 1..h.tail : \A x : IndexOf(h2, v, x) = IndexOf(h, v, x)
  BY EnqueueBlocks
<1>3. ASSUME NEW e \in (h.got + 1)..(h.sent + 1)
      PROVE  Tag(e, 1) \in DOMAIN h2.S \/ m[<<"data", h2.block[h2.visit[e]], IndexOf(h2, h2.visit[e], e)>>] = e
  <2>1. CASE e = h.sent + 1
    <3>1. 1 \in K BY <1>1 DEF Kinds
    <3> QED BY <1>1, <2>1, <3>1 DEF Issued
  <2>2. CASE e # h.sent + 1
    <3>1. e \in (h.got + 1)..h.sent /\ e \in 1..h.sent /\ 1 \in 1..7 /\ 1 # 6 BY <1>0, <2>2
    <3>2. Tag(e, 1) \in DOMAIN h.S \/ m[<<"data", h.block[h.visit[e]], IndexOf(h, h.visit[e], e)>>] = e
      BY <3>1 DEF DataViews
    <3>3. Tag(e, 1) \in DOMAIN h2.S <=> Tag(e, 1) \in DOMAIN h.S BY <1>1, <3>1, IssuedTags
    <3>4. h.visit[e] \in 1..h.tail BY <1>1, <3>1, VisitType
    <3>5. h.visit[e] \in 1..LastVisit(h) BY <1>0, <3>4
    <3>6. h2.visit[e] = h.visit[e] BY <1>1, <3>1 DEF Enqueued
    <3>7. h2.block[h.visit[e]] = h.block[h.visit[e]] /\ IndexOf(h2, h.visit[e], e) = IndexOf(h, h.visit[e], e)
      BY <1>2, <3>4, <3>5
    <3> QED BY <3>2, <3>3, <3>6, <3>7
  <2> QED BY <2>1, <2>2
<1> QED BY <1>0, <1>3 DEF DataViews

\* The producer's copy of the new tail block's front stands for an element.
LEMMA EnqueueShadowViews ==
  ASSUME NEW h, NEW h2, NEW K, EnqueueStep(h, h2, K), NEW m, NEW F, NEW F2, FrontCopied(h2, F, F2),
         ShadowViews(h, m, F)
  PROVE  ShadowViews(h2, m, F2)
<1>0. /\ h.front \in 1..h.tail /\ h.front \in 1..LastVisit(h) /\ h2.front = h.front /\ h2.lt = h.lt /\ h2.tail \in 1..LastVisit(h2)
  BY EnqueueCounters
<1>1. /\ \A v \in 1..LastVisit(h) : h2.block[v] = h.block[v]
      /\ \A v \in 1..h.tail : \A x : IndexOf(h2, v, x) = IndexOf(h, v, x)
      /\ \A v \in 1..LastVisit(h2) : h2.block[v] \in Blocks
  BY EnqueueBlocks
<1>2. m[<<"localTail", h.block[h.front]>>] = IndexOf(h, h.front, h.lt) BY DEF ShadowViews
<1>3. m[<<"localTail", h2.block[h2.front]>>] = IndexOf(h2, h2.front, h2.lt) BY <1>0, <1>1, <1>2
<1>4. F2[h2.block[h2.tail]] = IndexOf(h2, h2.tail, h2.lf)
  <2>1. h2.block[h2.tail] \in Blocks BY <1>0, <1>1
  <2> QED BY <2>1 DEF FrontCopied
<1> QED BY <1>3, <1>4 DEF ShadowViews

\* The blocks that are still ahead of the tail block are empty.
LEMMA SameFreeViews ==
  ASSUME NEW h, NEW h2, NEW K, EnqueueStep(h, h2, K), SameCircle(h, h2), NEW m, NEW P, NEW P2,
         NEW C, NEW F, NEW F2,
         TailMoved(h, h2, P, P2), FrontCopied(h2, F, F2), FreeViews(h, m, P, C, F)
  PROVE  FreeViews(h2, m, P2, C, F2)
<1>0. /\ h.freed \in Nat /\ h.tail \in Nat /\ h.freed >= 1 /\ h.freed <= h.tail /\ h2.freed = h.freed /\ h.tail <= h2.tail /\ h2.tail \in Nat
      /\ LastVisit(h) \in Nat /\ h2.tail <= LastVisit(h2) /\ h.n \in Nat
  BY EnqueueCounters
<1>1. h2.n = h.n /\ h2.block = h.block /\ h2.room = h.room BY DEF SameCircle
<1>2. LastVisit(h2) = LastVisit(h) BY <1>0, <1>1 DEF LastVisit
<1>3. /\ \A v \in 1..LastVisit(h2) : h2.block[v] \in Blocks /\ h2.block[v] \in 1..h2.n
      /\ \A v \in h.freed..LastVisit(h2) : h2.block[v] = h2.block[h2.tail] => v = h2.tail
  BY EnqueueBlocks
<1>4. ASSUME NEW v \in (h2.tail + 1)..LastVisit(h), NEW b, b = h.block[v]
      PROVE  /\ m[<<"tail", b>>] \in 0..(h.room[v] - 1)
             /\ P2[<<"tail", b>>] = m[<<"tail", b>>]
             /\ m[<<"front", b>>] = m[<<"tail", b>>]
             /\ C[<<"front", b>>] = m[<<"tail", b>>]
  <2>1. v \in (h.tail + 1)..LastVisit(h) /\ v \in 1..LastVisit(h) /\ v \in h.freed..LastVisit(h) /\ v # h2.tail
    BY <1>0
  <2>2. /\ m[<<"tail", b>>] \in 0..(h.room[v] - 1)
        /\ P[<<"tail", b>>] = m[<<"tail", b>>]
        /\ m[<<"front", b>>] = m[<<"tail", b>>]
        /\ C[<<"front", b>>] = m[<<"tail", b>>]
    BY <1>4, <2>1 DEF FreeViews
  <2>3. b \in Blocks /\ b # h2.block[h2.tail] BY <1>1, <1>2, <1>3, <1>4, <2>1
  <2>4. P2[<<"tail", b>>] = P[<<"tail", b>>] BY <2>3 DEF TailMoved
  <2> QED BY <2>2, <2>4
<1>5. ASSUME NEW b \in Blocks, b > h.n
      PROVE m[<<"tail", b>>] = 0 /\ m[<<"front", b>>] = 0 /\ C[<<"front", b>>] = 0 /\ F2[b] = 0
  <2>1. m[<<"tail", b>>] = 0 /\ m[<<"front", b>>] = 0 /\ C[<<"front", b>>] = 0 /\ F[b] = 0
    BY <1>5 DEF FreeViews
  <2>2. b # h2.block[h2.tail]
    <3>1. h2.tail \in 1..LastVisit(h2) BY <1>0
    <3>2. h2.block[h2.tail] \in 1..h.n BY <1>1, <1>3, <3>1
    <3> QED BY <1>0, <1>5, <3>2
  <2> QED BY <2>1, <2>2 DEF FrontCopied
<1> QED BY <1>1, <1>2, <1>4, <1>5 DEF FreeViews

\* After a new block there is none ahead, and the blocks not allocated yet are blank.
LEMMA GrownFreeViews ==
  ASSUME NEW h, NEW h2, NEW K, EnqueueStep(h, h2, K), GrownVisit(h, h2), NEW m, NEW P, NEW P2,
         NEW C, NEW F, NEW F2,
         FrontCopied(h2, F, F2), FreeViews(h, m, P, C, F)
  PROVE  FreeViews(h2, m, P2, C, F2)
<1>0. /\ h.tail \in Nat /\ h2.tail \in Nat /\ LastVisit(h) \in Nat /\ h2.tail <= LastVisit(h2) /\ h.n \in Nat /\ h.freed \in Nat /\ h.freed >= 1 /\ h.freed <= h.tail
  BY EnqueueCounters
<1>1. h2.n = h.n + 1 /\ h2.tail = h.tail + 1 /\ h.tail = LastVisit(h) BY DEF GrownVisit, NewVisit
<1>2. LastVisit(h2) = LastVisit(h) + 1
  <2>1. Shape(h) BY DEF EnqueueStep
  <2> QED BY <2>1, GrownCircular
<1>3. (h2.tail + 1)..LastVisit(h2) = {} BY <1>0, <1>1, <1>2
<1>4. \A v \in 1..LastVisit(h2) : h2.block[v] \in 1..h2.n BY EnqueueBlocks
<1>5. ASSUME NEW b \in Blocks, b > h2.n
      PROVE m[<<"tail", b>>] = 0 /\ m[<<"front", b>>] = 0 /\ C[<<"front", b>>] = 0 /\ F2[b] = 0
  <2>0. b \in Int BY BlocksIs
  <2>1. b > h.n BY <1>0, <1>1, <1>5, <2>0
  <2>2. m[<<"tail", b>>] = 0 /\ m[<<"front", b>>] = 0 /\ C[<<"front", b>>] = 0 /\ F[b] = 0
    BY <2>1 DEF FreeViews
  <2>3. b # h2.block[h2.tail]
    <3>1. h2.tail \in 1..LastVisit(h2) BY <1>0, <1>1, <1>2
    <3>2. h2.block[h2.tail] \in 1..h2.n BY <1>4, <3>1
    <3> QED BY <1>0, <1>1, <1>5, <2>0, <3>2
  <2> QED BY <2>2, <2>3 DEF FrontCopied
<1> QED BY <1>3, <1>5 DEF FreeViews

\* A next pointer of an old block in memory.
LEMMA EnqueueNextMemory ==
  ASSUME NEW h, NEW h2, NEW K, EnqueueStep(h, h2, K), LinksKept(h, h2), NEW m, NEW P,
         NextViews(h, m, P), NEW v \in h.freed..LastVisit(h)
  PROVE  \/ v <= h2.tail /\ Tag(h2.first[v], 4) \in DOMAIN h2.S
         \/ Link(h2, v, m[<<"next", h2.block[v]>>])
<1>0. /\ h.freed \in Nat /\ h.tail \in Nat /\ h.freed >= 1 /\ LastVisit(h) \in Nat /\ h.tail <= h2.tail /\ h2.tail \in Nat /\ h.shown \in Nat
      /\ h.freed <= h.shown
  BY EnqueueCounters
<1>1. Shape(h) /\ Pend(h) /\ Enqueued(h, h2) /\ Issued(h, h2, K) BY DEF EnqueueStep, NewStores
<1>2. v \in 1..LastVisit(h) BY <1>0
<1>3. h2.block[v] = h.block[v] BY <1>2, EnqueueBlocks
<1>4. CASE v <= h.tail /\ Tag(h.first[v], 4) \in DOMAIN h.S
  <2>1. v \in 1..h.tail /\ 4 \in {2, 3, 4, 5} BY <1>0, <1>4
  <2>2. v > h.shown BY <1>1, <1>4, <2>1, OpenVisit
  <2>3. v > 1 /\ v <= h2.tail BY <1>0, <1>4, <2>2
  <2>4. Tag(h2.first[v], 4) \in DOMAIN h2.S BY <1>1, <1>4, <2>1, <2>3, EnqueuedLinked
  <2> QED BY <2>3, <2>4
<1>5. CASE Link(h, v, m[<<"next", h.block[v]>>]) BY <1>3, <1>5 DEF LinksKept
<1> QED BY <1>4, <1>5 DEF NextViews

\* Without a new block every link is as it was.
LEMMA SameNextViews ==
  ASSUME NEW h, NEW h2, NEW K, EnqueueStep(h, h2, K), SameCircle(h, h2), 5 \notin K, NEW m, NEW P,
         NEW P2,
         \A b \in Blocks : P2[<<"next", b>>] = P[<<"next", b>>], NextViews(h, m, P)
  PROVE  NextViews(h2, m, P2) /\ LinksKept(h, h2)
<1>1. Shape(h) /\ Pend(h) /\ Enqueued(h, h2) /\ NewStores(h, h2, K) BY DEF EnqueueStep
<1>2. LinksKept(h, h2) /\ LastVisit(h2) = LastVisit(h) /\ \A v : NextOf(h2, v) = NextOf(h, v)
  BY <1>1, LinksKeptSame
<1>3. h2.freed = h.freed /\ h2.block = h.block /\ h.freed \in Nat /\ h.freed >= 1 /\ LastVisit(h) \in Nat
  BY EnqueueCounters DEF SameCircle
<1>4. \A v \in 1..LastVisit(h) : h.block[v] \in Blocks BY <1>2, <1>3, EnqueueBlocks
<1>5. ASSUME NEW v \in h.freed..LastVisit(h) PROVE P2[<<"next", h.block[v]>>] = NextOf(h, v)
  <2>1. v \in 1..LastVisit(h) BY <1>3
  <2>2. h.block[v] \in Blocks BY <1>4, <2>1
  <2>3. P[<<"next", h.block[v]>>] = NextOf(h, v) BY DEF NextViews
  <2> QED BY <2>2, <2>3
<1>6. \A v \in h.freed..LastVisit(h) : \/ v <= h2.tail /\ Tag(h2.first[v], 4) \in DOMAIN h2.S
                                       \/ Link(h2, v, m[<<"next", h2.block[v]>>])
  BY <1>2, EnqueueNextMemory
<1>7. NextViews(h2, m, P2) BY <1>2, <1>3, <1>5, <1>6 DEF NextViews
<1> QED BY <1>2, <1>7

\* The new block points to the front block, the old tail block to it.
Inserted(h, P, P2) ==
  \A b \in Blocks : P2[<<"next", b>>] = IF b = h.n + 1 THEN h.block[h.freed] ELSE IF b = h.block[h.tail] THEN h.n + 1 ELSE P[<<"next", b>>]

\* With a new block the producer sees it linked in between the tail block and the front
\* block, and memory the old links.
LEMMA GrownNextViews ==
  ASSUME NEW h, NEW h2, NEW K, EnqueueStep(h, h2, K), GrownVisit(h, h2), 4 \in K, 5 \in K, NEW m,
         NEW P, NEW P2,
         Inserted(h, P, P2), NextViews(h, m, P)
  PROVE  NextViews(h2, m, P2) /\ LinksKept(h, h2)
<1>0. /\ h.tail \in Nat /\ h2.tail \in Nat /\ LastVisit(h) \in Nat /\ h2.tail <= LastVisit(h2) /\ h.n \in Nat /\ h.freed \in Nat /\ h.freed >= 1 /\ h.freed <= h.tail
      /\ h2.freed = h.freed
  BY EnqueueCounters
<1>1. Shape(h) /\ Pend(h) /\ Enqueued(h, h2) /\ NewStores(h, h2, K) /\ Issued(h, h2, K)
  BY DEF EnqueueStep, NewStores
<1>2. LinksKept(h, h2) BY <1>1, LinksKeptGrown
<1>3. LastVisit(h2) = LastVisit(h) + 1 BY <1>1, GrownCircular
<1>4. h2.n = h.n + 1 /\ h2.tail = h.tail + 1 /\ h.tail = LastVisit(h)
      /\ h2.block = [v \in 1..(h.tail + 1) |-> IF v = h.tail + 1 THEN h.n + 1 ELSE h.block[v]]
  BY DEF GrownVisit, NewVisit
<1>5. h2.block[h.tail + 1] = h.n + 1
  <2>1. h.tail + 1 \in 1..(h.tail + 1) BY <1>0
  <2> QED BY <1>4, <2>1
<1>6. /\ \A v \in 1..LastVisit(h) : h2.block[v] = h.block[v]
      /\ \A v \in 1..LastVisit(h2) : h2.block[v] \in Blocks
  BY EnqueueBlocks
<1>7. ASSUME NEW v \in h.freed..LastVisit(h2) PROVE P2[<<"next", h2.block[v]>>] = NextOf(h2, v)
  <2>0. v \in 1..LastVisit(h2) /\ h.freed \in 1..LastVisit(h) BY <1>0, <1>3, <1>4
  <2>1. h2.block[v] \in Blocks BY <1>6, <2>0
  <2>2. CASE v = h.tail + 1
    <3>1. P2[<<"next", h2.block[v]>>] = h.block[h.freed] BY <1>5, <2>1, <2>2 DEF Inserted
    <3>2. NextOf(h2, v) = h2.block[h2.freed] BY <1>3, <1>4, <2>2 DEF NextOf
    <3> QED BY <1>0, <1>6, <2>0, <3>1, <3>2
  <2>3. CASE v = h.tail
    <3>1. v \in 1..LastVisit(h) /\ v # LastVisit(h2) BY <1>0, <1>3, <1>4, <2>3
    <3>2. h2.block[v] = h.block[h.tail] /\ h.block[h.tail] \in 1..h.n
      BY <1>1, <1>6, <2>3, <3>1, BlockType
    <3>3. h.block[h.tail] # h.n + 1 BY <1>0, <3>2
    <3>4. P2[<<"next", h2.block[v]>>] = h.n + 1 BY <2>1, <3>2, <3>3 DEF Inserted
    <3>5. NextOf(h2, v) = h2.block[v + 1] BY <3>1 DEF NextOf
    <3> QED BY <1>5, <2>3, <3>4, <3>5
  <2>4. CASE v \in h.freed..(h.tail - 1)
    <3>1. v \in 1..LastVisit(h) /\ v + 1 \in 1..LastVisit(h) /\ v # LastVisit(h) /\ v # LastVisit(h2) /\ v \in h.freed..LastVisit(h) /\ h.tail \in h.freed..LastVisit(h) /\ v # h.tail
      BY <1>0, <1>3, <1>4, <2>4
    <3>2. h2.block[v] = h.block[v] /\ h.block[v] \in 1..h.n BY <1>1, <1>6, <3>1, BlockType
    <3>3. h.block[v] # h.n + 1 BY <1>0, <3>2
    <3>4. h.block[v] # h.block[h.tail] BY <1>1, <3>1, BlockInj
    <3>5. P2[<<"next", h2.block[v]>>] = P[<<"next", h.block[v]>>]
      BY <2>1, <3>2, <3>3, <3>4 DEF Inserted
    <3>6. P[<<"next", h.block[v]>>] = NextOf(h, v) BY <3>1 DEF NextViews
    <3>7. NextOf(h2, v) = h2.block[v + 1] /\ NextOf(h, v) = h.block[v + 1] BY <3>1 DEF NextOf
    <3> QED BY <1>6, <3>1, <3>5, <3>6, <3>7
  <2> QED BY <1>0, <1>3, <1>4, <2>2, <2>3, <2>4
<1>8. ASSUME NEW v \in h.freed..LastVisit(h2)
      PROVE  \/ v <= h2.tail /\ Tag(h2.first[v], 4) \in DOMAIN h2.S
             \/ Link(h2, v, m[<<"next", h2.block[v]>>])
  <2>1. CASE v \in h.freed..LastVisit(h) BY <1>2, <2>1, EnqueueNextMemory
  <2>2. CASE v \notin h.freed..LastVisit(h)
    <3>1. v = h2.tail /\ v <= h2.tail BY <1>0, <1>3, <1>4, <2>2
    <3>2. h2.first[h2.tail] = h.sent + 1 BY <1>1, <1>4 DEF Enqueued
    <3>3. Tag(h.sent + 1, 4) \in DOMAIN h2.S BY <1>1 DEF Issued
    <3> QED BY <3>1, <3>2, <3>3
  <2> QED BY <2>1, <2>2
<1>9. NextViews(h2, m, P2) BY <1>0, <1>7, <1>8 DEF NextViews
<1> QED BY <1>2, <1>9

\* The consumer's pending stores have nothing to do with an enqueue.
LEMMA EnqueueFronts ==
  ASSUME NEW h, NEW h2, NEW K, EnqueueStep(h, h2, K), PendingFronts(h)
  PROVE  PendingFronts(h2)
<1>0. /\ h.freed \in Nat /\ h.tail \in Nat /\ h.freed >= 1 /\ h.freed <= h.front /\ h.front <= h.shown /\ h.shown <= h.tail /\ h.shown \in Nat /\ h.front \in Nat
      /\ h2.freed = h.freed /\ h2.front = h.front /\ h.tail <= LastVisit(h) /\ LastVisit(h) \in Nat
      /\ h.got \in Nat /\ h.pub \in Nat /\ h.sent \in Nat /\ h.got <= h.pub /\ h.pub <= h.sent /\ h.rel \in Nat
      /\ h2.rel = h.rel /\ h2.got = h.got /\ h2.R = h.R
  BY EnqueueCounters
<1>1. Shape(h) /\ Enqueued(h, h2) BY DEF EnqueueStep
<1>2. \A v \in h.freed..h.front : h2.first[v] = h.first[v] /\ h2.block[v] = h.block[v]
  <2> TAKE v \in h.freed..h.front
  <2>1. v \in 1..h.tail /\ v \in 1..LastVisit(h) BY <1>0
  <2> QED BY <1>1, <2>1 DEF Enqueued
<1>3. h2.first[h.front] = h.first[h.front] /\ \A v \in (h.freed + 1)..h.front : h2.first[v] = h.first[v] /\ h2.block[v] = h.block[v]
  <2>1. h.front \in h.freed..h.front /\ \A v \in (h.freed + 1)..h.front : v \in h.freed..h.front
    BY <1>0
  <2> QED BY <1>2, <2>1
<1>4. \A e \in (h.rel + 1)..h.got : h2.block[h2.visit[e]] = h.block[h.visit[e]] /\ IndexOf(h2, h2.visit[e], e + 1) = IndexOf(h, h.visit[e], e + 1)
  <2> TAKE e \in (h.rel + 1)..h.got
  <2>1. e \in 1..h.sent BY <1>0
  <2>2. h.visit[e] \in 1..h.tail /\ h2.visit[e] = h.visit[e] BY <1>1, <2>1, VisitType DEF Enqueued
  <2>3. PICK v \in 1..h.tail : v = h.visit[e] BY <2>2
  <2>4. IndexOf(h2, v, e + 1) = IndexOf(h, v, e + 1) /\ h2.block[v] = h.block[v]
    BY <1>1, EnqueuedIndex
  <2> QED BY <2>2, <2>3, <2>4
<1>5. DOMAIN h2.R \subseteq Nat BY <1>0 DEF PendingFronts
<1>6. \A t \in DOMAIN h2.R :
          \/ \E e \in (h2.rel + 1)..h2.got : t = Tag(e, 4)
          \/ \E v \in (h2.freed + 1)..h2.front : t = Tag(h2.first[v], 2)
          \/ h2.R[t] = Fence
  BY <1>0, <1>3 DEF PendingFronts
<1>7. \A t \in DOMAIN h2.R : \/ t < Tag(h2.got + 1, 1)
                             \/ h2.first[h2.front] = h2.got + 1 /\ t <= Tag(h2.got + 1, 2)
  BY <1>0, <1>3 DEF PendingFronts
<1>8. \A e \in (h2.rel + 1)..h2.got :
          /\ Tag(e, 4) \in DOMAIN h2.R
          /\ h2.R[Tag(e, 4)] = Store(<<"front", h2.block[h2.visit[e]]>>, IndexOf(h2, h2.visit[e], e + 1))
  BY <1>0, <1>4 DEF PendingFronts
<1>9. \A v \in (h2.freed + 1)..h2.front :
          /\ Tag(h2.first[v], 2) \in DOMAIN h2.R
          /\ h2.R[Tag(h2.first[v], 2)] = Store(<<"frontBlock">>, h2.block[v])
  BY <1>0, <1>3 DEF PendingFronts
<1> QED BY <1>5, <1>6, <1>7, <1>8, <1>9 DEF PendingFronts

\* A walk of size_approx that an enqueue overtakes is still at a block of the circle and
\* its count still between what was and what may be there.
LEMMA EnqueueWalk ==
  ASSUME NEW h, NEW h2, NEW K, EnqueueStep(h, h2, K), NEW call \in CallSet, NEW q, Walk(h, call, q),
         SameCircle(h, h2) \/ GrownVisit(h, h2)
  PROVE  Walk(h2, call, q)
<1>0. /\ h.freed \in Nat /\ h.tail \in Nat /\ h.freed >= 1 /\ h.freed <= h.front /\ h.front <= h.shown /\ h.shown <= h.tail /\ h.shown \in Nat /\ h.front \in Nat
      /\ h2.freed = h.freed /\ h2.front = h.front /\ h2.shown = h.shown /\ (h2.tail = h.tail \/ h2.tail = h.tail + 1) /\ h.tail <= LastVisit(h) /\ LastVisit(h) \in Nat
      /\ h2.tail <= LastVisit(h2) /\ LastVisit(h2) \in Nat /\ h.sent \in Nat /\ h.got \in Nat /\ h2.got = h.got /\ h2.sent = h.sent + 1
  BY EnqueueCounters
<1>1. Shape(h) /\ Pend(h) /\ Enqueued(h, h2) /\ Issued(h, h2, K) BY DEF EnqueueStep, NewStores
<1>2. call.start \in Nat /\ call.sum \in Nat BY CallFields
<1>3. q \in h.freed..LastVisit(h) /\ q \in 1..LastVisit(h) /\ q \in Nat BY <1>0 DEF Walk
<1>4. LastVisit(h) <= LastVisit(h2)
  <2>1. CASE SameCircle(h, h2)
    <3>1. LastVisit(h2) = LastVisit(h) BY <1>0, <2>1 DEF LastVisit, SameCircle
    <3> QED BY <1>0, <3>1
  <2>2. CASE GrownVisit(h, h2)
    <3>1. LastVisit(h2) = LastVisit(h) + 1 BY <1>1, <2>2, GrownCircular
    <3> QED BY <1>0, <3>1
  <2> QED BY <2>1, <2>2
<1>5. q \in h2.freed..LastVisit(h2) BY <1>0, <1>3, <1>4
<1>6. call.block = h2.block[q] BY <1>1, <1>3 DEF Walk, Enqueued
<1>7. Linked(h2, q)
  <2>1. CASE q <= h.tail
    <3>1. q \in 1..h.tail BY <1>0, <1>3, <2>1
    <3> QED BY <1>1, <3>1, EnqueuedLinked DEF Walk
  <2>2. CASE ~ (q <= h.tail)
    <3>1. ~ GrownVisit(h, h2) BY <1>0, <1>3, <2>2 DEF GrownVisit
    <3>2. h2.grown = h.grown /\ h.grown \subseteq 2..h.tail
      BY <1>1, <3>1 DEF SameCircle, Shape, Circular
    <3>3. q \notin h2.grown BY <1>0, <1>3, <2>2, <3>2
    <3> QED BY <3>3 DEF Linked
  <2> QED BY <2>1, <2>2
<1>8. call.sum + h.got <= h.sent BY DEF Walk
<1>9. call.sum + h2.got <= h2.sent BY <1>0, <1>2, <1>8
<1>10. q < h.front \/ q > h.tail => call.start <= call.sum + h.got BY DEF Walk
<1>11. q < h2.front \/ q > h2.tail => call.start <= call.sum + h2.got BY <1>0, <1>3, <1>10
<1>12. \A v \in 1..h2.tail : h2.first[v] = h.first[v] BY EnqueueFirsts
<1>13. h2.first[h2.tail + 1] = h.sent + 2 /\ (h2.tail = h.tail + 1 => h2.first[h2.tail] = h.sent + 1)
  BY <1>1 DEF Enqueued
<1>14. ASSUME q \in h2.front..h2.tail, call.pc = "block"
       PROVE  /\ q = h2.front => call.sum = 0
              /\ q # h2.front => /\ call.sum + h2.got < h2.first[q]
                                 /\ \/ call.start <= call.sum + h2.got
                                    \/ call.sum + h2.got = h2.first[q] - 1
  <2>1. CASE q <= h.tail
    <3>1. q \in h.front..h.tail /\ q \in 1..h2.tail BY <1>0, <1>3, <1>14, <2>1
    <3>2. h2.first[q] = h.first[q] BY <1>12, <3>1
    <3> QED BY <1>0, <1>14, <3>1, <3>2 DEF Walk
  <2>2. CASE ~ (q <= h.tail)
    <3>1. q = h2.tail /\ h2.tail = h.tail + 1 /\ q > h.tail /\ q # h2.front
      BY <1>0, <1>3, <1>14, <2>2
    <3>2. h2.first[q] = h.sent + 1 BY <1>13, <3>1
    <3> QED BY <1>0, <1>2, <1>8, <1>10, <3>1, <3>2
  <2> QED BY <2>1, <2>2
<1>15. ASSUME q \in h2.front..h2.tail, call.pc = "blockNext"
       PROVE  /\ call.sum + h2.got < h2.first[q + 1]
              /\ \/ call.start <= call.sum + h2.got
                 \/ q < h2.shown /\ call.sum + h2.got = h2.first[q + 1] - 1
  <2>1. CASE q < h.tail
    <3>1. q \in h.front..h.tail /\ q + 1 \in 1..h2.tail BY <1>0, <1>3, <1>15, <2>1
    <3>2. h2.first[q + 1] = h.first[q + 1] BY <1>12, <3>1
    <3> QED BY <1>0, <1>15, <3>1, <3>2 DEF Walk
  <2>2. CASE q = h.tail
    <3>1. q \in h.front..h.tail /\ ~ (q < h.shown) BY <1>0, <1>3, <1>15, <2>2
    <3>2. call.start <= call.sum + h.got BY <1>15, <3>1 DEF Walk
    <3>3. h2.first[q + 1] = h.sent + 1 \/ h2.first[q + 1] = h.sent + 2 BY <1>0, <1>13, <2>2
    <3> QED BY <1>0, <1>2, <1>8, <3>2, <3>3
  <2>3. CASE q > h.tail
    <3>1. q = h2.tail BY <1>0, <1>3, <1>15, <2>3
    <3> QED BY <1>0, <1>2, <1>8, <1>10, <1>13, <2>3, <3>1
  <2> QED BY <1>0, <1>3, <2>1, <2>2, <2>3
<1> QED BY <1>5, <1>6, <1>7, <1>9, <1>11, <1>14, <1>15 DEF Walk

\* Nothing the consumer has learned in its call stops being true when an element is
\* enqueued.
LEMMA EnqueueConsumerCall ==
  ASSUME NEW h, NEW h2, NEW K, EnqueueStep(h, h2, K), NEW call \in CallSet, ConsumerCall(h, call),
         SameCircle(h, h2) \/ GrownVisit(h, h2)
  PROVE  ConsumerCall(h2, call)
<1>0. /\ h.freed \in Nat /\ h.tail \in Nat /\ h.freed >= 1 /\ h.freed <= h.front /\ h.front <= h.shown /\ h.shown <= h.tail /\ h.shown \in Nat /\ h.front \in Nat
      /\ h2.freed = h.freed /\ h2.front = h.front /\ h2.shown = h.shown /\ h.tail <= LastVisit(h) /\ LastVisit(h) \in Nat /\ h2.lt = h.lt
      /\ h.sent \in Nat /\ h.got \in Nat /\ h2.got = h.got /\ h2.sent = h.sent + 1 /\ h.pub \in Nat /\ h.pub <= h.sent /\ h2.pub = h.pub
  BY EnqueueCounters
<1>1. Shape(h) /\ Enqueued(h, h2) BY DEF EnqueueStep
<1>2. call.start \in Nat /\ call.sum \in Nat BY CallFields
<1>3. h.front < h.shown => h2.first[h.front + 1] = h.first[h.front + 1] /\ h2.block[h.front + 1] = h.block[h.front + 1]
  <2>1. h.front < h.shown => h.front + 1 \in 1..h.tail /\ h.front + 1 \in 1..LastVisit(h) BY <1>0
  <2> QED BY <1>1, <2>1 DEF Enqueued
<1>4. h2.block[h.front] = h.block[h.front]
  <2>1. h.front \in 1..LastVisit(h) BY <1>0
  <2> QED BY <1>1, <2>1 DEF Enqueued
<1>5. h.got < h.pub => /\ h2.visit[h.got + 1] = h.visit[h.got + 1]
                       /\ h2.block[h.visit[h.got + 1]] = h.block[h.visit[h.got + 1]]
                       /\ IndexOf(h2, h.visit[h.got + 1], h.got + 1) = IndexOf(h, h.visit[h.got + 1], h.got + 1)
  <2>1. SUFFICES ASSUME h.got < h.pub PROVE /\ h2.visit[h.got + 1] = h.visit[h.got + 1]
                       /\ h2.block[h.visit[h.got + 1]] = h.block[h.visit[h.got + 1]]
                       /\ IndexOf(h2, h.visit[h.got + 1], h.got + 1) = IndexOf(h, h.visit[h.got + 1], h.got + 1)
    OBVIOUS
  <2>2. PICK e \in 1..h.sent : e = h.got + 1 BY <1>0, <2>1
  <2>3. h2.visit[e] = h.visit[e] BY <1>1 DEF Enqueued
  <2>4. PICK v \in 1..h.tail : v = h.visit[e] BY <1>1, VisitType
  <2>5. h2.block[v] = h.block[v] /\ IndexOf(h2, v, e) = IndexOf(h, v, e) BY <1>1, EnqueuedIndex
  <2> QED BY <2>2, <2>3, <2>4, <2>5
<1>6. \A q : Walk(h, call, q) => Walk(h2, call, q) BY EnqueueWalk
<1>7. ASSUME \E q \in h.freed..LastVisit(h) : Walk(h, call, q) PROVE \E q \in h2.freed..LastVisit(h2) : Walk(h2, call, q)
  <2>1. PICK q \in h.freed..LastVisit(h) : Walk(h, call, q) BY <1>7
  <2>2. Walk(h2, call, q) BY <1>6, <2>1
  <2>3. q \in h2.freed..LastVisit(h2) BY <2>2 DEF Walk
  <2> QED BY <2>2, <2>3
<1>8. call.sum + h.got <= h.sent => call.sum + h2.got <= h2.sent BY <1>0, <1>2
<1> QED BY <1>0, <1>3, <1>4, <1>5, <1>7, <1>8 DEF ConsumerCall

\* Without a new block the block sizes are those they were.
LEMMA SameSizing ==
  ASSUME NEW h, NEW h2, NEW K, EnqueueStep(h, h2, K), SameCircle(h, h2), NEW s, NEW mask,
         Sizing(h, s, mask)
  PROVE  Sizing(h2, s, mask)
<1>1. h2.freed = h.freed /\ h2.unit = h.unit /\ h2.n = h.n /\ h2.block = h.block /\ h2.room = h.room
  BY DEF EnqueueStep, Enqueued, SameCircle
<1>2. LastVisit(h2) = LastVisit(h) BY <1>1 DEF LastVisit
<1> QED BY <1>1, <1>2 DEF Sizing

\* A new block is no smaller than the smallest, and malloc had one to give.
LEMMA GrownSizing ==
  ASSUME NEW h, NEW h2, Shape(h), GrownVisit(h, h2), NEW s, NEW mask, NEW mask2, Sizing(h, s, mask),
         NEW r \in Nat, mask2 = Append(mask, r - 1), Room(r), r > h.unit, h2.room[h.tail + 1] = r,
         h.n < MaxBlocks
  PROVE  Sizing(h2, s, mask2)
<1>0. /\ h.tail \in Nat /\ LastVisit(h) \in Nat /\ h.n \in Nat /\ h.freed \in Nat /\ h.freed >= 1 /\ h.freed <= h.tail /\ h.unit \in Nat /\ h.n >= 1
  BY ShapeFacts, SMTT(60)
<1>1. h2.n = h.n + 1 /\ h2.unit = h.unit /\ h.tail = LastVisit(h)
      /\ h2.block = [v \in 1..(h.tail + 1) |-> IF v = h.tail + 1 THEN h.n + 1 ELSE h.block[v]]
      /\ \A v \in 1..LastVisit(h) : h2.block[v] = h.block[v] /\ h2.room[v] = h.room[v]
  BY DEF GrownVisit, NewVisit
<1>2. LastVisit(h2) = h.tail + 1 BY <1>1, GrownCircular
<1>3. s \in Sizes /\ h.unit = InitialBlockSize(s) - 1 /\ mask \in Seq(Nat) /\ Len(mask) = h.n /\ h.n >= InitialBlockCount(s)
      /\ \A b \in 1..h.n : Room(mask[b] + 1) /\ mask[b] >= h.unit
      /\ \A v \in 1..LastVisit(h) : h.room[v] = mask[h.block[v]] + 1
  BY DEF Sizing
<1>4. r \in Nat /\ r >= 2 BY DEF Room
<1>5. r - 1 \in Nat /\ (r - 1) + 1 = r /\ r - 1 >= h.unit BY <1>0, <1>4
<1>6. mask2 \in Seq(Nat) /\ Len(mask2) = h.n + 1 /\ mask2[h.n + 1] = r - 1 /\ \A b \in 1..h.n : mask2[b] = mask[b]
  BY <1>3, <1>5
<1>7. h.n + 1 \in Blocks
  <2>1. PICK k \in Nat : Blocks = 1..k /\ MaxBlocks <= k BY BlocksIs
  <2>2. MaxBlocks \in Nat BY QueueAssumption
  <2> QED BY <1>0, <2>1, <2>2
<1>8. h.n + 1 >= InitialBlockCount(s)
  <2>1. InitialBlockCount(s) \in Nat BY <1>3, InitialSizes
  <2> QED BY <1>0, <1>3, <2>1
<1>9. ASSUME NEW b \in 1..(h.n + 1) PROVE Room(mask2[b] + 1) /\ mask2[b] >= h.unit
  <2>1. CASE b = h.n + 1 BY <1>5, <1>6, <2>1
  <2>2. CASE b # h.n + 1
    <3>1. b \in 1..h.n BY <1>0, <2>2
    <3> QED BY <1>3, <1>6, <3>1
  <2> QED BY <2>1, <2>2
<1>10. ASSUME NEW v \in 1..(h.tail + 1) PROVE h2.room[v] = mask2[h2.block[v]] + 1
  <2>1. CASE v = h.tail + 1
    <3>1. h2.block[v] = h.n + 1 BY <1>1, <2>1
    <3> QED BY <1>5, <1>6, <2>1, <3>1
  <2>2. CASE v # h.tail + 1
    <3>1. v \in 1..LastVisit(h) BY <1>0, <1>1, <2>2
    <3>2. h2.block[v] = h.block[v] /\ h2.room[v] = h.room[v] BY <1>1, <3>1
    <3>3. h.block[v] \in 1..h.n BY <3>1, BlockType
    <3>4. mask2[h.block[v]] = mask[h.block[v]] BY <1>6, <3>3
    <3>5. h.room[v] = mask[h.block[v]] + 1 BY <3>1 DEF Sizing
    <3>6. mask2[h2.block[v]] = mask[h.block[v]] BY <3>2, <3>4
    <3> QED BY <3>2, <3>5, <3>6
  <2> QED BY <2>1, <2>2
<1> QED BY <1>1, <1>2, <1>3, <1>6, <1>7, <1>8, <1>9, <1>10 DEF Sizing

\* Blocks and slots of the history are those of the queue.
LEMMA SizingFits ==
  ASSUME NEW h, Shape(h), NEW s, NEW mask, Sizing(h, s, mask)
  PROVE  Fits(h)
<1>1. 1..h.n \subseteq Blocks
  <2>1. PICK k \in Nat : Blocks = 1..k BY BlocksIs
  <2>2. h.n \in Blocks BY DEF Sizing
  <2> QED BY <2>1, <2>2
<1>2. ASSUME NEW v \in 1..LastVisit(h) PROVE 0..(h.room[v] - 1) \subseteq Slots
  <2>1. PICK b \in 1..h.n : b = h.block[v] BY BlockType
  <2>2. Room(mask[b] + 1) /\ h.room[v] = mask[b] + 1 BY <2>1 DEF Sizing
  <2>3. h.room[v] - 1 \in Slots /\ h.room[v] \in Nat BY <2>2 DEF Room
  <2>4. PICK m \in Nat : Slots = 0..m BY SlotsIs
  <2> QED BY <2>3, <2>4
<1> QED BY <1>1, <1>2 DEF Fits

-----------------------------------------------------------------------------
(* Issuing the stores of a call.                                           *)

\* Loads after a thread issued stores.
LEMMA LoadIssueNone ==
  ASSUME NEW buf \in Seq(StoreSet), NEW issued \in Seq(StoreSet), NEW m, NEW loc, loc # Fence.loc, \A j \in 1..Len(issued) : issued[j].loc # loc
  PROVE  Load(Issue(buf, issued), m, loc) = Load(buf, m, loc)
<1>1. PICK w : w = buf \o issued OBVIOUS
<1>2. /\ w \in Seq(StoreSet) /\ Len(w) = Len(buf) + Len(issued)
      /\ \A j \in 1..Len(buf) : w[j] = buf[j]
      /\ \A j \in 1..Len(issued) : w[Len(buf) + j] = issued[j]
  BY <1>1, ConcatIs
<1>3. Len(buf) \in Nat /\ Len(issued) \in Nat OBVIOUS
<1>4. \A j \in 1..Len(w) : j > Len(buf) => w[j].loc # loc
  <2> SUFFICES ASSUME NEW j \in 1..Len(w), j > Len(buf) PROVE w[j].loc # loc OBVIOUS
  <2>1. PICK i \in 1..Len(issued) : j = Len(buf) + i
    <3>1. j - Len(buf) \in 1..Len(issued) /\ j = Len(buf) + (j - Len(buf)) BY <1>2, <1>3
    <3> QED BY <3>1
  <2>2. w[j] = issued[i] BY <1>2, <2>1
  <2> QED BY <2>2
<1>5. Load(w, m, loc) = Load(buf, m, loc)
  <2>1. CASE \A j \in 1..Len(buf) : buf[j].loc # loc
    <3>1. \A j \in 1..Len(w) : w[j].loc # loc
      <4> TAKE j \in 1..Len(w)
      <4>1. CASE j > Len(buf) BY <1>4, <4>1
      <4>2. CASE ~ (j > Len(buf))
        <5>1. j \in 1..Len(buf) BY <1>2, <1>3, <4>2
        <5> QED BY <1>2, <2>1, <5>1
      <4> QED BY <4>1, <4>2
    <3>2. Load(w, m, loc) = m[loc] BY <1>2, <3>1, LoadNone
    <3>3. Load(buf, m, loc) = m[loc] BY <2>1, LoadNone
    <3> QED BY <3>2, <3>3
  <2>2. CASE \E i \in 1..Len(buf) : IsLast(buf, i, loc)
    <3>1. PICK i \in 1..Len(buf) : IsLast(buf, i, loc) BY <2>2
    <3>2. i \in 1..Len(w) /\ w[i] = buf[i] BY <1>2, <1>3
    <3>3. \A j \in 1..Len(w) : j > i => w[j].loc # loc
      <4> SUFFICES ASSUME NEW j \in 1..Len(w), j > i PROVE w[j].loc # loc OBVIOUS
      <4>1. CASE j > Len(buf) BY <1>4, <4>1
      <4>2. CASE ~ (j > Len(buf))
        <5>1. j \in 1..Len(buf) BY <1>2, <1>3, <4>2
        <5> QED BY <1>2, <3>1, <5>1 DEF IsLast
      <4> QED BY <4>1, <4>2
    <3>4. IsLast(w, i, loc) BY <3>1, <3>2, <3>3 DEF IsLast
    <3>5. Load(w, m, loc) = w[i].val BY <1>2, <3>4, LoadLast
    <3>6. Load(buf, m, loc) = buf[i].val BY <3>1, LoadLast
    <3> QED BY <3>2, <3>5, <3>6
  <2> QED BY <2>1, <2>2, LoadCases
<1>6. Load(Trim(w), m, loc) = Load(w, m, loc) BY <1>2, LoadTrim
<1> QED BY <1>1, <1>5, <1>6 DEF Issue

\* A thread sees the last store it issued to a place.
LEMMA LoadIssueLast ==
  ASSUME NEW buf \in Seq(StoreSet), NEW issued \in Seq(StoreSet), NEW m, NEW loc, loc # Fence.loc,
         NEW i, IsLast(issued, i, loc)
  PROVE  Load(Issue(buf, issued), m, loc) = issued[i].val
<1>1. PICK w : w = buf \o issued OBVIOUS
<1>2. /\ w \in Seq(StoreSet) /\ Len(w) = Len(buf) + Len(issued)
      /\ \A j \in 1..Len(buf) : w[j] = buf[j]
      /\ \A j \in 1..Len(issued) : w[Len(buf) + j] = issued[j]
  BY <1>1, ConcatIs
<1>3. Len(buf) \in Nat /\ Len(issued) \in Nat /\ i \in 1..Len(issued) BY DEF IsLast
<1>4. PICK k : k = Len(buf) + i OBVIOUS
<1>5. k \in 1..Len(w) /\ w[k] = issued[i] BY <1>2, <1>3, <1>4
<1>6. \A j \in 1..Len(w) : j > k => w[j].loc # loc
  <2> SUFFICES ASSUME NEW j \in 1..Len(w), j > k PROVE w[j].loc # loc OBVIOUS
  <2>1. PICK a \in 1..Len(issued) : j = Len(buf) + a
    <3>1. j - Len(buf) \in 1..Len(issued) /\ j = Len(buf) + (j - Len(buf)) BY <1>2, <1>3, <1>4
    <3> QED BY <3>1
  <2>2. w[j] = issued[a] /\ a > i BY <1>2, <1>3, <1>4, <2>1
  <2> QED BY <2>2 DEF IsLast
<1>7. IsLast(w, k, loc) BY <1>5, <1>6 DEF IsLast
<1>8. Load(w, m, loc) = w[k].val BY <1>2, <1>7, LoadLast
<1>9. Load(Trim(w), m, loc) = Load(w, m, loc) BY <1>2, LoadTrim
<1> QED BY <1>1, <1>5, <1>8, <1>9 DEF Issue

\* Stores with the tags ts join S.
Follow(S, issued, ts) ==
    /\ ts \in [1..Len(issued) -> Nat]
    /\ \A i, j \in 1..Len(issued) : i < j => ts[i] < ts[j]
    /\ \A u \in DOMAIN S : \A i \in 1..Len(issued) : u < ts[i]
\* S2 is S with those stores; a fence that was the oldest store may be gone.
Joined(S, issued, ts, S2) ==
    /\ DOMAIN S2 \subseteq DOMAIN S \cup {ts[i] : i \in 1..Len(issued)}
    /\ \A i \in 1..Len(issued) : ts[i] \in DOMAIN S2 => S2[ts[i]] = issued[i]
    /\ \A u \in DOMAIN S : u \in DOMAIN S2 => S2[u] = S[u]
    /\ \A u \in DOMAIN S : u \in DOMAIN S2 \/ (S[u] = Fence /\ \A w \in DOMAIN S : u <= w)
    /\ \A i \in 1..Len(issued) : ts[i] \in DOMAIN S2 \/ (issued[i] = Fence /\ i = 1)

\* The stores of a call join the history in the order in which they were issued, but for
\* a fence that had nothing to hold back.
LEMMA HoldsIssue ==
  ASSUME NEW buf \in Seq(StoreSet), NEW issued \in Seq(StoreSet), NEW S, NEW ts, Holds(buf, S),
         DOMAIN S \subseteq Nat, Follow(S, issued, ts)
  PROVE  \E S2 : Holds(Issue(buf, issued), S2) /\ Joined(S, issued, ts, S2)
<1>1. PICK w : w = buf \o issued OBVIOUS
<1>2. /\ w \in Seq(StoreSet) /\ Len(w) = Len(buf) + Len(issued)
      /\ \A j \in 1..Len(buf) : w[j] = buf[j]
      /\ \A j \in 1..Len(issued) : w[Len(buf) + j] = issued[j]
  BY <1>1, ConcatIs
<1>3. PICK a \in Nat : a = Len(buf) OBVIOUS
<1>4. PICK k \in Nat : k = Len(issued) OBVIOUS
<1>5. PICK tags : TagsOf(tags, buf, S) BY HoldsTags
<1>6. /\ tags \in [1..a -> DOMAIN S]
      /\ \A i, j \in 1..a : i < j => tags[i] < tags[j]
      /\ \A t \in DOMAIN S : \E i \in 1..a : tags[i] = t
      /\ \A i \in 1..a : buf[i] = S[tags[i]]
  BY <1>3, <1>5 DEF TagsOf
<1>7. /\ ts \in [1..k -> Nat]
      /\ \A i, j \in 1..k : i < j => ts[i] < ts[j]
      /\ \A u \in DOMAIN S : \A i \in 1..k : u < ts[i]
  BY <1>4 DEF Follow
<1>8. PICK T : T = {ts[i] : i \in 1..k} OBVIOUS
<1>9. \A u \in DOMAIN S : u \notin T BY <1>7, <1>8
<1>10. PICK at : at = [t \in T |-> CHOOSE i \in 1..k : ts[i] = t] OBVIOUS
<1>11. \A i \in 1..k : ts[i] \in T /\ at[ts[i]] = i
  <2> TAKE i \in 1..k
  <2>1. ts[i] \in T BY <1>8
  <2>2. PICK j : j = at[ts[i]] OBVIOUS
  <2>3. j \in 1..k /\ ts[j] = ts[i] BY <1>10, <2>1, <2>2
  <2>4. ts[i] \in Nat /\ ts[j] \in Nat BY <1>7, <2>3
  <2>5. ~ (i < j) /\ ~ (j < i) BY <1>7, <2>3, <2>4
  <2> QED BY <2>1, <2>2, <2>3, <2>5
<1>12. PICK S1 : S1 = [t \in DOMAIN S \cup T |-> IF t \in T THEN issued[at[t]] ELSE S[t]] OBVIOUS
<1>13. /\ DOMAIN S1 = DOMAIN S \cup T /\ (\A u \in DOMAIN S : S1[u] = S[u]) /\ \A i \in 1..k : S1[ts[i]] = issued[i]
  BY <1>9, <1>11, <1>12
<1>14. DOMAIN S1 \subseteq Nat BY <1>7, <1>8, <1>13
<1>15. Holds(w, S1)
  <2>1. PICK g : g = [i \in 1..(a + k) |-> IF i <= a THEN tags[i] ELSE ts[i - a]] OBVIOUS
  <2>2. \A i \in 1..a : i \in 1..(a + k) /\ g[i] = tags[i] /\ g[i] \in DOMAIN S /\ w[i] = buf[i]
    <3> TAKE i \in 1..a
    <3>1. i \in 1..(a + k) /\ i <= a BY <1>3, <1>4
    <3> QED BY <1>2, <1>3, <1>6, <2>1, <3>1
  <2>3. \A i \in 1..k : a + i \in 1..(a + k) /\ g[a + i] = ts[i] /\ w[a + i] = issued[i]
    <3> TAKE i \in 1..k
    <3>1. a + i \in 1..(a + k) /\ ~ (a + i <= a) /\ (a + i) - a = i BY <1>3, <1>4
    <3>2. g[a + i] = ts[(a + i) - a] BY <2>1, <3>1
    <3> QED BY <1>2, <1>3, <1>4, <3>1, <3>2
  <2>4. \A i \in 1..(a + k) : i \in 1..a \/ \E j \in 1..k : i = a + j
    <3> TAKE i \in 1..(a + k)
    <3>1. i \in 1..a \/ (i - a \in 1..k /\ i = a + (i - a)) BY <1>3, <1>4
    <3> QED BY <3>1
  <2>5. g \in [1..(a + k) -> DOMAIN S1]
    <3>1. ASSUME NEW i \in 1..(a + k) PROVE g[i] \in DOMAIN S1
      <4>1. CASE i \in 1..a
        <5>1. g[i] \in DOMAIN S BY <2>2, <4>1
        <5> QED BY <1>13, <5>1
      <4>2. ASSUME NEW j \in 1..k, i = a + j PROVE g[i] \in DOMAIN S1
        <5>1. g[i] = ts[j] /\ ts[j] \in T BY <1>11, <2>3, <4>2
        <5> QED BY <1>13, <5>1
      <4> QED BY <2>4, <4>1, <4>2
    <3> QED BY <2>1, <3>1
  <2>6. ASSUME NEW i \in 1..(a + k), NEW j \in 1..(a + k), i < j PROVE g[i] < g[j]
    <3>1. CASE j \in 1..a
      <4>1. i \in 1..a BY <2>6, <3>1
      <4> QED BY <1>6, <2>2, <2>6, <3>1, <4>1
    <3>2. ASSUME NEW y \in 1..k, j = a + y PROVE g[i] < g[j]
      <4>1. CASE i \in 1..a
        <5>1. g[i] \in DOMAIN S /\ g[j] = ts[y] BY <2>2, <2>3, <3>2, <4>1
        <5> QED BY <1>7, <5>1
      <4>2. ASSUME NEW x \in 1..k, i = a + x PROVE g[i] < g[j]
        <5>1. g[i] = ts[x] /\ g[j] = ts[y] /\ x < y BY <1>3, <2>3, <2>6, <3>2, <4>2
        <5> QED BY <1>7, <5>1
      <4> QED BY <2>4, <4>1, <4>2
    <3> QED BY <2>4, <3>1, <3>2
  <2>7. ASSUME NEW t \in DOMAIN S1 PROVE \E i \in 1..(a + k) : g[i] = t
    <3>1. CASE t \in DOMAIN S
      <4>1. PICK i \in 1..a : tags[i] = t BY <1>6, <3>1
      <4> QED BY <2>2, <4>1
    <3>2. CASE t \in T
      <4>1. PICK i \in 1..k : t = ts[i] BY <1>8, <3>2
      <4> QED BY <2>3, <4>1
    <3> QED BY <1>13, <3>1, <3>2
  <2>8. ASSUME NEW i \in 1..(a + k) PROVE w[i] = S1[g[i]]
    <3>1. CASE i \in 1..a
      <4>1. w[i] = S[tags[i]] /\ g[i] = tags[i] /\ tags[i] \in DOMAIN S BY <1>6, <2>2, <3>1
      <4> QED BY <1>13, <4>1
    <3>2. ASSUME NEW y \in 1..k, i = a + y PROVE w[i] = S1[g[i]]
      <4>1. w[i] = issued[y] /\ g[i] = ts[y] BY <2>3, <3>2
      <4> QED BY <1>13, <4>1
    <3> QED BY <2>4, <3>1, <3>2
  <2>9. Len(w) = a + k BY <1>2, <1>3, <1>4
  <2>10. TagsOf(g, w, S1) BY <2>5, <2>6, <2>7, <2>8, <2>9 DEF TagsOf
  <2> QED BY <2>10, HoldsTags
<1>16. PICK S2 : Trimmed(S1, S2) /\ Holds(Trim(w), S2) BY <1>2, <1>14, <1>15, HoldsTrim
<1>17. Joined(S, issued, ts, S2)
  <2>0. \A i \in 1..k : ts[i] \in DOMAIN S1 BY <1>11, <1>13
  <2>1. CASE S2 = S1
    <3>1. DOMAIN S2 \subseteq DOMAIN S \cup {ts[i] : i \in 1..Len(issued)}
      BY <1>4, <1>8, <1>13, <2>1
    <3>2. \A i \in 1..Len(issued) : ts[i] \in DOMAIN S2 /\ S2[ts[i]] = issued[i]
      BY <1>4, <1>13, <2>0, <2>1
    <3>3. \A u \in DOMAIN S : u \in DOMAIN S2 /\ S2[u] = S[u] BY <1>13, <2>1
    <3> QED BY <3>1, <3>2, <3>3 DEF Joined
  <2>2. ASSUME NEW f \in DOMAIN S1, S1[f] = Fence, \A u \in DOMAIN S1 : f <= u, Without(S1, {f}, S2) PROVE Joined(S, issued, ts, S2)
    <3>0. DOMAIN S2 = DOMAIN S1 \ {f} /\ \A u \in DOMAIN S2 : S2[u] = S1[u] BY <2>2 DEF Without
    <3>1. DOMAIN S2 \subseteq DOMAIN S \cup {ts[i] : i \in 1..Len(issued)}
      BY <1>4, <1>8, <1>13, <3>0
    <3>2. \A i \in 1..Len(issued) : ts[i] \in DOMAIN S2 => S2[ts[i]] = issued[i]
      BY <1>4, <1>13, <3>0
    <3>3. \A u \in DOMAIN S : u \in DOMAIN S2 => S2[u] = S[u] BY <1>13, <3>0
    <3>4. \A u \in DOMAIN S : u \in DOMAIN S2 \/ (S[u] = Fence /\ \A x \in DOMAIN S : u <= x)
      BY <1>13, <2>2, <3>0
    <3>5. ASSUME NEW i \in 1..Len(issued), ts[i] \notin DOMAIN S2 PROVE issued[i] = Fence /\ i = 1
      <4>1. ts[i] = f /\ i \in 1..k BY <1>4, <2>0, <3>0, <3>5
      <4>2. issued[i] = Fence BY <1>13, <2>2, <4>1
      <4>3. 1 \in 1..k BY <1>4, <4>1
      <4>4. f <= ts[1] /\ ts[1] \in Nat /\ ts[i] \in Nat BY <1>7, <2>0, <2>2, <4>1, <4>3
      <4>5. ~ (1 < i) BY <1>7, <4>1, <4>3, <4>4
      <4> QED BY <4>1, <4>2, <4>5
    <3> QED BY <3>1, <3>2, <3>3, <3>4, <3>5 DEF Joined
  <2> QED BY <1>16, <2>1, <2>2 DEF Trimmed
<1> QED BY <1>1, <1>16, <1>17 DEF Issue

-----------------------------------------------------------------------------
(* Refreshing the shadow copies.                                           *)

\* A shadow copy is refreshed.
SameButShadow(h, h2) ==
  /\ h2.n = h.n /\ h2.unit = h.unit /\ h2.freed = h.freed /\ h2.front = h.front /\ h2.shown = h.shown /\ h2.tail = h.tail
  /\ h2.rel = h.rel /\ h2.got = h.got /\ h2.pub = h.pub /\ h2.sent = h.sent /\ h2.block = h.block /\ h2.room = h.room
  /\ h2.grown = h.grown /\ h2.first = h.first /\ h2.base = h.base /\ h2.visit = h.visit /\ h2.S = h.S /\ h2.R = h.R

\* Nothing depends on the shadow copies but what they stand for.
LEMMA ShadowSame ==
  ASSUME NEW h, NEW h2, SameButShadow(h, h2)
  PROVE  /\ LastVisit(h2) = LastVisit(h)
         /\ \A v : MemFront(h2, v) = MemFront(h, v) /\ OwnFront(h2, v) = OwnFront(h, v) /\ MemTail(h2, v) = MemTail(h, v)
         /\ \A v, x : IndexOf(h2, v, x) = IndexOf(h, v, x)
         /\ \A e : Begins(h2, e) <=> Begins(h, e)
         /\ \A e : Kinds(h2, e) = Kinds(h, e)
         /\ \A v : Linked(h2, v) <=> Linked(h, v)
         /\ \A v : NextOf(h2, v) = NextOf(h, v)
         /\ \A v, b : Link(h2, v, b) <=> Link(h, v, b)
<1>1. /\ h2.n = h.n /\ h2.unit = h.unit /\ h2.freed = h.freed /\ h2.front = h.front /\ h2.shown = h.shown /\ h2.tail = h.tail
      /\ h2.rel = h.rel /\ h2.got = h.got /\ h2.pub = h.pub /\ h2.sent = h.sent /\ h2.block = h.block /\ h2.room = h.room
      /\ h2.grown = h.grown /\ h2.first = h.first /\ h2.base = h.base /\ h2.visit = h.visit /\ h2.S = h.S /\ h2.R = h.R
  BY DEF SameButShadow
<1>2. LastVisit(h2) = LastVisit(h) BY <1>1 DEF LastVisit
<1>3. \A v : MemFront(h2, v) = MemFront(h, v) BY <1>1 DEF MemFront
<1>4. \A v : OwnFront(h2, v) = OwnFront(h, v) BY <1>1 DEF OwnFront
<1>5. \A v : MemTail(h2, v) = MemTail(h, v) BY <1>1 DEF MemTail
<1>6. \A v, x : IndexOf(h2, v, x) = IndexOf(h, v, x) BY <1>1 DEF IndexOf
<1>7. \A e : Begins(h2, e) <=> Begins(h, e) BY <1>1 DEF Begins
<1>8. \A e : Kinds(h2, e) = Kinds(h, e) BY <1>1, <1>7 DEF Kinds
<1>9. \A v : Linked(h2, v) <=> Linked(h, v) BY <1>1 DEF Linked
<1>10. \A v : NextOf(h2, v) = NextOf(h, v) BY <1>1, <1>2 DEF NextOf
<1>11. \A v, b : Stale(h2, v, b) <=> Stale(h, v, b) BY <1>1, <1>2, <1>9 DEF Stale
<1>12. \A v, b : Link(h2, v, b) <=> Link(h, v, b) BY <1>1, <1>10, <1>11 DEF Link
<1> QED BY <1>2, <1>3, <1>4, <1>5, <1>6, <1>7, <1>8, <1>9, <1>10, <1>12

\* A shadow copy that is brought up to date stands for an element that was taken or
\* published at the time.
LEMMA ShadowWorld ==
  ASSUME NEW h, NEW h2, SameButShadow(h, h2), NEW m, NEW m2, NEW P, NEW P2, NEW C, NEW C2, NEW F,
         NEW F2, NEW s, NEW mask, World(h, m, P, C, F, s, mask),
         \A l \in Locations : (l[1] # "localTail" => m2[l] = m[l] /\ P2[l] = P[l] /\ C2[l] = C[l]),
         \A b \in Blocks : b > h.n => F2[b] = F[b],
         h2.lt \in Nat, h.got + 1 <= h2.lt, h2.lt <= MemTail(h, h.front),
         h2.lf \in Nat, h.first[h.tail] <= h2.lf, h2.lf <= MemFront(h, h.tail), h.sent + 1 - h2.lf < h.room[h.tail],
         m2[<<"localTail", h.block[h.front]>>] = IndexOf(h, h.front, h2.lt),
         F2[h.block[h.tail]] = IndexOf(h, h.tail, h2.lf)
  PROVE  World(h2, m2, P2, C2, F2, s, mask)
<1>1. /\ h2.n = h.n /\ h2.unit = h.unit /\ h2.freed = h.freed /\ h2.front = h.front /\ h2.shown = h.shown /\ h2.tail = h.tail
      /\ h2.rel = h.rel /\ h2.got = h.got /\ h2.pub = h.pub /\ h2.sent = h.sent /\ h2.block = h.block /\ h2.room = h.room
      /\ h2.grown = h.grown /\ h2.first = h.first /\ h2.base = h.base /\ h2.visit = h.visit /\ h2.S = h.S /\ h2.R = h.R
  BY DEF SameButShadow
<1>2. LastVisit(h2) = LastVisit(h) BY ShadowSame
<1>3. \A v : MemFront(h2, v) = MemFront(h, v) /\ OwnFront(h2, v) = OwnFront(h, v) /\ MemTail(h2, v) = MemTail(h, v)
  BY ShadowSame
<1>4. \A v, x : IndexOf(h2, v, x) = IndexOf(h, v, x) BY ShadowSame
<1>5. \A e : (Begins(h2, e) <=> Begins(h, e)) /\ Kinds(h2, e) = Kinds(h, e) BY ShadowSame
<1>6. \A v, b : Link(h2, v, b) <=> Link(h, v, b) BY ShadowSame
<1>7. \A v : NextOf(h2, v) = NextOf(h, v) BY ShadowSame
<1>8. Shape(h) /\ Pend(h) /\ PendingFronts(h) /\ Sizing(h, s, mask) BY DEF World
<1>9. TailViews(h, m, P) /\ FrontViews(h, m, C) /\ FreeViews(h, m, P, C, F) /\ NextViews(h, m, P) /\ DataViews(h, m)
  BY DEF World, Views
<1>10. Counters(h2) /\ Circular(h2) /\ Visits(h2)
  <2>1. Counters(h2) BY <1>1, <1>2, <1>8 DEF Shape, Counters
  <2>2. Circular(h2) BY <1>1, <1>2, <1>8 DEF Shape, Circular
  <2>3. Visits(h2) BY <1>1, <1>8 DEF Shape, Visits
  <2> QED BY <2>1, <2>2, <2>3
<1>11. Positions(h2) BY <1>1, <1>3, <1>8 DEF Shape, Positions
<1>12. PendingTags(h2) BY <1>1, <1>5, <1>8 DEF Pend, PendingTags
<1>13. PendingStores(h2)
  <2>1. \A e \in (h.pub + 1)..h.sent : Tag(e, 7) \in DOMAIN h.S BY <1>8 DEF Pend, PendingTags
  <2>2. \A e, k, x : StoreIs(h, e, k, x) => StoreIs(h2, e, k, x)
    BY <1>1, <1>4, <1>5, <1>6 DEF StoreIs
  <2>3. \A e \in (h.pub + 1)..h.sent : \A k \in 1..7 : Tag(e, k) \in DOMAIN h.S => StoreIs(h, e, k, h.S[Tag(e, k)])
    BY <1>8, StoreAt DEF Pend
  <2>4. \A e \in (h2.pub + 1)..h2.sent : Tag(e, 7) \in DOMAIN h2.S BY <1>1, <2>1
  <2>5. \A e \in (h2.pub + 1)..h2.sent : \A k \in 1..7 : Tag(e, k) \in DOMAIN h2.S => StoreIs(h2, e, k, h2.S[Tag(e, k)])
    BY <1>1, <2>2, <2>3
  <2> QED BY <2>4, <2>5, StoresFromParts
<1>14. PendingFronts(h2) BY <1>1, <1>4, <1>8 DEF PendingFronts
<1>15. Sizing(h2, s, mask) BY <1>1, <1>2, <1>8 DEF Sizing
<1>16. Fits(h) BY <1>8, SizingFits
<1>17. \A b \in Blocks : /\ m2[<<"tail", b>>] = m[<<"tail", b>>] /\ P2[<<"tail", b>>] = P[<<"tail", b>>]
                         /\ m2[<<"front", b>>] = m[<<"front", b>>] /\ C2[<<"front", b>>] = C[<<"front", b>>]
                         /\ m2[<<"next", b>>] = m[<<"next", b>>] /\ P2[<<"next", b>>] = P[<<"next", b>>]
  <2> TAKE b \in Blocks
  <2>1. /\ <<"tail", b>> \in Locations /\ <<"front", b>> \in Locations /\ <<"next", b>> \in Locations
    BY PlacesOf
  <2>2. <<"tail", b>>[1] # "localTail" /\ <<"front", b>>[1] # "localTail" /\ <<"next", b>>[1] # "localTail" OBVIOUS
  <2> QED BY <2>1, <2>2
<1>18. m2[<<"tailBlock">>] = m[<<"tailBlock">>] /\ P2[<<"tailBlock">>] = P[<<"tailBlock">>] /\ m2[<<"frontBlock">>] = m[<<"frontBlock">>]
       /\ C2[<<"frontBlock">>] = C[<<"frontBlock">>]
  <2>1. <<"tailBlock">> \in Locations /\ <<"frontBlock">> \in Locations BY PlacesOf
  <2>2. <<"tailBlock">>[1] # "localTail" /\ <<"frontBlock">>[1] # "localTail" OBVIOUS
  <2> QED BY <2>1, <2>2
<1>19. \A v \in h.freed..LastVisit(h) : h.block[v] \in Blocks
  <2> TAKE v \in h.freed..LastVisit(h)
  <2>1. v \in 1..LastVisit(h) BY <1>8, ShapeFacts
  <2> QED BY <1>8, <1>16, <2>1, BlockFits
<1>20. h.tail <= LastVisit(h) /\ h.tail \in Nat /\ LastVisit(h) \in Nat /\ h.freed \in Nat /\ h.freed <= h.tail
  BY <1>8, ShapeFacts
<1>21. \A v \in h.freed..h.tail : h.block[v] \in Blocks BY <1>19, <1>20
<1>22. TailViews(h2, m2, P2)
  <2>1. ASSUME NEW v \in h.freed..h.tail
        PROVE  P2[<<"tail", h.block[v]>>] = IndexOf(h, v, h.first[v + 1]) /\ m2[<<"tail", h.block[v]>>] = IndexOf(h, v, MemTail(h, v))
    <3>1. P[<<"tail", h.block[v]>>] = IndexOf(h, v, h.first[v + 1]) /\ m[<<"tail", h.block[v]>>] = IndexOf(h, v, MemTail(h, v))
      BY <1>9 DEF TailViews
    <3>2. h.block[v] \in Blocks BY <1>21
    <3> QED BY <1>17, <3>1, <3>2
  <2>2. P2[<<"tailBlock">>] = h.block[h.tail] /\ m2[<<"tailBlock">>] = h.block[h.shown]
    BY <1>9, <1>18 DEF TailViews
  <2> QED BY <1>1, <1>3, <1>4, <2>1, <2>2 DEF TailViews
<1>23. FrontViews(h2, m2, C2)
  <2>1. ASSUME NEW v \in h.freed..h.tail
        PROVE  C2[<<"front", h.block[v]>>] = IndexOf(h, v, OwnFront(h, v)) /\ m2[<<"front", h.block[v]>>] = IndexOf(h, v, MemFront(h, v))
    <3>1. C[<<"front", h.block[v]>>] = IndexOf(h, v, OwnFront(h, v)) /\ m[<<"front", h.block[v]>>] = IndexOf(h, v, MemFront(h, v))
      BY <1>9 DEF FrontViews
    <3>2. h.block[v] \in Blocks BY <1>21
    <3> QED BY <1>17, <3>1, <3>2
  <2>2. C2[<<"frontBlock">>] = h.block[h.front] /\ m2[<<"frontBlock">>] = h.block[h.freed]
    BY <1>9, <1>18 DEF FrontViews
  <2> QED BY <1>1, <1>3, <1>4, <2>1, <2>2 DEF FrontViews
<1>24. FreeViews(h2, m2, P2, C2, F2)
  <2>1. \A v \in (h.tail + 1)..LastVisit(h) : h.block[v] \in Blocks BY <1>19, <1>20
  <2>2. ASSUME NEW v \in (h.tail + 1)..LastVisit(h), NEW b, b = h.block[v]
        PROVE  /\ m2[<<"tail", b>>] \in 0..(h.room[v] - 1) /\ P2[<<"tail", b>>] = m2[<<"tail", b>>]
               /\ m2[<<"front", b>>] = m2[<<"tail", b>>] /\ C2[<<"front", b>>] = m2[<<"tail", b>>]
    <3>1. b \in Blocks BY <2>1, <2>2
    <3>2. /\ m[<<"tail", b>>] \in 0..(h.room[v] - 1) /\ P[<<"tail", b>>] = m[<<"tail", b>>]
          /\ m[<<"front", b>>] = m[<<"tail", b>>] /\ C[<<"front", b>>] = m[<<"tail", b>>]
      BY <1>9, <2>2 DEF FreeViews
    <3> QED BY <1>17, <3>1, <3>2
  <2>3. ASSUME NEW b \in Blocks, b > h.n PROVE m2[<<"tail", b>>] = 0 /\ m2[<<"front", b>>] = 0 /\ C2[<<"front", b>>] = 0 /\ F2[b] = 0
    <3>1. m[<<"tail", b>>] = 0 /\ m[<<"front", b>>] = 0 /\ C[<<"front", b>>] = 0 /\ F[b] = 0
      BY <1>9, <2>3 DEF FreeViews
    <3> QED BY <1>17, <2>3, <3>1
  <2> QED BY <1>1, <1>2, <2>2, <2>3 DEF FreeViews
<1>25. NextViews(h2, m2, P2)
  <2>1. ASSUME NEW v \in h.freed..LastVisit(h)
        PROVE  /\ P2[<<"next", h.block[v]>>] = NextOf(h, v)
               /\ (v <= h.tail /\ Tag(h.first[v], 4) \in DOMAIN h.S) \/ Link(h, v, m2[<<"next", h.block[v]>>])
    <3>1. P[<<"next", h.block[v]>>] = NextOf(h, v) BY <1>9 DEF NextViews
    <3>2. (v <= h.tail /\ Tag(h.first[v], 4) \in DOMAIN h.S) \/ Link(h, v, m[<<"next", h.block[v]>>])
      BY <1>9 DEF NextViews
    <3>3. h.block[v] \in Blocks BY <1>19
    <3> QED BY <1>17, <3>1, <3>2, <3>3
  <2> QED BY <1>1, <1>2, <1>6, <1>7, <2>1 DEF NextViews
<1>26. DataViews(h2, m2)
  <2>1. ASSUME NEW e \in (h.got + 1)..h.sent
        PROVE Tag(e, 1) \in DOMAIN h.S \/ m2[<<"data", h.block[h.visit[e]], IndexOf(h, h.visit[e], e)>>] = e
    <3>1. e \in 1..h.sent /\ e > h.got BY <1>8, ShapeFacts
    <3>2. PICK l \in Locations : l = <<"data", h.block[h.visit[e]], IndexOf(h, h.visit[e], e)>>
      BY <1>8, <1>16, <3>1, DataPlace
    <3>3. l[1] # "localTail" BY <3>2
    <3>4. m2[l] = m[l] BY <3>3
    <3>5. Tag(e, 1) \in DOMAIN h.S \/ m[l] = e BY <1>9, <3>2 DEF DataViews
    <3> QED BY <3>2, <3>4, <3>5
  <2> QED BY <1>1, <1>4, <2>1 DEF DataViews
<1>27. ShadowViews(h2, m2, F2) BY <1>1, <1>4 DEF ShadowViews
<1>28. Views(h2, m2, P2, C2, F2) BY <1>22, <1>23, <1>24, <1>25, <1>26, <1>27 DEF Views
<1>29. Shape(h2) /\ Pend(h2) BY <1>10, <1>11, <1>12, <1>13 DEF Shape, Pend
<1> QED BY <1>14, <1>15, <1>28, <1>29 DEF World

\* The producer's call does not depend on the consumer's copy of the tail.
LEMMA ShadowProducer ==
  ASSUME NEW h, NEW h2, SameButShadow(h, h2), NEW call, NEW s, ProducerCall(h, call, s),
         h2.lf = h.lf
  PROVE  ProducerCall(h2, call, s)
<1>1. LastVisit(h2) = LastVisit(h) BY ShadowSame
<1> QED BY <1>1 DEF ProducerCall, SameButShadow

\* The consumer's call does not depend on the producer's copy of the front.
LEMMA ShadowConsumer ==
  ASSUME NEW h, NEW h2, SameButShadow(h, h2), NEW call, ConsumerCall(h, call), h2.lt = h.lt
  PROVE  ConsumerCall(h2, call)
<1>1. /\ h2.n = h.n /\ h2.unit = h.unit /\ h2.freed = h.freed /\ h2.front = h.front /\ h2.shown = h.shown /\ h2.tail = h.tail
      /\ h2.rel = h.rel /\ h2.got = h.got /\ h2.pub = h.pub /\ h2.sent = h.sent /\ h2.block = h.block /\ h2.room = h.room
      /\ h2.grown = h.grown /\ h2.first = h.first /\ h2.base = h.base /\ h2.visit = h.visit /\ h2.S = h.S /\ h2.R = h.R
  BY DEF SameButShadow
<1>2. LastVisit(h2) = LastVisit(h) BY ShadowSame
<1>3. \A v : Linked(h2, v) <=> Linked(h, v) BY ShadowSame
<1>4. \A v, x : IndexOf(h2, v, x) = IndexOf(h, v, x) BY ShadowSame
<1>5. \A q : Walk(h, call, q) => Walk(h2, call, q) BY <1>1, <1>2, <1>3 DEF Walk
<1> QED BY <1>1, <1>2, <1>4, <1>5 DEF ConsumerCall

-----------------------------------------------------------------------------
(* The history after an enqueue.                                           *)

\* The tags of the stores that wait are earlier than those of the next element.
LEMMA OldTags ==
  ASSUME NEW h, Shape(h), Pend(h), NEW t \in DOMAIN h.S, NEW k \in 1..7
  PROVE  t < Tag(h.sent + 1, k) /\ t \in Nat /\ Tag(h.sent + 1, k) \in Nat
<1>0. h.pub \in Nat /\ h.sent \in Nat BY ShapeFacts
<1>1. PICK e \in (h.pub + 1)..h.sent, j \in 1..7 : t = Tag(e, j) /\ e \in Nat BY PendingIs DEF Pend
<1> QED BY <1>0, <1>1 DEF Tag

\* The tags ts are those of the new element's stores of the kinds K.
TagsFor(E, K, ts, n) ==
  /\ K \subseteq 1..7
  /\ \A i \in 1..n : \E k \in K : ts[i] = Tag(E, k)
  /\ \A k \in K : \E i \in 1..n : ts[i] = Tag(E, k)

\* The stores of the next element follow those that wait.
LEMMA FollowOld ==
  ASSUME NEW h, Shape(h), Pend(h), NEW K, NEW ts, NEW issued,
         TagsFor(h.sent + 1, K, ts, Len(issued)), Len(issued) \in Nat,
         DOMAIN ts = 1..Len(issued), ts = [i \in 1..Len(issued) |-> ts[i]],
         \A i, j \in 1..Len(issued) : i < j => ts[i] < ts[j]
  PROVE  Follow(h.S, issued, ts)
<1>0. h.sent \in Nat BY ShapeFacts
<1>1. ASSUME NEW i \in 1..Len(issued) PROVE ts[i] \in Nat /\ \A u \in DOMAIN h.S : u < ts[i]
  <2>1. PICK k \in K : ts[i] = Tag(h.sent + 1, k) BY DEF TagsFor
  <2>2. k \in 1..7 BY DEF TagsFor
  <2>3. ts[i] \in Nat BY <1>0, <2>1, <2>2, SMTT(60) DEF Tag
  <2> QED BY <2>1, <2>2, <2>3, OldTags
<1>2. ts \in [1..Len(issued) -> Nat] BY <1>1
<1> QED BY <1>1, <1>2 DEF Follow

\* And they are the stores that were issued.
IssuedAs(h, h2, K, ts, issued) ==
  /\ Issued(h, h2, K)
  /\ \A i \in 1..Len(issued) : h2.S[ts[i]] = issued[i]

\* After the enqueue the history holds the stores that waited and the new element's.
LEMMA JoinedIssued ==
  ASSUME NEW h, NEW h2, NEW K, NEW ts, NEW issued, TagsFor(h.sent + 1, K, ts, Len(issued)),
         Len(issued) \in Nat, issued[1] # Fence,
         Joined(h.S, issued, ts, h2.S)
  PROVE  IssuedAs(h, h2, K, ts, issued)
<1>1. {ts[i] : i \in 1..Len(issued)} \subseteq {Tag(h.sent + 1, k) : k \in K} BY DEF TagsFor
<1>2. \A i \in 1..Len(issued) : ts[i] \in DOMAIN h2.S /\ h2.S[ts[i]] = issued[i] BY DEF Joined
<1>3. \A k \in K : Tag(h.sent + 1, k) \in DOMAIN h2.S
  <2> TAKE k \in K
  <2>1. PICK i \in 1..Len(issued) : ts[i] = Tag(h.sent + 1, k) BY DEF TagsFor
  <2> QED BY <1>2, <2>1
<1>4. DOMAIN h2.S \subseteq DOMAIN h.S \cup {Tag(h.sent + 1, k) : k \in K} BY <1>1 DEF Joined
<1>5. K \subseteq 1..7 BY DEF TagsFor
<1>6. /\ \A t \in DOMAIN h.S : t \in DOMAIN h2.S => h2.S[t] = h.S[t]
      /\ \A t \in DOMAIN h.S : t \in DOMAIN h2.S \/ (h.S[t] = Fence /\ \A u \in DOMAIN h.S : t <= u)
  BY DEF Joined
<1>7. Issued(h, h2, K) BY <1>3, <1>4, <1>5, <1>6 DEF Issued
<1> QED BY <1>2, <1>7 DEF IssuedAs

\* A slot number comes round again after a block.
LEMMA SlotWrap == ASSUME NEW x \in Int, NEW base \in Int, NEW m \in Nat, m > 0
  PROVE Slot(x + m, base, m) = Slot(x, base, m)
<1>1. PICK y \in Int : y = x - base OBVIOUS
<1>2. PICK q \in Int, r \in 0..(m - 1) : y = m * q + r /\ y % m = r BY DivMod
<1>3. PICK q2 \in Int : q2 = q + 1 OBVIOUS
<1>4. m * q2 = m * q + m BY <1>3
<1>5. PICK a \in Int : a = m * q OBVIOUS
<1>6. PICK z \in Int : z = x + m - base OBVIOUS
<1>7. z = m * q2 + r
  <2>1. m * q2 = a + m BY <1>4, <1>5
  <2>2. y = a + r BY <1>2, <1>5
  <2>3. PICK w \in Int : w = m * q2 OBVIOUS
  <2>4. z = w + r BY <1>1, <1>6, <2>1, <2>2, <2>3
  <2> QED BY <2>3, <2>4
<1>8. z % m = r BY <1>7, DivMod2
<1> QED BY <1>1, <1>2, <1>6, <1>8 DEF Slot

\* What the copy of the front may become.
Refreshed(h, lf) == lf \in Nat /\ h.lf <= lf /\ lf <= MemFront(h, h.tail) /\ h.sent + 2 - lf < h.room[h.tail]

\* The witnesses.
SameVisitTo(h, h2, lf, S2) == SameVisit(h, h2) /\ h2.lf = lf /\ h2.S = S2
\* Into the free block ahead, whose slots are numbered from x.
AheadVisitTo(h, h2, x, S2) == AheadVisit(h, h2) /\ h2.base[h.tail + 1] = x /\ h2.S = S2
\* Into a new block of r slots.
GrownVisitTo(h, h2, r, S2) == GrownVisit(h, h2) /\ h2.base[h.tail + 1] = h.sent + 1 /\ h2.room[h.tail + 1] = r /\ h2.S = S2

\* There is a history with one more element in the visit of the tail block,
LEMMA SameVisitExists ==
  ASSUME NEW h, NEW lf, Refreshed(h, lf), NEW S2
  PROVE  \E h2 : SameVisitTo(h, h2, lf, S2)
<1>1. PICK h2 : h2 = [n |-> h.n, unit |-> h.unit, freed |-> h.freed, front |-> h.front, shown |-> h.shown, tail |-> h.tail,
         rel |-> h.rel, got |-> h.got, pub |-> h.pub, sent |-> h.sent + 1, block |-> h.block, room |-> h.room, grown |-> h.grown,
         first |-> [v \in 1..(h.tail + 1) |-> IF v = h.tail + 1 THEN h.sent + 2 ELSE h.first[v]], base |-> h.base,
         visit |-> [d \in 1..(h.sent + 1) |-> IF d = h.sent + 1 THEN h.tail ELSE h.visit[d]], lf |-> lf, lt |-> h.lt, S |-> S2, R |-> h.R]
  OBVIOUS
<1>2. SameVisit(h, h2) BY <1>1 DEF SameVisit, Refreshed
<1> QED BY <1>1, <1>2 DEF SameVisitTo

\* one with a new visit to the free block ahead,
LEMMA AheadVisitExists ==
  ASSUME NEW h, Shape(h), h.sent + 2 - h.lf = h.room[h.tail], h.tail < LastVisit(h), NEW x \in Int,
         NEW S2
  PROVE  \E h2 : AheadVisitTo(h, h2, x, S2)
<1>0. h.tail \in Nat /\ h.n \in Nat BY ShapeFacts
<1>1. PICK base : base = [v \in 1..(h.tail + 1) |-> IF v = h.tail + 1 THEN x ELSE h.base[v]] OBVIOUS
<1>2. /\ base \in [1..(h.tail + 1) -> Int] /\ (\A v \in 1..h.tail : base[v] = h.base[v]) /\ base[h.tail + 1] = x
  <2>1. \A v \in 1..h.tail : h.base[v] \in Int BY DEF Shape, Visits
  <2>2. \A v \in 1..(h.tail + 1) : v = h.tail + 1 \/ v \in 1..h.tail BY <1>0
  <2>3. \A v \in 1..h.tail : v \in 1..(h.tail + 1) /\ v # h.tail + 1 BY <1>0
  <2>4. h.tail + 1 \in 1..(h.tail + 1) BY <1>0
  <2> QED BY <1>1, <2>1, <2>2, <2>3, <2>4
<1>3. PICK h2 : h2 = [n |-> h.n, unit |-> h.unit, freed |-> h.freed, front |-> h.front, shown |-> h.shown, tail |-> h.tail + 1,
         rel |-> h.rel, got |-> h.got, pub |-> h.pub, sent |-> h.sent + 1, block |-> h.block, room |-> h.room, grown |-> h.grown,
         first |-> [v \in 1..(h.tail + 2) |-> IF v = h.tail + 2 THEN h.sent + 2 ELSE h.first[v]], base |-> base,
         visit |-> [d \in 1..(h.sent + 1) |-> IF d = h.sent + 1 THEN h.tail + 1 ELSE h.visit[d]], lf |-> h.sent + 1, lt |-> h.lt, S |-> S2, R |-> h.R]
  OBVIOUS
<1>4. LastVisit(h2) = LastVisit(h) BY <1>3 DEF LastVisit
<1>5. h2.n = h.n /\ h.n <= h2.n /\ h2.n \in Nat BY <1>0, <1>3
<1>6. NewVisit(h, h2) BY <1>2, <1>3, <1>4, <1>5 DEF NewVisit
<1>7. AheadVisit(h, h2) BY <1>3, <1>6 DEF AheadVisit
<1>8. h2.base = base /\ h2.S = S2 BY <1>3
<1> QED BY <1>2, <1>7, <1>8 DEF AheadVisitTo

\* and one with a new visit to a block behind the tail block.
LEMMA GrownVisitExists ==
  ASSUME NEW h, Shape(h), h.sent + 2 - h.lf = h.room[h.tail], h.tail = LastVisit(h), NEW r \in Nat,
         r > h.unit, NEW S2
  PROVE  \E h2 : GrownVisitTo(h, h2, r, S2)
<1>0. h.tail \in Nat /\ h.n \in Nat /\ h.sent \in Nat /\ h.freed \in Nat BY ShapeFacts
<1>1. PICK base : base = [v \in 1..(h.tail + 1) |-> IF v = h.tail + 1 THEN h.sent + 1 ELSE h.base[v]] OBVIOUS
<1>a. \A v \in 1..(h.tail + 1) : v = h.tail + 1 \/ v \in 1..h.tail BY <1>0
<1>b. \A v \in 1..h.tail : v \in 1..(h.tail + 1) /\ v # h.tail + 1 BY <1>0
<1>c. h.tail + 1 \in 1..(h.tail + 1) BY <1>0
<1>2. /\ base \in [1..(h.tail + 1) -> Int] /\ (\A v \in 1..h.tail : base[v] = h.base[v]) /\ base[h.tail + 1] = h.sent + 1
  <2>1. \A v \in 1..h.tail : h.base[v] \in Int BY DEF Shape, Visits
  <2>2. h.sent + 1 \in Int BY <1>0
  <2> QED BY <1>1, <1>a, <1>b, <1>c, <2>1, <2>2
<1>3. PICK room : room = [v \in 1..(h.tail + 1) |-> IF v = h.tail + 1 THEN r ELSE h.room[v]] OBVIOUS
<1>4. /\ room \in [1..(h.tail + 1) -> Nat] /\ (\A v \in 1..h.tail : room[v] = h.room[v]) /\ room[h.tail + 1] = r
  <2>1. \A v \in 1..h.tail : h.room[v] \in Nat BY DEF Shape, Circular
  <2> QED BY <1>3, <1>a, <1>b, <1>c, <2>1
<1>5. PICK block : block = [v \in 1..(h.tail + 1) |-> IF v = h.tail + 1 THEN h.n + 1 ELSE h.block[v]] OBVIOUS
<1>6. \A v \in 1..h.tail : block[v] = h.block[v] BY <1>5, <1>b
<1>7. PICK h2 : h2 = [n |-> h.n + 1, unit |-> h.unit, freed |-> h.freed, front |-> h.front, shown |-> h.shown, tail |-> h.tail + 1,
         rel |-> h.rel, got |-> h.got, pub |-> h.pub, sent |-> h.sent + 1, block |-> block, room |-> room, grown |-> h.grown \cup {h.tail + 1},
         first |-> [v \in 1..(h.tail + 2) |-> IF v = h.tail + 2 THEN h.sent + 2 ELSE h.first[v]], base |-> base,
         visit |-> [d \in 1..(h.sent + 1) |-> IF d = h.sent + 1 THEN h.tail + 1 ELSE h.visit[d]], lf |-> h.sent + 1, lt |-> h.lt, S |-> S2, R |-> h.R]
  OBVIOUS
<1>8. h.tail < LastVisit(h2)
  <2>1. LastVisit(h2) = h.freed + (h.n + 1) - 1 /\ LastVisit(h) = h.freed + h.n - 1
    BY <1>7 DEF LastVisit
  <2> QED BY <1>0, <2>1
<1>9. h2.n = h.n + 1 /\ h.n <= h2.n /\ h2.n \in Nat BY <1>0, <1>7
<1>10. h2.grown = h.grown \cup {h.tail + 1} /\ h.grown \subseteq h2.grown /\ h2.grown \subseteq h.grown \cup {h.tail + 1}
  BY <1>7
<1>11. NewVisit(h, h2) BY <1>2, <1>4, <1>6, <1>7, <1>8, <1>9, <1>10 DEF NewVisit
<1>12. h2.block = block /\ h2.room = room /\ h2.base = base /\ h2.S = S2 BY <1>7
<1>13. GrownVisit(h, h2) BY <1>4, <1>5, <1>9, <1>10, <1>11, <1>12 DEF GrownVisit
<1> QED BY <1>2, <1>4, <1>12, <1>13 DEF GrownVisitTo

-----------------------------------------------------------------------------
(* The three ways to enqueue, as steps of the history.                     *)

\* What the enqueue issues are stores and a fence, which is no store.
LEMMA StoreSetHas ==
  /\ Fence \in StoreSet
  /\ \A l \in Locations, x \in Nat : Store(l, x) \in StoreSet /\ Store(l, x).loc = l /\ Store(l, x).val = x /\ Store(l, x) # Fence
<1>1. Fence \in StoreSet BY DEF Fence, StoreSet
<1>2. ASSUME NEW l \in Locations, NEW x \in Nat PROVE Store(l, x) \in StoreSet /\ Store(l, x).loc = l /\ Store(l, x).val = x /\ Store(l, x) # Fence
  <2>1. l # <<"fence">> BY DEF Locations
  <2>2. Store(l, x).loc = l /\ Store(l, x).val = x BY DEF Store
  <2>3. Store(l, x) # Fence BY <2>1, <2>2 DEF Fence
  <2> QED BY <2>2, <2>3 DEF Store, StoreSet
<1> QED BY <1>1, <1>2

\* A fence is at no place in memory.
LEMMA NotFence ==
  /\ \A l \in Locations : l # Fence.loc
  /\ Fence.loc = <<"fence">>
BY DEF Locations, Fence

\* Where the tail block of the history is.
LEMMA TailPlace ==
  ASSUME NEW h, Shape(h), Fits(h), NEW v \in h.freed..h.tail, NEW x \in Int
  PROVE  /\ h.block[v] \in Blocks /\ IndexOf(h, v, x) \in Slots /\ IndexOf(h, v, x) \in Nat
         /\ <<"tail", h.block[v]>> \in Locations /\ <<"front", h.block[v]>> \in Locations /\ <<"next", h.block[v]>> \in Locations
         /\ <<"localTail", h.block[v]>> \in Locations
         /\ <<"data", h.block[v], IndexOf(h, v, x)>> \in Locations
<1>1. v \in 1..LastVisit(h) BY ShapeFacts
<1>2. h.block[v] \in Blocks BY <1>1, BlockFits
<1>3. IndexOf(h, v, x) \in 0..(h.room[v] - 1) BY IndexNext
<1>4. IndexOf(h, v, x) \in Slots BY <1>1, <1>3 DEF Fits
<1>5. IndexOf(h, v, x) \in Nat
  <2>1. h.room[v] \in Nat BY <1>1 DEF Shape, Circular
  <2> QED BY <1>3, <2>1
<1> QED BY <1>2, <1>4, <1>5, PlacesOf

\* The stores into the tail block.
TailIssued(h, issued) ==
  issued = <<Store(<<"data", h.block[h.tail], IndexOf(h, h.tail, h.sent + 1)>>, h.sent + 1), Fence,
             Store(<<"tail", h.block[h.tail]>>, IndexOf(h, h.tail, h.sent + 2))>>

\* The stores of element h.sent + 1, of kinds K, numbered ts.
Numbered(h, K, ts, issued) ==
  /\ TagsFor(h.sent + 1, K, ts, Len(issued)) /\ Len(issued) \in Nat /\ issued[1] # Fence
  /\ DOMAIN ts = 1..Len(issued) /\ ts = [i \in 1..Len(issued) |-> ts[i]]
  /\ \A i, j \in 1..Len(issued) : i < j => ts[i] < ts[j]

\* The history after the stores of an enqueue were issued holds what the buffer holds.
LEMMA IssueHistory ==
  ASSUME NEW h, Shape(h), Pend(h), NEW buf \in Seq(StoreSet), Holds(buf, h.S),
         NEW issued \in Seq(StoreSet), NEW K, NEW ts, Numbered(h, K, ts, issued)
  PROVE  \E S2 : Holds(Issue(buf, issued), S2) /\ \A h2 : h2.S = S2 => IssuedAs(h, h2, K, ts, issued)
<1>1. Follow(h.S, issued, ts) BY FollowOld DEF Numbered
<1>2. DOMAIN h.S \subseteq Nat BY TagsAreNat DEF Pend
<1>3. PICK S2 : Holds(Issue(buf, issued), S2) /\ Joined(h.S, issued, ts, S2)
  BY <1>1, <1>2, HoldsIssue
<1>4. ASSUME NEW h2, h2.S = S2 PROVE IssuedAs(h, h2, K, ts, issued)
  <2>1. Joined(h.S, issued, ts, h2.S) BY <1>3, <1>4
  <2>2. TagsFor(h.sent + 1, K, ts, Len(issued)) /\ Len(issued) \in Nat /\ issued[1] # Fence
    BY DEF Numbered
  <2> QED BY <2>1, <2>2, JoinedIssued
<1> QED BY <1>3, <1>4

\* The history after an enqueue into the tail block,
LEMMA SameIssue ==
  ASSUME NEW h, Shape(h), Pend(h), NEW buf \in Seq(StoreSet), Holds(buf, h.S),
         NEW issued \in Seq(StoreSet), NEW K, NEW ts, Numbered(h, K, ts, issued),
         NEW lf, Refreshed(h, lf)
  PROVE  \E h2 : SameVisit(h, h2) /\ h2.lf = lf /\ Holds(Issue(buf, issued), h2.S) /\ IssuedAs(h, h2, K, ts, issued)
<1>1. PICK S2 : Holds(Issue(buf, issued), S2) /\ \A h2 : h2.S = S2 => IssuedAs(h, h2, K, ts, issued)
  BY IssueHistory
<1>2. PICK h2 : SameVisitTo(h, h2, lf, S2) BY SameVisitExists
<1> QED BY <1>1, <1>2 DEF SameVisitTo

\* into the free block ahead,
LEMMA AheadIssue ==
  ASSUME NEW h, Shape(h), Pend(h), NEW buf \in Seq(StoreSet), Holds(buf, h.S),
         NEW issued \in Seq(StoreSet), NEW K, NEW ts, Numbered(h, K, ts, issued),
         h.sent + 2 - h.lf = h.room[h.tail], h.tail < LastVisit(h), NEW x \in Int
  PROVE  \E h2 : AheadVisit(h, h2) /\ h2.base[h.tail + 1] = x /\ Holds(Issue(buf, issued), h2.S) /\ IssuedAs(h, h2, K, ts, issued)
<1>1. PICK S2 : Holds(Issue(buf, issued), S2) /\ \A h2 : h2.S = S2 => IssuedAs(h, h2, K, ts, issued)
  BY IssueHistory
<1>2. PICK h2 : AheadVisitTo(h, h2, x, S2) BY AheadVisitExists
<1> QED BY <1>1, <1>2 DEF AheadVisitTo

\* and into a new block.
LEMMA GrownIssue ==
  ASSUME NEW h, Shape(h), Pend(h), NEW buf \in Seq(StoreSet), Holds(buf, h.S),
         NEW issued \in Seq(StoreSet), NEW K, NEW ts, Numbered(h, K, ts, issued),
         h.sent + 2 - h.lf = h.room[h.tail], h.tail = LastVisit(h), NEW r \in Nat, r > h.unit
  PROVE  \E h2 : /\ GrownVisit(h, h2) /\ h2.base[h.tail + 1] = h.sent + 1 /\ h2.room[h.tail + 1] = r
                 /\ Holds(Issue(buf, issued), h2.S) /\ IssuedAs(h, h2, K, ts, issued)
<1>1. PICK S2 : Holds(Issue(buf, issued), S2) /\ \A h2 : h2.S = S2 => IssuedAs(h, h2, K, ts, issued)
  BY IssueHistory
<1>2. PICK h2 : GrownVisitTo(h, h2, r, S2) BY GrownVisitExists
<1> QED BY <1>1, <1>2 DEF GrownVisitTo

\* The producer's copy of one front is set.
CopiedAs(F, F2, a, x) == \A b \in Blocks : F2[b] = IF b = a THEN x ELSE F[b]

\* inner_enqueue, the tail block has room: the three stores (the element, a release
\* fence, the tail) lead from one history to the next.
LEMMA TailEnqueue ==
  ASSUME NEW h, NEW m, NEW buf \in Seq(StoreSet), NEW C, NEW F, NEW s, NEW mask,
         World(h, m, View(buf, m), C, F, s, mask), Holds(buf, h.S),
         NEW lf, Refreshed(h, lf),
         NEW F2, CopiedAs(F, F2, h.block[h.tail], IndexOf(h, h.tail, lf)),
         NEW issued, TailIssued(h, issued)
  PROVE  \E h2 : /\ World(h2, m, View(Issue(buf, issued), m), C, F2, s, mask) /\ Holds(Issue(buf, issued), h2.S)
                 /\ EnqueueStep(h, h2, {1, 6, 7}) /\ SameCircle(h, h2)
<1>1. Shape(h) /\ Pend(h) /\ PendingFronts(h) /\ Sizing(h, s, mask) BY DEF World
<1>0. /\ h.freed \in Nat /\ h.tail \in Nat /\ h.sent \in Nat /\ h.freed <= h.tail /\ h.tail \in h.freed..h.tail /\ h.n \in Nat /\ h.freed >= 1
  BY <1>1, ShapeFacts
<1>2. Fits(h) BY <1>1, SizingFits
<1>3. PICK P : P = View(buf, m) OBVIOUS
<1>4. TailViews(h, m, P) /\ FrontViews(h, m, C) /\ FreeViews(h, m, P, C, F) /\ NextViews(h, m, P) /\ DataViews(h, m) /\ ShadowViews(h, m, F)
  BY <1>3 DEF World, Views
<1>5. PICK E \in Nat : E = h.sent + 1 BY <1>0
<1>6. PICK b : b = h.block[h.tail] OBVIOUS
<1>7. PICK i1 : i1 = IndexOf(h, h.tail, h.sent + 1) OBVIOUS
<1>8. PICK i2 : i2 = IndexOf(h, h.tail, h.sent + 2) OBVIOUS
<1>9. /\ b \in Blocks /\ i1 \in Nat /\ i2 \in Nat /\ <<"tail", b>> \in Locations /\ <<"data", b, i1>> \in Locations
  <2>1. h.sent + 1 \in Int /\ h.sent + 2 \in Int BY <1>0
  <2> QED BY <1>0, <1>1, <1>2, <1>6, <1>7, <1>8, <2>1, TailPlace
<1>10. PICK x1 : x1 = Store(<<"data", b, i1>>, E) OBVIOUS
<1>11. PICK x3 : x3 = Store(<<"tail", b>>, i2) OBVIOUS
<1>12. /\ x1 \in StoreSet /\ x1.loc = <<"data", b, i1>> /\ x1 # Fence /\ x3 \in StoreSet /\ x3.loc = <<"tail", b>> /\ x3.val = i2 /\ Fence \in StoreSet
  BY <1>5, <1>9, <1>10, <1>11, StoreSetHas
<1>13. issued = <<x1, Fence, x3>> BY <1>5, <1>6, <1>7, <1>8, <1>10, <1>11 DEF TailIssued
<1>14. issued \in Seq(StoreSet) /\ Len(issued) = 3 /\ issued[1] = x1 /\ issued[2] = Fence /\ issued[3] = x3
  BY <1>12, <1>13
<1>15. PICK ts : ts = <<Tag(E, 1), Tag(E, 6), Tag(E, 7)>> OBVIOUS
<1>16. PICK K : K = {1, 6, 7} OBVIOUS
<1>17. Numbered(h, K, ts, issued)
  <2>1. ts[1] = Tag(E, 1) /\ ts[2] = Tag(E, 6) /\ ts[3] = Tag(E, 7) BY <1>15
  <2>2. \A i \in 1..3 : i = 1 \/ i = 2 \/ i = 3 OBVIOUS
  <2>3. \A i \in 1..3 : \E k \in K : ts[i] = Tag(E, k) BY <1>16, <2>1, <2>2
  <2>4. \A k \in K : \E i \in 1..3 : ts[i] = Tag(E, k) BY <1>16, <2>1
  <2>5. K \subseteq 1..7 BY <1>16
  <2>6. TagsFor(E, K, ts, Len(issued)) BY <1>14, <2>3, <2>4, <2>5 DEF TagsFor
  <2>7. DOMAIN ts = 1..Len(issued) /\ ts = [i \in 1..Len(issued) |-> ts[i]] BY <1>14, <1>15
  <2>8. \A i, j \in 1..Len(issued) : i < j => ts[i] < ts[j]
    <3>2. Tag(E, 1) < Tag(E, 6) /\ Tag(E, 6) < Tag(E, 7) /\ Tag(E, 1) < Tag(E, 7) BY DEF Tag
    <3>3. \A i, j \in 1..3 : i < j => (i = 1 /\ j = 2) \/ (i = 1 /\ j = 3) \/ (i = 2 /\ j = 3) OBVIOUS
    <3> QED BY <1>14, <2>1, <3>2, <3>3
  <2>9. Len(issued) \in Nat /\ issued[1] # Fence BY <1>12, <1>14
  <2> QED BY <1>5, <2>6, <2>7, <2>8, <2>9 DEF Numbered
<1>18. issued \in Seq(StoreSet) BY <1>14
<1>21. PICK h2 : SameVisit(h, h2) /\ h2.lf = lf /\ Holds(Issue(buf, issued), h2.S) /\ IssuedAs(h, h2, K, ts, issued)
  <2> QED BY <1>1, <1>17, <1>18, SameIssue
<1>22. Enqueued(h, h2) BY <1>1, <1>21, SameEnqueued
<1>23. Issued(h, h2, K) /\ \A i \in 1..Len(issued) : h2.S[ts[i]] = issued[i] BY <1>21 DEF IssuedAs
<1>24. Shape(h2) BY <1>1, <1>21, <1>23, SameVisitShape
<1>25. SameCircle(h, h2) /\ h2.tail = h.tail /\ h2.visit[E] = h.tail
  <2>1. h2.visit[h.sent + 1] = h2.tail BY <1>22 DEF Enqueued
  <2> QED BY <1>5, <1>21, <2>1 DEF SameVisit, SameCircle
<1>26. \A x : IndexOf(h2, h.tail, x) = IndexOf(h, h.tail, x) BY <1>21 DEF SameVisit, IndexOf
<1>27. h2.block[h.tail] = b BY <1>6, <1>25 DEF SameCircle
<1>28. ~ Begins(h2, E)
  <2>1. h2.first[h.tail] = h.first[h.tail]
    <3>1. h.tail \in 1..h.tail BY <1>0
    <3> QED BY <1>22, <3>1 DEF Enqueued
  <2>2. h.tail > 1 => h.first[h.tail] < E
    <3>1. ASSUME h.tail > 1 PROVE h.first[h.tail] \in 1..h.sent
      <4>1. h.tail \in 2..h.tail BY <1>0, <3>1
      <4> QED BY <1>1, <4>1, VisitHasElement
    <3> QED BY <1>0, <1>5, <3>1
  <2>3. h.tail > 1 => h.first[h.tail] # E
    <3>1. ASSUME h.tail > 1 PROVE h.first[h.tail] \in Nat
      <4>1. h.tail \in 1..(h.tail + 1) BY <1>0
      <4> QED BY <1>1, <4>1, FirstType
    <3> QED BY <1>5, <2>2, <3>1
  <2> QED BY <1>25, <2>1, <2>3 DEF Begins
<1>29. NewStores(h, h2, K)
  <2>1. K = Kinds(h2, E) BY <1>16, <1>28 DEF Kinds
  <2>2. h2.S[Tag(E, 1)] = x1 /\ h2.S[Tag(E, 6)] = Fence /\ h2.S[Tag(E, 7)] = x3
    <3>1. ts[1] = Tag(E, 1) /\ ts[2] = Tag(E, 6) /\ ts[3] = Tag(E, 7) BY <1>15
    <3>2. 1 \in 1..3 /\ 2 \in 1..3 /\ 3 \in 1..3 OBVIOUS
    <3> QED BY <1>14, <1>23, <3>1, <3>2
  <2>3. E + 1 = h.sent + 2 BY <1>0, <1>5
  <2>4. StoreIs(h2, E, 1, x1) BY <1>5, <1>7, <1>10, <1>25, <1>26, <1>27 DEF StoreIs
  <2>5. StoreIs(h2, E, 6, Fence) BY DEF StoreIs
  <2>6. StoreIs(h2, E, 7, x3) BY <1>8, <1>11, <1>25, <1>26, <1>27, <1>28, <2>3 DEF StoreIs
  <2>7. \A k \in K : StoreIs(h2, E, k, h2.S[Tag(E, k)]) BY <1>16, <2>2, <2>4, <2>5, <2>6
  <2> QED BY <1>5, <1>23, <2>1, <2>7 DEF NewStores
<1>30. Fits(h2)
  <2>1. h2.n = h.n /\ h2.room = h.room /\ h2.freed = h.freed BY <1>21 DEF SameVisit
  <2>2. LastVisit(h2) = LastVisit(h) BY <2>1 DEF LastVisit
  <2> QED BY <1>2, <2>1, <2>2 DEF Fits
<1>31. EnqueueStep(h, h2, K) BY <1>1, <1>22, <1>24, <1>29, <1>30 DEF EnqueueStep
<1>32. PICK P2 : P2 = View(Issue(buf, issued), m) OBVIOUS
<1>33. ASSUME NEW l \in Locations PROVE P2[l] = IF l = <<"tail", b>> THEN i2 ELSE IF l = <<"data", b, i1>> THEN P2[l] ELSE P[l]
  <2>0. l # Fence.loc /\ P2[l] = Load(Issue(buf, issued), m, l) /\ P[l] = Load(buf, m, l)
    BY <1>3, <1>32, NotFence DEF View
  <2>1. \A j \in 1..3 : j = 1 \/ j = 2 \/ j = 3 OBVIOUS
  <2>2. CASE l = <<"tail", b>>
    <3>1. IsLast(issued, 3, l) BY <1>12, <1>14, <2>2 DEF IsLast
    <3> QED BY <1>12, <1>14, <2>0, <2>2, <3>1, LoadIssueLast
  <2>3. CASE l # <<"tail", b>> /\ l # <<"data", b, i1>>
    <3>1. \A j \in 1..Len(issued) : issued[j].loc # l BY <1>12, <1>14, <2>0, <2>1, <2>3
    <3>2. P2[l] = P[l] BY <1>14, <2>0, <3>1, LoadIssueNone
    <3> QED BY <2>3, <3>2
  <2> QED BY <2>2, <2>3
<1>34. TailMoved(h, h2, P, P2)
  <2>1. P2[<<"tailBlock">>] = P[<<"tailBlock">>]
    <3>1. <<"tailBlock">> \in Locations /\ <<"tailBlock">> # <<"tail", b>> /\ <<"tailBlock">> # <<"data", b, i1>>
      BY PlacesOf, PlacesDiffer
    <3> QED BY <1>33, <3>1
  <2>2. P[<<"tailBlock">>] = b BY <1>4, <1>6 DEF TailViews
  <2>3. ASSUME NEW a \in Blocks PROVE P2[<<"tail", a>>] = IF a = b THEN i2 ELSE P[<<"tail", a>>]
    <3>1. <<"tail", a>> \in Locations /\ <<"tail", a>> # <<"data", b, i1>> /\ (<<"tail", a>> = <<"tail", b>> <=> a = b)
      BY PlacesOf, PlacesDiffer, Places
    <3> QED BY <1>33, <3>1
  <2>4. IndexOf(h2, h.tail, h.sent + 2) = i2 BY <1>8, <1>26
  <2> QED BY <1>25, <1>27, <2>1, <2>2, <2>3, <2>4 DEF TailMoved
<1>35. \A a \in Blocks : P2[<<"next", a>>] = P[<<"next", a>>]
  <2> TAKE a \in Blocks
  <2>1. <<"next", a>> \in Locations /\ <<"next", a>> # <<"data", b, i1>> /\ <<"next", a>> # <<"tail", b>>
    BY PlacesOf, PlacesDiffer
  <2> QED BY <1>33, <2>1
<1>36. FrontCopied(h2, F, F2) BY <1>6, <1>21, <1>25, <1>26, <1>27 DEF FrontCopied, CopiedAs
<1>37. Empty(h, h2, m, C)
  <2>1. h2.tail # h.tail + 1 BY <1>0, <1>25
  <2> QED BY <2>1 DEF Empty
<1>38. NextViews(h2, m, P2) /\ LinksKept(h, h2)
  <2>1. 5 \notin K BY <1>16
  <2> QED BY <1>4, <1>25, <1>31, <1>35, <2>1, SameNextViews
<1>39. TailViews(h2, m, P2) BY <1>4, <1>31, <1>34, <1>37, EnqueueTailViews
<1>40. FrontViews(h2, m, C) BY <1>4, <1>31, <1>37, EnqueueFrontViews
<1>41. FreeViews(h2, m, P2, C, F2) BY <1>4, <1>25, <1>31, <1>34, <1>36, SameFreeViews
<1>42. DataViews(h2, m) BY <1>4, <1>31, EnqueueDataViews
<1>43. ShadowViews(h2, m, F2) BY <1>4, <1>31, <1>36, EnqueueShadowViews
<1>44. Views(h2, m, P2, C, F2) BY <1>38, <1>39, <1>40, <1>41, <1>42, <1>43 DEF Views
<1>45. Pend(h2) BY <1>1, <1>22, <1>29, <1>38, EnqueuedTags, EnqueuedStores DEF Pend
<1>46. PendingFronts(h2) BY <1>1, <1>31, EnqueueFronts
<1>47. Sizing(h2, s, mask) BY <1>1, <1>25, <1>31, SameSizing
<1>48. World(h2, m, P2, C, F2, s, mask) BY <1>24, <1>44, <1>45, <1>46, <1>47 DEF World
<1>49. Holds(Issue(buf, issued), h2.S) BY <1>21
<1> QED BY <1>16, <1>25, <1>31, <1>32, <1>48, <1>49

\* The same links.
NextSame(P, P2) == \A b \in Blocks : P2[<<"next", b>>] = P[<<"next", b>>]

\* An enqueue that adds no block.
LEMMA SameWorld ==
  ASSUME NEW h, NEW h2, NEW K, EnqueueStep(h, h2, K), SameCircle(h, h2), 5 \notin K, NEW m, NEW P,
         NEW P2, NEW C, NEW F, NEW F2, NEW s, NEW mask,
         World(h, m, P, C, F, s, mask), TailMoved(h, h2, P, P2), FrontCopied(h2, F, F2),
         Empty(h, h2, m, C), NextSame(P, P2)
  PROVE  World(h2, m, P2, C, F2, s, mask)
<1>1. Shape(h) /\ Pend(h) /\ PendingFronts(h) /\ Sizing(h, s, mask) BY DEF World
<1>2. TailViews(h, m, P) /\ FrontViews(h, m, C) /\ FreeViews(h, m, P, C, F) /\ NextViews(h, m, P) /\ DataViews(h, m) /\ ShadowViews(h, m, F)
  BY DEF World, Views
<1>3. NextViews(h2, m, P2) /\ LinksKept(h, h2) BY <1>2, SameNextViews DEF NextSame
<1>4. TailViews(h2, m, P2) BY <1>2, EnqueueTailViews
<1>5. FrontViews(h2, m, C) BY <1>2, EnqueueFrontViews
<1>6. FreeViews(h2, m, P2, C, F2) BY <1>2, SameFreeViews
<1>7. DataViews(h2, m) BY <1>2, EnqueueDataViews
<1>8. ShadowViews(h2, m, F2) BY <1>2, EnqueueShadowViews
<1>9. Views(h2, m, P2, C, F2) BY <1>3, <1>4, <1>5, <1>6, <1>7, <1>8 DEF Views
<1>10. Shape(h2) /\ Enqueued(h, h2) /\ NewStores(h, h2, K) BY DEF EnqueueStep
<1>11. Pend(h2) BY <1>1, <1>3, <1>10, EnqueuedTags, EnqueuedStores DEF Pend
<1>12. PendingFronts(h2) BY <1>1, EnqueueFronts
<1>13. Sizing(h2, s, mask) BY <1>1, SameSizing
<1> QED BY <1>9, <1>10, <1>11, <1>12, <1>13 DEF World

\* The stores into the free block ahead, whose indexes are both tl.
AheadIssued(h, m, tl, issued) ==
  /\ tl = m[<<"tail", h.block[h.tail + 1]>>]
  /\ issued = <<Store(<<"data", h.block[h.tail + 1], tl>>, h.sent + 1), Store(<<"tail", h.block[h.tail + 1]>>, (tl + 1) % h.room[h.tail + 1]), Fence,
             Store(<<"tailBlock">>, h.block[h.tail + 1])>>

\* The tail block is full; there is a free block ahead of it.
FullTail(h) == h.sent + 2 - h.lf = h.room[h.tail]
\* There is a free block ahead of the tail block,
FreeAhead(h) == h.tail < LastVisit(h)

\* inner_enqueue, the free block ahead: the element and the tail go into it before the
\* fence, and tailBlock after it.
LEMMA AheadEnqueue ==
  ASSUME NEW h, NEW m, NEW buf \in Seq(StoreSet), NEW C, NEW F, NEW s, NEW mask,
         World(h, m, View(buf, m), C, F, s, mask), Holds(buf, h.S),
         FullTail(h), FreeAhead(h),
         NEW tl,
         NEW F2, CopiedAs(F, F2, h.block[h.tail + 1], tl),
         NEW issued, AheadIssued(h, m, tl, issued)
  PROVE  \E h2 : /\ World(h2, m, View(Issue(buf, issued), m), C, F2, s, mask) /\ Holds(Issue(buf, issued), h2.S)
                 /\ EnqueueStep(h, h2, {1, 3, 6, 7}) /\ SameCircle(h, h2)
<1>1. Shape(h) /\ Pend(h) /\ PendingFronts(h) /\ Sizing(h, s, mask) BY DEF World
<1>0. /\ h.freed \in Nat /\ h.tail \in Nat /\ h.sent \in Nat /\ h.freed <= h.tail /\ h.n \in Nat /\ h.freed >= 1
      /\ LastVisit(h) \in Nat
  <2>1. /\ h.freed \in Nat /\ h.tail \in Nat /\ h.sent \in Nat /\ h.n \in Nat /\ h.freed >= 1
    BY <1>1, ShapeFacts
  <2>2. h.freed <= h.tail BY <1>1, ShapeFacts
  <2>3. LastVisit(h) \in Nat BY <1>1, ShapeFacts
  <2> QED BY <2>1, <2>2, <2>3
<1>2. Fits(h) BY <1>1, SizingFits
<1>3. PICK P : P = View(buf, m) OBVIOUS
<1>4. TailViews(h, m, P) /\ FrontViews(h, m, C) /\ FreeViews(h, m, P, C, F) BY <1>3 DEF World, Views
<1>5. PICK E \in Nat : E = h.sent + 1 BY <1>0
<1>6. PICK v \in Nat : v = h.tail + 1 BY <1>0
<1>7. v \in (h.tail + 1)..LastVisit(h) /\ v \in 1..LastVisit(h) BY <1>0, <1>6 DEF FreeAhead
<1>8. PICK b : b = h.block[v] OBVIOUS
<1>9. PICK r : r = h.room[v] OBVIOUS
<1>10. r \in Nat /\ r > 0
  <2>1. h.unit \in Nat BY <1>1, ShapeFacts
  <2>2. h.room[v] \in Nat /\ h.room[v] > h.unit BY <1>1, <1>7 DEF Shape, Circular
  <2> QED BY <1>9, <2>1, <2>2
<1>11. /\ tl \in 0..(r - 1) /\ m[<<"front", b>>] = tl /\ C[<<"front", b>>] = tl /\ m[<<"tail", b>>] = tl
  BY <1>4, <1>6, <1>7, <1>8, <1>9 DEF FreeViews, AheadIssued
<1>12. PICK i2 : i2 = (tl + 1) % r OBVIOUS
<1>13. i2 \in Nat /\ tl \in Nat
  <2>1. tl \in Nat /\ tl + 1 \in Int BY <1>10, <1>11
  <2> QED BY <1>10, <1>12, <2>1
<1>14. b \in Blocks /\ <<"tail", b>> \in Locations /\ <<"data", b, tl>> \in Locations /\ <<"tailBlock">> \in Locations
  <2>1. b \in Blocks BY <1>1, <1>2, <1>7, <1>8, BlockFits
  <2>2. tl \in Slots BY <1>2, <1>7, <1>9, <1>11 DEF Fits
  <2> QED BY <2>1, <2>2, PlacesOf
<1>15. b \in Nat
  <2>1. b \in 1..h.n BY <1>1, <1>2, <1>7, <1>8, BlockFits
  <2> QED BY <2>1, <1>0
<1>20. PICK x1 : x1 = Store(<<"data", b, tl>>, E) OBVIOUS
<1>21. PICK x2 : x2 = Store(<<"tail", b>>, i2) OBVIOUS
<1>22. PICK x4 : x4 = Store(<<"tailBlock">>, b) OBVIOUS
<1>23. /\ x1 \in StoreSet /\ x1.loc = <<"data", b, tl>> /\ x1 # Fence /\ Fence \in StoreSet
       /\ x2 \in StoreSet /\ x2.loc = <<"tail", b>> /\ x2.val = i2
       /\ x4 \in StoreSet /\ x4.loc = <<"tailBlock">> /\ x4.val = b
  BY <1>5, <1>13, <1>14, <1>15, <1>20, <1>21, <1>22, StoreSetHas
<1>24. issued = <<x1, x2, Fence, x4>>
  BY <1>5, <1>6, <1>8, <1>9, <1>12, <1>20, <1>21, <1>22 DEF AheadIssued
<1>25. issued \in Seq(StoreSet) /\ Len(issued) = 4 /\ issued[1] = x1 /\ issued[2] = x2 /\ issued[3] = Fence /\ issued[4] = x4
  BY <1>23, <1>24
<1>26. PICK ts : ts = <<Tag(E, 1), Tag(E, 3), Tag(E, 6), Tag(E, 7)>> OBVIOUS
<1>27. PICK K : K = {1, 3, 6, 7} OBVIOUS
<1>28. ts[1] = Tag(E, 1) /\ ts[2] = Tag(E, 3) /\ ts[3] = Tag(E, 6) /\ ts[4] = Tag(E, 7) BY <1>26
<1>29. Numbered(h, K, ts, issued)
  <2>2. \A i \in 1..4 : i = 1 \/ i = 2 \/ i = 3 \/ i = 4 OBVIOUS
  <2>3. \A i \in 1..4 : \E k \in K : ts[i] = Tag(E, k) BY <1>27, <1>28, <2>2
  <2>4. \A k \in K : \E i \in 1..4 : ts[i] = Tag(E, k) BY <1>27, <1>28
  <2>5. K \subseteq 1..7 BY <1>27
  <2>6. TagsFor(E, K, ts, Len(issued)) BY <1>25, <2>3, <2>4, <2>5 DEF TagsFor
  <2>7. DOMAIN ts = 1..Len(issued) /\ ts = [i \in 1..Len(issued) |-> ts[i]] BY <1>25, <1>26
  <2>8. \A i, j \in 1..Len(issued) : i < j => ts[i] < ts[j]
    <3>1. \A i \in 1..4 : ts[i] = 8 * E + (IF i = 1 THEN 1 ELSE IF i = 2 THEN 3 ELSE IF i = 3 THEN 6 ELSE 7)
      BY <1>28, <2>2 DEF Tag
    <3> QED BY <1>25, <3>1
  <2>9. Len(issued) \in Nat /\ issued[1] # Fence BY <1>23, <1>25
  <2> QED BY <1>5, <2>6, <2>7, <2>8, <2>9 DEF Numbered
<1>30. PICK x \in Int : x = E - tl BY <1>5, <1>13
<1>31. issued \in Seq(StoreSet) BY <1>25
<1>32. PICK h2 : AheadVisit(h, h2) /\ h2.base[h.tail + 1] = x /\ Holds(Issue(buf, issued), h2.S) /\ IssuedAs(h, h2, K, ts, issued)
  BY <1>1, <1>29, <1>31, AheadIssue DEF FreeAhead, FullTail
<1>33. NewVisit(h, h2) /\ SameCircle(h, h2) BY <1>32 DEF AheadVisit, SameCircle
<1>34. Enqueued(h, h2) BY <1>1, <1>33, NewEnqueued
<1>35. Issued(h, h2, K) /\ \A i \in 1..Len(issued) : h2.S[ts[i]] = issued[i] BY <1>32 DEF IssuedAs
<1>36. Circular(h2) /\ LastVisit(h2) = LastVisit(h) BY <1>1, <1>32, AheadCircular
<1>37. Shape(h2) BY <1>1, <1>33, <1>35, <1>36, NewVisitShape
<1>38. h2.tail = v /\ h2.visit[E] = v /\ h2.first[v] = E /\ h2.lf = E /\ h2.block[v] = b /\ h2.room[v] = r /\ h2.base[v] = x
  <2>1. h2.visit[h.sent + 1] = h.tail + 1 /\ h2.first[h.tail + 1] = h.sent + 1
    BY <1>1, <1>33, NewVisitFirst
  <2>2. h2.tail = h.tail + 1 /\ h2.lf = h.sent + 1 BY <1>33 DEF NewVisit
  <2>3. h2.block = h.block /\ h2.room = h.room BY <1>33 DEF SameCircle
  <2> QED BY <1>5, <1>6, <1>8, <1>9, <1>32, <2>1, <2>2, <2>3
<1>39. IndexOf(h2, v, E) = tl
  <2>1. \A i \in 0..(r - 1) : Slot(E, E - i, r) = i
    <3>1. E \in Int BY <1>5
    <3> QED BY <1>10, <3>1, SlotBase
  <2> QED BY <1>11, <1>30, <1>38, <2>1 DEF IndexOf
<1>40. IndexOf(h2, v, E + 1) = i2
  <2>1. (Slot(E, x, r) + 1) % r = Slot(E + 1, x, r) BY <1>5, <1>10, SlotNext
  <2>2. IndexOf(h2, v, E) = Slot(E, x, r) /\ IndexOf(h2, v, E + 1) = Slot(E + 1, x, r)
    BY <1>38 DEF IndexOf
  <2> QED BY <1>12, <1>39, <2>1, <2>2
<1>41. Begins(h2, E) BY <1>0, <1>6, <1>38 DEF Begins
<1>42. NewStores(h, h2, K)
  <2>0. v \notin h2.grown
    <3>1. h2.grown \subseteq 2..h.tail BY <1>1, <1>33 DEF Shape, Circular, SameCircle
    <3> QED BY <1>0, <1>6, <3>1
  <2>1. K = Kinds(h2, E) BY <1>27, <1>38, <1>41, <2>0 DEF Kinds
  <2>2. h2.S[Tag(E, 1)] = x1 /\ h2.S[Tag(E, 3)] = x2 /\ h2.S[Tag(E, 6)] = Fence /\ h2.S[Tag(E, 7)] = x4
    <3>2. 1 \in 1..4 /\ 2 \in 1..4 /\ 3 \in 1..4 /\ 4 \in 1..4 OBVIOUS
    <3> QED BY <1>25, <1>28, <1>35, <3>2
  <2>4. StoreIs(h2, E, 1, x1) BY <1>20, <1>38, <1>39 DEF StoreIs
  <2>5. StoreIs(h2, E, 3, x2) BY <1>21, <1>38, <1>40 DEF StoreIs
  <2>6. StoreIs(h2, E, 6, Fence) BY DEF StoreIs
  <2>7. StoreIs(h2, E, 7, x4) BY <1>22, <1>38, <1>41 DEF StoreIs
  <2>8. \A k \in K : StoreIs(h2, E, k, h2.S[Tag(E, k)]) BY <1>27, <2>2, <2>4, <2>5, <2>6, <2>7
  <2> QED BY <1>5, <1>35, <2>1, <2>8 DEF NewStores
<1>43. Fits(h2)
  <2>1. h2.n = h.n /\ h2.room = h.room BY <1>33 DEF SameCircle
  <2> QED BY <1>2, <1>36, <2>1 DEF Fits
<1>44. EnqueueStep(h, h2, K) BY <1>1, <1>34, <1>37, <1>42, <1>43 DEF EnqueueStep
<1>45. PICK P2 : P2 = View(Issue(buf, issued), m) OBVIOUS
<1>46. ASSUME NEW l \in Locations PROVE P2[l] = IF l = <<"tailBlock">> THEN b ELSE IF l = <<"tail", b>> THEN i2 ELSE IF l = <<"data", b, tl>> THEN P2[l] ELSE P[l]
  <2>0. l # Fence.loc /\ P2[l] = Load(Issue(buf, issued), m, l) /\ P[l] = Load(buf, m, l)
    BY <1>3, <1>45, NotFence DEF View
  <2>1. \A j \in 1..4 : j = 1 \/ j = 2 \/ j = 3 \/ j = 4 OBVIOUS
  <2>4. /\ <<"tailBlock">> # <<"tail", b>> /\ <<"tailBlock">> # <<"data", b, tl>> /\ <<"tail", b>> # <<"data", b, tl>>
    BY PlacesDiffer
  <2>2. CASE l = <<"tailBlock">>
    <3>1. IsLast(issued, 4, l) BY <1>23, <1>25, <2>2 DEF IsLast
    <3> QED BY <1>23, <1>25, <2>0, <2>2, <3>1, LoadIssueLast
  <2>3. CASE l = <<"tail", b>>
    <3>1. IsLast(issued, 2, l)
      <4>1. issued[3].loc # l /\ issued[4].loc # l BY <1>23, <1>25, <2>0, <2>3, <2>4
      <4>2. \A j \in 1..4 : j > 2 => j = 3 \/ j = 4 OBVIOUS
      <4>3. 2 \in 1..4 OBVIOUS
      <4> QED BY <1>23, <1>25, <2>3, <4>1, <4>2, <4>3 DEF IsLast
    <3> QED BY <1>23, <1>25, <2>0, <2>3, <2>4, <3>1, LoadIssueLast, SMTT(60)
  <2>5. CASE l # <<"tailBlock">> /\ l # <<"tail", b>> /\ l # <<"data", b, tl>>
    <3>1. \A j \in 1..Len(issued) : issued[j].loc # l BY <1>23, <1>25, <2>0, <2>1, <2>5
    <3>2. P2[l] = P[l] BY <1>25, <2>0, <3>1, LoadIssueNone
    <3> QED BY <2>5, <3>2
  <2> QED BY <2>2, <2>3, <2>5
<1>47. TailMoved(h, h2, P, P2)
  <2>1. P2[<<"tailBlock">>] = b BY <1>14, <1>46
  <2>3. ASSUME NEW a \in Blocks PROVE P2[<<"tail", a>>] = IF a = b THEN i2 ELSE P[<<"tail", a>>]
    <3>1. /\ <<"tail", a>> \in Locations /\ <<"tail", a>> # <<"data", b, tl>> /\ (<<"tail", a>> = <<"tail", b>> <=> a = b)
          /\ <<"tail", a>> # <<"tailBlock">>
      BY PlacesOf, PlacesDiffer, Places
    <3> QED BY <1>46, <3>1
  <2>4. IndexOf(h2, v, h.sent + 2) = i2
    <3>1. E + 1 = h.sent + 2 BY <1>0, <1>5
    <3> QED BY <1>40, <3>1
  <2> QED BY <1>38, <2>1, <2>3, <2>4 DEF TailMoved
<1>48. NextSame(P, P2)
  <2>1. ASSUME NEW a \in Blocks PROVE P2[<<"next", a>>] = P[<<"next", a>>]
    <3>1. <<"next", a>> \in Locations /\ <<"next", a>> # <<"data", b, tl>> /\ <<"next", a>> # <<"tail", b>> /\ <<"next", a>> # <<"tailBlock">>
      BY PlacesOf, PlacesDiffer
    <3> QED BY <1>46, <3>1
  <2> QED BY <2>1 DEF NextSame
<1>49. FrontCopied(h2, F, F2) BY <1>6, <1>8, <1>38, <1>39 DEF FrontCopied, CopiedAs
<1>50. Empty(h, h2, m, C)
  <2>1. Tag(E, 3) \in DOMAIN h2.S BY <1>5, <1>27, <1>35 DEF Issued
  <2> QED BY <1>5, <1>11, <1>38, <1>39, <2>1 DEF Empty
<1>51. World(h2, m, P2, C, F2, s, mask)
  <2>1. 5 \notin K BY <1>27
  <2>2. World(h, m, P, C, F, s, mask) BY <1>3
  <2> QED BY <1>33, <1>44, <1>47, <1>48, <1>49, <1>50, <2>1, <2>2, SameWorld
<1> QED BY <1>27, <1>32, <1>33, <1>44, <1>45, <1>51

\* An enqueue that adds a block.
LEMMA GrownWorld ==
  ASSUME NEW h, NEW h2, NEW K, EnqueueStep(h, h2, K), GrownVisit(h, h2), 4 \in K, 5 \in K, NEW m,
         NEW P, NEW P2, NEW C, NEW F, NEW F2, NEW s, NEW mask, NEW mask2,
         World(h, m, P, C, F, s, mask), TailMoved(h, h2, P, P2), FrontCopied(h2, F, F2),
         Empty(h, h2, m, C), Inserted(h, P, P2), Sizing(h2, s, mask2)
  PROVE  World(h2, m, P2, C, F2, s, mask2)
<1>1. Shape(h) /\ Pend(h) /\ PendingFronts(h) BY DEF World
<1>2. TailViews(h, m, P) /\ FrontViews(h, m, C) /\ FreeViews(h, m, P, C, F) /\ NextViews(h, m, P) /\ DataViews(h, m) /\ ShadowViews(h, m, F)
  BY DEF World, Views
<1>3. NextViews(h2, m, P2) /\ LinksKept(h, h2) BY <1>2, GrownNextViews
<1>4. TailViews(h2, m, P2) BY <1>2, EnqueueTailViews
<1>5. FrontViews(h2, m, C) BY <1>2, EnqueueFrontViews
<1>6. FreeViews(h2, m, P2, C, F2) BY <1>2, GrownFreeViews
<1>7. DataViews(h2, m) BY <1>2, EnqueueDataViews
<1>8. ShadowViews(h2, m, F2) BY <1>2, EnqueueShadowViews
<1>9. Views(h2, m, P2, C, F2) BY <1>3, <1>4, <1>5, <1>6, <1>7, <1>8 DEF Views
<1>10. Shape(h2) /\ Enqueued(h, h2) /\ NewStores(h, h2, K) BY DEF EnqueueStep
<1>11. Pend(h2) BY <1>1, <1>3, <1>10, EnqueuedTags, EnqueuedStores DEF Pend
<1>12. PendingFronts(h2) BY <1>1, EnqueueFronts
<1> QED BY <1>9, <1>10, <1>11, <1>12 DEF World

\* The stores into a new block, which goes between the tail block and the front block.
GrownIssued(h, issued) ==
  issued = <<Store(<<"data", h.n + 1, 0>>, h.sent + 1), Store(<<"localTail", h.n + 1>>, 1), Store(<<"tail", h.n + 1>>, 1),
             Store(<<"next", h.n + 1>>, h.block[h.freed]),
             Store(<<"next", h.block[h.tail]>>, h.n + 1), Fence, Store(<<"tailBlock">>, h.n + 1)>>
\* There is no free block ahead of the tail block.
NoneAhead(h) == h.tail = LastVisit(h)
\* A block of r slots is added to those with these masks.
Added(h, mask, r, mask2) ==
  r \in Nat /\ mask2 = Append(mask, r - 1) /\ Room(r) /\ r > h.unit /\ h.n < MaxBlocks

\* The seven elements of a sequence.
LEMMA Sequence7 ==
  ASSUME NEW T, NEW x1 \in T, NEW x2 \in T, NEW x3 \in T, NEW x4 \in T, NEW x5 \in T, NEW x6 \in T,
         NEW x7 \in T,
         NEW seq, seq = <<x1, x2, x3, x4, x5, x6, x7>>
  PROVE  /\ seq \in Seq(T) /\ Len(seq) = 7 /\ seq[1] = x1 /\ seq[2] = x2 /\ seq[3] = x3 /\ seq[4] = x4
         /\ seq[5] = x5 /\ seq[6] = x6 /\ seq[7] = x7
OBVIOUS

\* The seven stores of an enqueue into a new block, in the order in which the code
\* writes them.
LEMMA Numbered7 ==
  ASSUME NEW h, NEW issued, NEW E \in Nat, E = h.sent + 1, Len(issued) = 7, issued[1] # Fence,
         NEW ts, ts = [i \in 1..7 |-> Tag(E, i)]
  PROVE  Numbered(h, 1..7, ts, issued)
<1>1. TagsFor(E, 1..7, ts, Len(issued)) BY DEF TagsFor
<1>2. \A i, j \in 1..Len(issued) : i < j => ts[i] < ts[j] BY DEF Tag
<1> QED BY <1>1, <1>2 DEF Numbered

\* None of the stores is to l.
Untouched(issued, l) == \A j \in 1..Len(issued) : issued[j].loc # l

\* A thread sees what it issued, and what it saw before in every other place.
LEMMA ViewIssue ==
  ASSUME NEW buf \in Seq(StoreSet), NEW issued \in Seq(StoreSet), NEW m, NEW l \in Locations
  PROVE  /\ \A i : IsLast(issued, i, l) => View(Issue(buf, issued), m)[l] = issued[i].val
         /\ Untouched(issued, l) => View(Issue(buf, issued), m)[l] = View(buf, m)[l]
<1>1. l # Fence.loc BY NotFence
<1>2. View(Issue(buf, issued), m)[l] = Load(Issue(buf, issued), m, l) /\ View(buf, m)[l] = Load(buf, m, l)
  BY DEF View
<1>3. \A i : IsLast(issued, i, l) => Load(Issue(buf, issued), m, l) = issued[i].val
  BY <1>1, LoadIssueLast
<1>4. Untouched(issued, l) => Load(Issue(buf, issued), m, l) = Load(buf, m, l)
  BY <1>1, LoadIssueNone DEF Untouched
<1> QED BY <1>2, <1>3, <1>4

\* What the producer sees after these stores.
GrownStores(issued, b, new, next) ==
  /\ b # new /\ issued \in Seq(StoreSet) /\ Len(issued) = 7
  /\ issued[1].loc = <<"data", new, 0>> /\ issued[2].loc = <<"localTail", new>>
  /\ issued[3] = Store(<<"tail", new>>, 1) /\ issued[4] = Store(<<"next", new>>, next) /\ issued[5] = Store(<<"next", b>>, new)
  /\ issued[6] = Fence /\ issued[7] = Store(<<"tailBlock">>, new)
\* What the producer sees at l after a new block was linked in.
SeesGrown(P, P2, l, b, new, next) ==
  /\ l = <<"tailBlock">> => P2[l] = new
  /\ l = <<"tail", new>> => P2[l] = 1
  /\ l = <<"next", new>> => P2[l] = next
  /\ l = <<"next", b>> => P2[l] = new
  /\ l # <<"tailBlock">> /\ l # <<"tail", new>> /\ l # <<"next", new>> /\ l # <<"next", b>> /\ l # <<"data", new, 0>> /\ l # <<"localTail", new>>
        => P2[l] = P[l]

\* What the producer sees after it linked a new block in: the block, its links, and
\* nothing else.
LEMMA GrownView ==
  ASSUME NEW m, NEW buf \in Seq(StoreSet), NEW b, NEW new, NEW next, NEW issued,
         GrownStores(issued, b, new, next), NEW l \in Locations
  PROVE  SeesGrown(View(buf, m), View(Issue(buf, issued), m), l, b, new, next)
<1>0. /\ b # new /\ issued \in Seq(StoreSet) /\ Len(issued) = 7
      /\ issued[1].loc = <<"data", new, 0>> /\ issued[2].loc = <<"localTail", new>>
      /\ issued[3] = Store(<<"tail", new>>, 1) /\ issued[4] = Store(<<"next", new>>, next) /\ issued[5] = Store(<<"next", b>>, new)
      /\ issued[6] = Fence /\ issued[7] = Store(<<"tailBlock">>, new)
  BY DEF GrownStores
<1>1. PICK P : P = View(buf, m) OBVIOUS
<1>2. PICK P2 : P2 = View(Issue(buf, issued), m) OBVIOUS
<1>3. l # Fence.loc /\ P2[l] = Load(Issue(buf, issued), m, l) /\ P[l] = Load(buf, m, l)
  BY <1>1, <1>2, NotFence DEF View
<1>4. \A j \in 1..7 : j = 1 \/ j = 2 \/ j = 3 \/ j = 4 \/ j = 5 \/ j = 6 \/ j = 7 OBVIOUS
<1>5. /\ issued[3].loc = <<"tail", new>> /\ issued[3].val = 1 /\ issued[4].loc = <<"next", new>> /\ issued[4].val = next
      /\ issued[5].loc = <<"next", b>> /\ issued[5].val = new /\ issued[6].loc = Fence.loc /\ issued[7].loc = <<"tailBlock">> /\ issued[7].val = new
  BY <1>0 DEF Store
<1>6. /\ <<"tailBlock">> # <<"tail", new>> /\ <<"tailBlock">> # <<"next", new>> /\ <<"tailBlock">> # <<"next", b>>
      /\ <<"tail", new>> # <<"next", new>> /\ <<"tail", new>> # <<"next", b>> /\ <<"next", new>> # <<"next", b>>
  BY <1>0, Places, PlacesDiffer
<1>20. \A i : IsLast(issued, i, l) => P2[l] = issued[i].val BY <1>0, <1>2, ViewIssue
<1>21. Untouched(issued, l) => P2[l] = P[l] BY <1>0, <1>1, <1>2, ViewIssue
<1>7. ASSUME l = <<"tailBlock">> PROVE P2[l] = new
  <2>1. IsLast(issued, 7, l) BY <1>0, <1>5, <1>7 DEF IsLast
  <2> QED BY <1>0, <1>5, <1>20, <2>1
<1>8. ASSUME l = <<"tail", new>> PROVE P2[l] = 1
  <2>1. issued[4].loc # l /\ issued[5].loc # l /\ issued[6].loc # l /\ issued[7].loc # l
    BY <1>0, <1>3, <1>5, <1>6, <1>8
  <2>2. \A j \in 1..7 : j > 3 => j = 4 \/ j = 5 \/ j = 6 \/ j = 7 OBVIOUS
  <2>3. 3 \in 1..7 OBVIOUS
  <2>4. IsLast(issued, 3, l) BY <1>0, <1>5, <1>8, <2>1, <2>2, <2>3 DEF IsLast
  <2> QED BY <1>0, <1>5, <1>20, <2>4
<1>9. ASSUME l = <<"next", new>> PROVE P2[l] = next
  <2>1. issued[5].loc # l /\ issued[6].loc # l /\ issued[7].loc # l BY <1>0, <1>3, <1>5, <1>6, <1>9
  <2>2. \A j \in 1..7 : j > 4 => j = 5 \/ j = 6 \/ j = 7 OBVIOUS
  <2>3. 4 \in 1..7 OBVIOUS
  <2>4. IsLast(issued, 4, l) BY <1>0, <1>5, <1>9, <2>1, <2>2, <2>3 DEF IsLast
  <2> QED BY <1>0, <1>5, <1>20, <2>4
<1>10. ASSUME l = <<"next", b>> PROVE P2[l] = new
  <2>1. issued[6].loc # l /\ issued[7].loc # l BY <1>0, <1>3, <1>5, <1>6, <1>10
  <2>2. \A j \in 1..7 : j > 5 => j = 6 \/ j = 7 OBVIOUS
  <2>3. 5 \in 1..7 OBVIOUS
  <2>4. IsLast(issued, 5, l) BY <1>0, <1>5, <1>10, <2>1, <2>2, <2>3 DEF IsLast
  <2> QED BY <1>0, <1>5, <1>20, <2>4
<1>11. ASSUME l # <<"tailBlock">> /\ l # <<"tail", new>> /\ l # <<"next", new>> /\ l # <<"next", b>> /\ l # <<"data", new, 0>> /\ l # <<"localTail", new>>
       PROVE P2[l] = P[l]
  <2>1. \A j \in 1..Len(issued) : issued[j].loc # l BY <1>0, <1>3, <1>4, <1>5, <1>11
  <2> QED BY <1>21, <2>1 DEF Untouched
<1> QED BY <1>1, <1>2, <1>7, <1>8, <1>9, <1>10, <1>11 DEF SeesGrown

\* The block that malloc gave is none of the circle's.
LEMMA NewBlock ==
  ASSUME NEW h, Shape(h), Fits(h), NoneAhead(h), h.n < MaxBlocks
  PROVE  /\ h.n + 1 \in Blocks /\ h.n + 1 \in Nat /\ h.n + 1 > h.n
         /\ h.block[h.tail] \in Blocks /\ h.block[h.tail] \in Nat /\ h.block[h.tail] # h.n + 1
         /\ h.block[h.freed] \in Blocks /\ h.block[h.freed] \in Nat
         /\ 0 \in Slots /\ <<"data", h.n + 1, 0>> \in Locations /\ <<"localTail", h.n + 1>> \in Locations
<1>1. h.n \in Nat /\ h.tail \in Nat /\ h.freed \in Nat /\ h.freed >= 1 /\ h.freed <= h.tail /\ LastVisit(h) \in Nat /\ h.tail <= LastVisit(h)
  BY ShapeFacts
<1>2. PICK k \in Nat : Blocks = 1..k /\ MaxBlocks <= k BY BlocksIs
<1>3. h.n + 1 \in Blocks BY <1>1, <1>2, QueueAssumption
<1>4. h.tail \in 1..LastVisit(h) /\ h.freed \in 1..LastVisit(h) BY <1>1
<1>5. h.block[h.tail] \in Blocks /\ h.block[h.tail] \in 1..h.n /\ h.block[h.freed] \in Blocks /\ h.block[h.freed] \in 1..h.n
  BY <1>4, BlockFits
<1>6. PICK mm \in Nat : Slots = 0..mm BY SlotsIs
<1>7. 0 \in Slots BY <1>6
<1>8. <<"data", h.n + 1, 0>> \in Locations /\ <<"localTail", h.n + 1>> \in Locations
  BY <1>3, <1>7, PlacesOf
<1>9. h.block[h.tail] \in Nat /\ h.block[h.freed] \in Nat /\ h.block[h.tail] # h.n + 1 BY <1>1, <1>5
<1> QED BY <1>1, <1>3, <1>5, <1>7, <1>8, <1>9

\* inner_enqueue, a new block: what is written in it and the links into the circle are
\* issued before the fence, and tailBlock after it.
LEMMA GrownEnqueue ==
  ASSUME NEW h, NEW m, NEW buf \in Seq(StoreSet), NEW C, NEW F, NEW s, NEW mask,
         World(h, m, View(buf, m), C, F, s, mask), Holds(buf, h.S),
         FullTail(h), NoneAhead(h), NEW r, NEW mask2, Added(h, mask, r, mask2),
         NEW issued, GrownIssued(h, issued)
  PROVE  \E h2 : /\ World(h2, m, View(Issue(buf, issued), m), C, F, s, mask2) /\ Holds(Issue(buf, issued), h2.S)
                 /\ EnqueueStep(h, h2, 1..7) /\ GrownVisit(h, h2)
<1>1. Shape(h) /\ Pend(h) /\ PendingFronts(h) /\ Sizing(h, s, mask) BY DEF World
<1>0. /\ h.freed \in Nat /\ h.tail \in Nat /\ h.sent \in Nat /\ h.freed <= h.tail /\ h.n \in Nat /\ h.freed >= 1
      /\ LastVisit(h) \in Nat
  <2>1. /\ h.freed \in Nat /\ h.tail \in Nat /\ h.sent \in Nat /\ h.n \in Nat /\ h.freed >= 1
    BY <1>1, ShapeFacts
  <2>2. h.freed <= h.tail BY <1>1, ShapeFacts
  <2>3. LastVisit(h) \in Nat BY <1>1, ShapeFacts
  <2> QED BY <2>1, <2>2, <2>3
<1>2. Fits(h) BY <1>1, SizingFits
<1>3. PICK P : P = View(buf, m) OBVIOUS
<1>4. FreeViews(h, m, P, C, F) BY <1>3 DEF World, Views
<1>5. PICK E \in Nat : E = h.sent + 1 BY <1>0
<1>6. PICK v \in Nat : v = h.tail + 1 BY <1>0
<1>7. PICK new : new = h.n + 1 OBVIOUS
<1>8. PICK b : b = h.block[h.tail] OBVIOUS
<1>9. PICK next : next = h.block[h.freed] OBVIOUS
<1>10. /\ new \in Blocks /\ new \in Nat /\ new > h.n /\ b \in Blocks /\ b \in Nat /\ b # new /\ next \in Blocks /\ next \in Nat
       /\ <<"data", new, 0>> \in Locations /\ <<"localTail", new>> \in Locations
  <2>1. h.n < MaxBlocks BY DEF Added
  <2> QED BY <1>1, <1>2, <1>7, <1>8, <1>9, <2>1, NewBlock
<1>11. <<"tail", new>> \in Locations /\ <<"next", new>> \in Locations /\ <<"next", b>> \in Locations /\ <<"tailBlock">> \in Locations
  BY <1>10, PlacesOf
<1>12. r \in Nat /\ r > h.unit /\ Room(r) /\ h.n < MaxBlocks /\ mask2 = Append(mask, r - 1)
  BY DEF Added
<1>13. r >= 2 BY <1>12 DEF Room
<1>20. PICK x1 : x1 = Store(<<"data", new, 0>>, E) OBVIOUS
<1>21. PICK x2 : x2 = Store(<<"localTail", new>>, 1) OBVIOUS
<1>22. PICK x3 : x3 = Store(<<"tail", new>>, 1) OBVIOUS
<1>23. PICK x4 : x4 = Store(<<"next", new>>, next) OBVIOUS
<1>24. PICK x5 : x5 = Store(<<"next", b>>, new) OBVIOUS
<1>25. PICK x7 : x7 = Store(<<"tailBlock">>, new) OBVIOUS
<1>26. /\ x1 \in StoreSet /\ x1.loc = <<"data", new, 0>> /\ x1 # Fence /\ Fence \in StoreSet
       /\ x2 \in StoreSet /\ x2.loc = <<"localTail", new>>
       /\ x3 \in StoreSet /\ x4 \in StoreSet /\ x4.loc = <<"next", new>> /\ x4.val = next /\ x5 \in StoreSet /\ x7 \in StoreSet
  BY <1>5, <1>10, <1>11, <1>20, <1>21, <1>22, <1>23, <1>24, <1>25, StoreSetHas
<1>27. issued = <<x1, x2, x3, x4, x5, Fence, x7>>
  BY <1>5, <1>7, <1>8, <1>9, <1>20, <1>21, <1>22, <1>23, <1>24, <1>25 DEF GrownIssued
<1>28. /\ issued \in Seq(StoreSet) /\ Len(issued) = 7 /\ issued[1] = x1 /\ issued[2] = x2 /\ issued[3] = x3 /\ issued[4] = x4
       /\ issued[5] = x5 /\ issued[6] = Fence /\ issued[7] = x7
  BY <1>26, <1>27, Sequence7
<1>29. PICK ts : ts = [i \in 1..7 |-> Tag(E, i)] OBVIOUS
<1>30. PICK K : K = 1..7 OBVIOUS
<1>31. Numbered(h, K, ts, issued) BY <1>5, <1>26, <1>28, <1>29, <1>30, Numbered7
<1>32. PICK h2 : /\ GrownVisit(h, h2) /\ h2.base[h.tail + 1] = h.sent + 1 /\ h2.room[h.tail + 1] = r
                 /\ Holds(Issue(buf, issued), h2.S) /\ IssuedAs(h, h2, K, ts, issued)
  <2>1. issued \in Seq(StoreSet) BY <1>28
  <2> QED BY <1>1, <1>12, <1>31, <2>1, GrownIssue DEF NoneAhead, FullTail
<1>33. NewVisit(h, h2) BY <1>32 DEF GrownVisit
<1>34. Enqueued(h, h2) BY <1>1, <1>33, NewEnqueued
<1>35. Issued(h, h2, K) /\ \A i \in 1..Len(issued) : h2.S[ts[i]] = issued[i] BY <1>32 DEF IssuedAs
<1>36. Circular(h2) /\ LastVisit(h2) = LastVisit(h) + 1 BY <1>1, <1>32, GrownCircular
<1>37. Shape(h2) BY <1>1, <1>33, <1>35, <1>36, NewVisitShape
<1>38. /\ h2.tail = v /\ h2.visit[E] = v /\ h2.first[v] = E /\ h2.lf = E /\ h2.block[v] = new /\ h2.room[v] = r /\ h2.base[v] = E
       /\ h2.freed = h.freed /\ v = LastVisit(h2)
  <2>1. h2.visit[h.sent + 1] = h.tail + 1 /\ h2.first[h.tail + 1] = h.sent + 1
    BY <1>1, <1>33, NewVisitFirst
  <2>2. h2.tail = h.tail + 1 /\ h2.lf = h.sent + 1 /\ h2.freed = h.freed BY <1>33 DEF NewVisit
  <2>3. h2.block[h.tail + 1] = h.n + 1
    <3>1. h.tail + 1 \in 1..(h.tail + 1) BY <1>0
    <3> QED BY <1>32, <3>1 DEF GrownVisit
  <2>4. v = LastVisit(h2) BY <1>6, <1>36 DEF NoneAhead
  <2> QED BY <1>5, <1>6, <1>7, <1>32, <2>1, <2>2, <2>3, <2>4
<1>39. IndexOf(h2, v, E) = 0 /\ IndexOf(h2, v, E + 1) = 1
  <2>1. IndexOf(h2, v, E) = (E - E) % r /\ IndexOf(h2, v, E + 1) = ((E + 1) - E) % r
    BY <1>38 DEF IndexOf, Slot
  <2>2. E - E = 0 /\ (E + 1) - E = 1 BY <1>5
  <2>3. 0 % r = 0 /\ 1 % r = 1
    <3>1. r \in Nat /\ r > 0 /\ 0 \in 0..(r - 1) /\ 1 \in 0..(r - 1) BY <1>12, <1>13
    <3>2. 0 = r * 0 + 0 /\ 1 = r * 0 + 1 BY <1>12
    <3> QED BY <3>1, <3>2, DivMod2
  <2> QED BY <2>1, <2>2, <2>3
<1>40. h2.block[h.tail] = b /\ h2.block[h.freed] = next /\ v - 1 = h.tail
  <2>1. h.tail \in 1..LastVisit(h) /\ h.freed \in 1..LastVisit(h) BY <1>0 DEF NoneAhead
  <2>2. v - 1 = h.tail BY <1>0, <1>6
  <2> QED BY <1>8, <1>9, <1>33, <2>1, <2>2 DEF NewVisit
<1>41. Begins(h2, E) BY <1>0, <1>6, <1>38 DEF Begins
<1>42. NewStores(h, h2, K)
  <2>0. v \in h2.grown BY <1>6, <1>32 DEF GrownVisit
  <2>1. K = Kinds(h2, E) BY <1>30, <1>38, <1>41, <2>0 DEF Kinds
  <2>2. /\ h2.S[Tag(E, 1)] = x1 /\ h2.S[Tag(E, 2)] = x2 /\ h2.S[Tag(E, 3)] = x3 /\ h2.S[Tag(E, 4)] = x4
        /\ h2.S[Tag(E, 5)] = x5 /\ h2.S[Tag(E, 6)] = Fence /\ h2.S[Tag(E, 7)] = x7
    <3>1. \A i \in 1..7 : h2.S[Tag(E, i)] = issued[i] BY <1>28, <1>29, <1>35
    <3> QED BY <1>28, <3>1
  <2>3. Link(h2, v, next)
    <3>1. ~ (v < h2.tail) BY <1>38
    <3>2. NextOf(h2, v) = next BY <1>38, <1>40 DEF NextOf
    <3> QED BY <3>1, <3>2 DEF Link
  <2>4. StoreIs(h2, E, 1, x1) BY <1>20, <1>38, <1>39 DEF StoreIs
  <2>5. StoreIs(h2, E, 2, x2) BY <1>21, <1>38 DEF StoreIs
  <2>6. StoreIs(h2, E, 3, x3) BY <1>22, <1>38, <1>39 DEF StoreIs
  <2>7. StoreIs(h2, E, 4, x4) BY <1>26, <1>38, <2>3 DEF StoreIs
  <2>8. StoreIs(h2, E, 5, x5) BY <1>24, <1>38, <1>40 DEF StoreIs
  <2>9. StoreIs(h2, E, 6, Fence) BY DEF StoreIs
  <2>10. StoreIs(h2, E, 7, x7) BY <1>25, <1>38, <1>41 DEF StoreIs
  <2>11. \A k \in 1..7 : k = 1 \/ k = 2 \/ k = 3 \/ k = 4 \/ k = 5 \/ k = 6 \/ k = 7 OBVIOUS
  <2>12. \A k \in K : StoreIs(h2, E, k, h2.S[Tag(E, k)])
    BY <1>30, <2>2, <2>4, <2>5, <2>6, <2>7, <2>8, <2>9, <2>10, <2>11
  <2> QED BY <1>5, <1>35, <2>1, <2>12 DEF NewStores
<1>43. Sizing(h2, s, mask2) BY <1>1, <1>12, <1>32, GrownSizing
<1>44. Fits(h2) BY <1>37, <1>43, SizingFits
<1>45. EnqueueStep(h, h2, K) BY <1>1, <1>34, <1>37, <1>42, <1>44 DEF EnqueueStep
<1>46. PICK P2 : P2 = View(Issue(buf, issued), m) OBVIOUS
<1>47. ASSUME NEW l \in Locations
       PROVE  SeesGrown(P, P2, l, b, new, next)
  <2>1. GrownStores(issued, b, new, next)
    BY <1>10, <1>22, <1>23, <1>24, <1>25, <1>26, <1>28 DEF GrownStores
  <2> QED BY <1>3, <1>46, <2>1, GrownView
<1>48. TailMoved(h, h2, P, P2)
  <2>1. P2[<<"tailBlock">>] = new BY <1>11, <1>47 DEF SeesGrown
  <2>2. ASSUME NEW a \in Blocks PROVE P2[<<"tail", a>>] = IF a = new THEN 1 ELSE P[<<"tail", a>>]
    <3>1. /\ <<"tail", a>> \in Locations /\ <<"tail", a>> # <<"tailBlock">> /\ (<<"tail", a>> = <<"tail", new>> <=> a = new)
          /\ <<"tail", a>> # <<"next", new>> /\ <<"tail", a>> # <<"next", b>> /\ <<"tail", a>> # <<"data", new, 0>> /\ <<"tail", a>> # <<"localTail", new>>
      BY PlacesOf, PlacesDiffer, Places
    <3> QED BY <1>47, <3>1 DEF SeesGrown
  <2>3. IndexOf(h2, v, h.sent + 2) = 1
    <3>1. E + 1 = h.sent + 2 BY <1>0, <1>5
    <3> QED BY <1>39, <3>1
  <2> QED BY <1>38, <2>1, <2>2, <2>3 DEF TailMoved
<1>49. Inserted(h, P, P2)
  <2>1. ASSUME NEW a \in Blocks PROVE P2[<<"next", a>>] = IF a = new THEN next ELSE IF a = b THEN new ELSE P[<<"next", a>>]
    <3>1. /\ <<"next", a>> \in Locations /\ <<"next", a>> # <<"tailBlock">> /\ (<<"next", a>> = <<"next", new>> <=> a = new)
          /\ (<<"next", a>> = <<"next", b>> <=> a = b)
          /\ <<"next", a>> # <<"tail", new>> /\ <<"next", a>> # <<"data", new, 0>> /\ <<"next", a>> # <<"localTail", new>>
      BY PlacesOf, PlacesDiffer, Places
    <3> QED BY <1>47, <3>1 DEF SeesGrown
  <2> QED BY <1>7, <1>8, <1>9, <2>1 DEF Inserted
<1>50. m[<<"tail", new>>] = 0 /\ m[<<"front", new>>] = 0 /\ C[<<"front", new>>] = 0 /\ F[new] = 0
  BY <1>4, <1>10 DEF FreeViews
<1>51. FrontCopied(h2, F, F) BY <1>38, <1>39, <1>50 DEF FrontCopied
<1>52. Empty(h, h2, m, C)
  <2>1. Tag(E, 3) \in DOMAIN h2.S
    <3>1. 3 \in K BY <1>30
    <3> QED BY <1>5, <1>35, <3>1 DEF Issued
  <2> QED BY <1>5, <1>38, <1>39, <1>50, <2>1 DEF Empty
<1>53. World(h2, m, P2, C, F, s, mask2)
  <2>1. 4 \in K /\ 5 \in K BY <1>30
  <2>2. World(h, m, P, C, F, s, mask) BY <1>3
  <2> QED BY <1>32, <1>43, <1>45, <1>48, <1>49, <1>51, <1>52, <2>1, <2>2, GrownWorld
<1> QED BY <1>30, <1>32, <1>45, <1>46, <1>53

-----------------------------------------------------------------------------
(* Looking at the tail block.                                              *)

\* The history fits the memory m, the two buffers, the copies of the fronts and the blocks.
LEMMA WholeParts ==
  ASSUME NEW h, NEW m, NEW bp, NEW bc, NEW F, NEW s, NEW mask, Whole(h, m, bp, bc, F, s, mask)
  PROVE  /\ Shape(h) /\ Pend(h) /\ PendingFronts(h) /\ Sizing(h, s, mask) /\ Fits(h) /\ Holds(bp, h.S) /\ Holds(bc, h.R)
         /\ m \in [Locations -> Nat] /\ bp \in Seq(StoreSet) /\ bc \in Seq(StoreSet) /\ F \in [Blocks -> Nat]
         /\ Views(h, m, View(bp, m), View(bc, m), F)
<1>1. Shape(h) /\ Pend(h) /\ PendingFronts(h) /\ Sizing(h, s, mask) /\ Views(h, m, View(bp, m), View(bc, m), F)
  BY DEF Whole, World
<1>2. Fits(h) BY <1>1, SizingFits
<1> QED BY <1>1, <1>2 DEF Whole

\* Neither thread has stores to the fields of the other.
LEMMA ProducerLoads ==
  ASSUME NEW h, NEW bp \in Seq(StoreSet), NEW m, Shape(h), Pend(h), Holds(bp, h.S),
         NEW l \in Locations, l[1] \in {"front", "frontBlock"}
  PROVE  Load(bp, m, l) = m[l]
<1>1. PICK tags : TagsOf(tags, bp, h.S) BY HoldsTags
<1>2. ASSUME NEW i \in 1..Len(bp) PROVE bp[i].loc # l
  <2>1. tags[i] \in DOMAIN h.S /\ bp[i] = h.S[tags[i]] BY <1>1 DEF TagsOf
  <2>2. PICK e \in (h.pub + 1)..h.sent, k \in 1..7 : StoreIs(h, e, k, h.S[tags[i]])
    BY <2>1, PendingIs DEF Pend
  <2>3. h.S[tags[i]].loc[1] \in {"data", "localTail", "tail", "next", "tailBlock", "fence"}
    BY <2>2, StoreFields
  <2> QED BY <2>1, <2>3
<1> QED BY <1>2, LoadNone

\* The consumer reads the producer's fields from memory: its own pending stores are to
\* the fronts.
LEMMA ConsumerLoads ==
  ASSUME NEW h, NEW bc \in Seq(StoreSet), NEW m, PendingFronts(h), Holds(bc, h.R),
         NEW l \in Locations, l[1] \notin {"front", "frontBlock"}
  PROVE  Load(bc, m, l) = m[l]
<1>1. PICK tags : TagsOf(tags, bc, h.R) BY HoldsTags
<1>2. ASSUME NEW i \in 1..Len(bc) PROVE bc[i].loc # l
  <2>1. tags[i] \in DOMAIN h.R /\ bc[i] = h.R[tags[i]] BY <1>1 DEF TagsOf
  <2>2. h.R[tags[i]] = Fence \/ (\E b, j : h.R[tags[i]] = Store(<<"front", b>>, j)) \/ (\E b : h.R[tags[i]] = Store(<<"frontBlock">>, b))
    BY <2>1, FrontStores
  <2>3. CASE h.R[tags[i]] = Fence BY <2>1, <2>3, NotFence
  <2>4. CASE \E b, j : h.R[tags[i]] = Store(<<"front", b>>, j)
    <3>1. h.R[tags[i]].loc[1] = "front" BY <2>4 DEF Store
    <3> QED BY <2>1, <3>1
  <2>5. CASE \E b : h.R[tags[i]] = Store(<<"frontBlock">>, b)
    <3>1. h.R[tags[i]].loc[1] = "frontBlock" BY <2>5 DEF Store
    <3> QED BY <2>1, <3>1
  <2> QED BY <2>2, <2>3, <2>4, <2>5
<1> QED BY <1>2, LoadNone

\* What the producer finds in its tail block.
TailFound(h, m, P, F, mask, b, tl, nx, fr) ==
  /\ b = P[<<"tailBlock">>] /\ tl = P[<<"tail", b>>] /\ nx = (tl + 1) % (mask[b] + 1)
  /\ fr = IF nx # F[b] THEN F[b] ELSE m[<<"front", b>>]
\* What it makes of that: lf is the front it goes by.
TailMeans(h, b, tl, nx, fr, lf) ==
  /\ b = h.block[h.tail] /\ tl = IndexOf(h, h.tail, h.sent + 1) /\ nx = IndexOf(h, h.tail, h.sent + 2) /\ fr = IndexOf(h, h.tail, lf)
  /\ lf \in Nat /\ h.lf <= lf /\ lf <= MemFront(h, h.tail) /\ h.sent + 1 - lf < h.room[h.tail]
  /\ nx # fr => Refreshed(h, lf)
  /\ nx = fr => h.sent + 2 - lf = h.room[h.tail] /\ lf = MemFront(h, h.tail)

\* A tail block is full when the next tail is the front; then every slot but one holds
\* an element.
LEMMA FullSlot ==
  ASSUME NEW h, Shape(h), NEW lf \in Nat, lf <= h.sent + 1, h.sent + 1 - lf < h.room[h.tail]
  PROVE  IF IndexOf(h, h.tail, h.sent + 2) = IndexOf(h, h.tail, lf) THEN h.sent + 2 - lf = h.room[h.tail] ELSE h.sent + 2 - lf < h.room[h.tail]
<1>1. h.sent \in Nat /\ h.tail \in Nat /\ h.freed \in Nat /\ h.freed <= h.tail /\ LastVisit(h) \in Nat /\ h.tail <= LastVisit(h) /\ h.freed >= 1
  BY ShapeFacts
<1>2. PICK r : r = h.room[h.tail] OBVIOUS
<1>3. PICK base : base = h.base[h.tail] OBVIOUS
<1>4. Ordered(h, h.tail)
  <2>1. h.tail \in h.freed..h.tail BY <1>1
  <2> QED BY <2>1, OrderedVisits
<1>5. r \in Nat /\ r > 0 /\ base \in Int
  <2>1. h.unit \in Nat BY ShapeFacts
  <2> QED BY <1>2, <1>3, <1>4, <2>1 DEF Ordered
<1>6. PICK x \in Nat : x = h.sent + 2 BY <1>1
<1>7. IndexOf(h, h.tail, h.sent + 2) = Slot(x, base, r) /\ IndexOf(h, h.tail, lf) = Slot(lf, base, r)
  BY <1>2, <1>3, <1>6 DEF IndexOf
<1>8. x - lf <= r /\ lf < x BY <1>1, <1>2, <1>5, <1>6
<1>9. CASE x - lf = r
  <2>1. Slot(lf + r, base, r) = Slot(lf, base, r) BY <1>5, SlotWrap
  <2>2. lf + r = x BY <1>5, <1>6, <1>9
  <2>3. IndexOf(h, h.tail, h.sent + 2) = IndexOf(h, h.tail, lf) BY <1>7, <2>1, <2>2
  <2>4. h.sent + 2 - lf = h.room[h.tail] BY <1>1, <1>2, <1>5, <1>6, <1>9
  <2> QED BY <2>3, <2>4
<1>10. CASE x - lf # r
  <2>1. x - lf < r /\ lf - x < r BY <1>5, <1>6, <1>8, <1>10
  <2>2. Slot(x, base, r) # Slot(lf, base, r)
    <3>1. SUFFICES ASSUME Slot(x, base, r) = Slot(lf, base, r) PROVE FALSE OBVIOUS
    <3>2. x \in Int /\ lf \in Int BY <1>6
    <3>3. x = lf BY <1>5, <2>1, <3>1, <3>2, SlotInj
    <3> QED BY <1>6, <1>8, <3>3
  <2>3. h.sent + 2 - lf < h.room[h.tail] BY <1>1, <1>2, <1>5, <1>6, <2>1
  <2>4. IndexOf(h, h.tail, h.sent + 2) # IndexOf(h, h.tail, lf) BY <1>7, <2>2
  <2> QED BY <2>3, <2>4
<1> QED BY <1>9, <1>10

\* What the producer computes from tailBlock, the tail and its copy of the front is what
\* the history says; the copy, refreshed or not, is never ahead of the front.
LEMMA TailLogic ==
  ASSUME NEW h, NEW m, NEW P, NEW C, NEW F, NEW s, NEW mask, World(h, m, P, C, F, s, mask), NEW b,
         NEW tl, NEW nx, NEW fr,
         TailFound(h, m, P, F, mask, b, tl, nx, fr)
  PROVE  \E lf : TailMeans(h, b, tl, nx, fr, lf)
<1>1. Shape(h) /\ Sizing(h, s, mask) /\ TailViews(h, m, P) /\ FrontViews(h, m, C) /\ ShadowViews(h, m, F)
  BY DEF World, Views
<1>2. h.sent \in Nat /\ h.tail \in Nat /\ h.freed \in Nat /\ h.freed <= h.tail /\ h.freed >= 1
  BY <1>1, ShapeFacts
<1>3. h.tail \in h.freed..h.tail /\ h.tail \in 1..LastVisit(h)
  <2>1. h.tail <= LastVisit(h) /\ LastVisit(h) \in Nat BY <1>1, ShapeFacts
  <2> QED BY <1>2, <2>1
<1>4. b = h.block[h.tail] BY <1>1 DEF TailFound, TailViews
<1>5. h.first[h.tail + 1] = h.sent + 1 BY <1>1 DEF Shape, Visits
<1>6. tl = IndexOf(h, h.tail, h.sent + 1) BY <1>1, <1>3, <1>4, <1>5 DEF TailFound, TailViews
<1>7. mask[b] + 1 = h.room[h.tail] BY <1>1, <1>3, <1>4 DEF Sizing
<1>8. nx = IndexOf(h, h.tail, h.sent + 2)
  <2>1. PICK x \in Int : x = h.sent + 1 BY <1>2
  <2>2. (IndexOf(h, h.tail, x) + 1) % h.room[h.tail] = IndexOf(h, h.tail, x + 1)
    BY <1>1, <1>3, IndexNext
  <2>3. x + 1 = h.sent + 2 BY <1>2, <2>1
  <2> QED BY <1>6, <1>7, <2>1, <2>2, <2>3 DEF TailFound
<1>9. F[b] = IndexOf(h, h.tail, h.lf) BY <1>1, <1>4 DEF ShadowViews
<1>10. m[<<"front", b>>] = IndexOf(h, h.tail, MemFront(h, h.tail))
  BY <1>1, <1>3, <1>4 DEF FrontViews
<1>11. /\ h.lf \in Nat /\ h.lf <= MemFront(h, h.tail) /\ h.sent + 1 - h.lf < h.room[h.tail]
  BY <1>1 DEF Shape, Positions
<1>12. MemFront(h, h.tail) \in Nat /\ MemFront(h, h.tail) <= h.sent + 1 /\ h.sent + 1 - MemFront(h, h.tail) < h.room[h.tail]
  <2>1. Ordered(h, h.tail) BY <1>1, <1>3, OrderedVisits
  <2>2. MemFront(h, h.tail) \in Nat BY <2>1 DEF Ordered
  <2>3. h.first[h.tail + 1] - MemFront(h, h.tail) < h.room[h.tail] BY <2>1 DEF Ordered
  <2>4. MemFront(h, h.tail) <= h.first[h.tail + 1]
    <3>1. /\ MemFront(h, h.tail) \in Nat /\ OwnFront(h, h.tail) \in Nat /\ MemTail(h, h.tail) \in Nat /\ h.first[h.tail + 1] \in Nat
          /\ MemFront(h, h.tail) <= OwnFront(h, h.tail) /\ OwnFront(h, h.tail) <= MemTail(h, h.tail) /\ MemTail(h, h.tail) <= h.first[h.tail + 1]
      BY <2>1 DEF Ordered
    <3> QED BY <3>1
  <2> QED BY <1>2, <1>5, <2>2, <2>3, <2>4
<1>13. h.lf <= h.sent + 1 BY <1>2, <1>11, <1>12
<1>14. CASE nx # F[b]
  <2>1. fr = F[b] BY <1>14 DEF TailFound
  <2>2. h.sent + 2 - h.lf < h.room[h.tail] BY <1>1, <1>8, <1>9, <1>11, <1>13, <1>14, FullSlot
  <2>3. Refreshed(h, h.lf) BY <1>11, <2>2 DEF Refreshed
  <2>4. TailMeans(h, b, tl, nx, fr, h.lf)
    BY <1>4, <1>6, <1>8, <1>9, <1>11, <1>14, <2>1, <2>3 DEF TailMeans
  <2> QED BY <2>4
<1>15. CASE nx = F[b]
  <2>1. PICK lf : lf = MemFront(h, h.tail) OBVIOUS
  <2>2. fr = IndexOf(h, h.tail, lf) BY <1>10, <1>15, <2>1 DEF TailFound
  <2>3. lf \in Nat /\ lf <= h.sent + 1 /\ h.sent + 1 - lf < h.room[h.tail] /\ h.lf <= lf
    BY <1>11, <1>12, <2>1
  <2>4. IF nx = fr THEN h.sent + 2 - lf = h.room[h.tail] ELSE h.sent + 2 - lf < h.room[h.tail]
    BY <1>1, <1>8, <2>2, <2>3, FullSlot
  <2>5. nx # fr => Refreshed(h, lf) BY <2>1, <2>3, <2>4 DEF Refreshed
  <2>6. TailMeans(h, b, tl, nx, fr, lf)
    BY <1>4, <1>6, <1>8, <2>1, <2>2, <2>3, <2>4, <2>5 DEF TailMeans
  <2> QED BY <2>6
<1> QED BY <1>14, <1>15

\* The shadow copies stand for elements lf and lt.
ShadowTo(h, h2, lf, lt) == SameButShadow(h, h2) /\ h2.lf = lf /\ h2.lt = lt

\* There is a history with other shadow copies.
LEMMA ShadowExists ==
  ASSUME NEW h, NEW lf, NEW lt
  PROVE  \E h2 : ShadowTo(h, h2, lf, lt)
<1>1. PICK h2 : h2 = [n |-> h.n, unit |-> h.unit, freed |-> h.freed, front |-> h.front, shown |-> h.shown, tail |-> h.tail,
         rel |-> h.rel, got |-> h.got, pub |-> h.pub, sent |-> h.sent, block |-> h.block, room |-> h.room, grown |-> h.grown,
         first |-> h.first, base |-> h.base, visit |-> h.visit, lf |-> lf, lt |-> lt, S |-> h.S, R |-> h.R]
  OBVIOUS
<1> QED BY <1>1 DEF ShadowTo, SameButShadow

\* The two shadow copies move on.
ShadowFits(h, lf, lt) ==
  /\ lt \in Nat /\ h.got + 1 <= lt /\ lt <= MemTail(h, h.front)
  /\ lf \in Nat /\ h.first[h.tail] <= lf /\ lf <= MemFront(h, h.tail) /\ h.sent + 1 - lf < h.room[h.tail]
\* Two memories that differ in the consumer's copies of tails only.
SameExceptShadow(m, m2) == \A l \in Locations : l[1] # "localTail" => m2[l] = m[l]

\* A thread sees the same in two memories that differ in shadow copies only.
LEMMA ViewSame ==
  ASSUME NEW buf, NEW m, NEW m2, SameExceptShadow(m, m2), NEW l \in Locations, l[1] # "localTail"
  PROVE  View(buf, m2)[l] = View(buf, m)[l]
<1>1. m2[l] = m[l] BY DEF SameExceptShadow
<1> QED BY <1>1 DEF View, Load

\* Refreshing the shadow copies leads from one history to the next.
LEMMA ShadowWhole ==
  ASSUME NEW h, NEW m, NEW bp, NEW bc, NEW F, NEW s, NEW mask, Whole(h, m, bp, bc, F, s, mask),
         NEW h2, NEW lf, NEW lt, ShadowTo(h, h2, lf, lt), ShadowFits(h, lf, lt),
         NEW m2 \in [Locations -> Nat], SameExceptShadow(m, m2),
         m2[<<"localTail", h.block[h.front]>>] = IndexOf(h, h.front, lt),
         NEW F2 \in [Blocks -> Nat], CopiedAs(F, F2, h.block[h.tail], IndexOf(h, h.tail, lf))
  PROVE  Whole(h2, m2, bp, bc, F2, s, mask)
<1>1. SameButShadow(h, h2) /\ h2.lf = lf /\ h2.lt = lt BY DEF ShadowTo
<1>2. World(h, m, View(bp, m), View(bc, m), F, s, mask) BY DEF Whole
<1>3. Shape(h) /\ Fits(h) BY WholeParts
<1>4. \A l \in Locations : (l[1] # "localTail" => m2[l] = m[l] /\ View(bp, m2)[l] = View(bp, m)[l] /\ View(bc, m2)[l] = View(bc, m)[l])
  BY ViewSame DEF SameExceptShadow
<1>5. h.block[h.tail] \in Blocks /\ h.block[h.tail] \in 1..h.n /\ h.n \in Nat
  <2>1. h.tail \in Nat /\ h.freed \in Nat /\ h.freed <= h.tail /\ h.freed >= 1 /\ LastVisit(h) \in Nat /\ h.tail <= LastVisit(h) /\ h.n \in Nat
    BY <1>3, ShapeFacts
  <2>2. h.tail \in 1..LastVisit(h) BY <2>1
  <2> QED BY <1>3, <2>1, <2>2, BlockFits
<1>6. F2[h.block[h.tail]] = IndexOf(h, h.tail, lf) BY <1>5 DEF CopiedAs
<1>7. \A b \in Blocks : b > h.n => F2[b] = F[b]
  <2> SUFFICES ASSUME NEW b \in Blocks, b > h.n PROVE F2[b] = F[b] OBVIOUS
  <2>1. b # h.block[h.tail]
    <3>1. h.block[h.tail] \in Int /\ h.block[h.tail] <= h.n BY <1>5
    <3> QED BY <1>5, <3>1
  <2> QED BY <2>1 DEF CopiedAs
<1>8. World(h2, m2, View(bp, m2), View(bc, m2), F2, s, mask)
  <2>1. /\ h2.lt \in Nat /\ h.got + 1 <= h2.lt /\ h2.lt <= MemTail(h, h.front)
        /\ h2.lf \in Nat /\ h.first[h.tail] <= h2.lf /\ h2.lf <= MemFront(h, h.tail) /\ h.sent + 1 - h2.lf < h.room[h.tail]
    BY <1>1 DEF ShadowFits
  <2>2. m2[<<"localTail", h.block[h.front]>>] = IndexOf(h, h.front, h2.lt) /\ F2[h.block[h.tail]] = IndexOf(h, h.tail, h2.lf)
    BY <1>1, <1>6
  <2> QED BY <1>1, <1>2, <1>4, <1>7, <2>1, <2>2, ShadowWorld, SMTT(60)
<1>9. h2.S = h.S /\ h2.R = h.R BY <1>1 DEF SameButShadow
<1> QED BY <1>8, <1>9 DEF Whole

\* How the numbers of elements change.
Sent(h, h2) == h2.sent = h.sent + 1 /\ h2.got = h.got /\ h2.pub = h.pub /\ h2.rel = h.rel
\* Nothing is sent, taken, published or released.
Kept(h, h2) == h2.sent = h.sent /\ h2.got = h.got /\ h2.pub = h.pub /\ h2.rel = h.rel

\* What a call of the consumer may rely on, whatever the producer does.
ConsumerKept(h, h2) == \A call \in CallSet : ConsumerCall(h, call) => ConsumerCall(h2, call)

\* An enqueue adds an element, and the consumer's call goes on.
LEMMA EnqueueSent ==
  ASSUME NEW h, NEW h2, NEW K, EnqueueStep(h, h2, K), SameCircle(h, h2) \/ GrownVisit(h, h2)
  PROVE  Sent(h, h2) /\ ConsumerKept(h, h2)
<1>1. Sent(h, h2) BY DEF EnqueueStep, Enqueued, Sent
<1>2. ASSUME NEW call \in CallSet, ConsumerCall(h, call) PROVE ConsumerCall(h2, call)
  BY <1>2, EnqueueConsumerCall
<1> QED BY <1>1, <1>2 DEF ConsumerKept

\* EnqueueTail with room in the tail block: the next history has one more element.
LEMMA TailStepSends ==
  ASSUME NEW h, NEW m, NEW bp, NEW bc, NEW F, NEW s, NEW mask, Whole(h, m, bp, bc, F, s, mask),
         NEW b, NEW tl, NEW nx, NEW fr,
         TailFound(h, m, View(bp, m), F, mask, b, tl, nx, fr), nx # fr, NEW F2 \in [Blocks -> Nat],
         CopiedAs(F, F2, b, fr),
         NEW issued,
         issued = <<Store(<<"data", b, tl>>, h.sent + 1), Fence, Store(<<"tail", b>>, nx)>>,
         Issue(bp, issued) \in Seq(StoreSet)
  PROVE  \E h2 : Whole(h2, m, Issue(bp, issued), bc, F2, s, mask) /\ Sent(h, h2) /\ ConsumerKept(h, h2)
<1>1. World(h, m, View(bp, m), View(bc, m), F, s, mask) /\ Holds(bp, h.S) /\ bp \in Seq(StoreSet) /\ bc \in Seq(StoreSet) /\ Holds(bc, h.R)
  BY DEF Whole
<1>2. PICK lf : TailMeans(h, b, tl, nx, fr, lf) BY <1>1, TailLogic
<1>3. Refreshed(h, lf) /\ CopiedAs(F, F2, h.block[h.tail], IndexOf(h, h.tail, lf)) /\ TailIssued(h, issued)
  BY <1>2 DEF TailMeans, TailIssued
<1>4. PICK h2 : /\ World(h2, m, View(Issue(bp, issued), m), View(bc, m), F2, s, mask) /\ Holds(Issue(bp, issued), h2.S)
                /\ EnqueueStep(h, h2, {1, 6, 7}) /\ SameCircle(h, h2)
  BY <1>1, <1>3, TailEnqueue
<1>5. h2.R = h.R BY <1>4 DEF EnqueueStep, Enqueued
<1>6. Whole(h2, m, Issue(bp, issued), bc, F2, s, mask) BY <1>1, <1>4, <1>5 DEF Whole
<1>7. Sent(h, h2) /\ ConsumerKept(h, h2) BY <1>4, EnqueueSent
<1> QED BY <1>6, <1>7

\* Refreshing a shadow copy changes no element, and the other thread's call goes on.
LEMMA ShadowKept ==
  ASSUME NEW h, NEW h2, NEW lf, NEW lt, ShadowTo(h, h2, lf, lt)
  PROVE  /\ Kept(h, h2)
         /\ lt = h.lt => ConsumerKept(h, h2)
         /\ lf = h.lf => \A call, s : ProducerCall(h, call, s) => ProducerCall(h2, call, s)
<1>1. SameButShadow(h, h2) /\ h2.lf = lf /\ h2.lt = lt BY DEF ShadowTo
<1>2. Kept(h, h2) BY <1>1 DEF SameButShadow, Kept
<1>3. lt = h.lt => ConsumerKept(h, h2) BY <1>1, ShadowConsumer DEF ConsumerKept
<1>4. lf = h.lf => \A call, s : ProducerCall(h, call, s) => ProducerCall(h2, call, s)
  BY <1>1, ShadowProducer
<1> QED BY <1>2, <1>3, <1>4

\* EnqueueTail without room: the tail block is full to the producer.
LEMMA TailStepFull ==
  ASSUME NEW h, NEW m, NEW bp, NEW bc, NEW F, NEW s, NEW mask, Whole(h, m, bp, bc, F, s, mask),
         NEW b, NEW tl, NEW nx, NEW fr,
         TailFound(h, m, View(bp, m), F, mask, b, tl, nx, fr), nx = fr, NEW F2 \in [Blocks -> Nat],
         CopiedAs(F, F2, b, fr)
  PROVE  \E h2 : /\ Whole(h2, m, bp, bc, F2, s, mask) /\ Kept(h, h2) /\ ConsumerKept(h, h2)
                 /\ FullTail(h2) /\ (h2.n = 1 => h2.lf = h.rel + 1)
<1>1. World(h, m, View(bp, m), View(bc, m), F, s, mask) /\ m \in [Locations -> Nat] BY DEF Whole
<1>2. PICK lf : TailMeans(h, b, tl, nx, fr, lf) BY <1>1, TailLogic
<1>3. CopiedAs(F, F2, h.block[h.tail], IndexOf(h, h.tail, lf)) /\ h.sent + 2 - lf = h.room[h.tail] /\ lf = MemFront(h, h.tail)
  BY <1>2 DEF TailMeans
<1>4. PICK h2 : ShadowTo(h, h2, lf, h.lt) BY ShadowExists
<1>5. Shape(h) /\ ShadowViews(h, m, F) BY <1>1 DEF World, Views
<1>6. ShadowFits(h, lf, h.lt)
  <2>1. h.lt \in Nat /\ h.got + 1 <= h.lt /\ h.lt <= MemTail(h, h.front)
    BY <1>5 DEF Shape, Positions
  <2>2. lf \in Nat /\ lf <= MemFront(h, h.tail) /\ h.sent + 1 - lf < h.room[h.tail] /\ h.lf <= lf
    BY <1>2 DEF TailMeans
  <2>3. h.lf \in Nat /\ h.first[h.tail] <= h.lf BY <1>5 DEF Shape, Positions
  <2>4. h.first[h.tail] \in Nat
    <3>1. h.tail \in 1..(h.tail + 1)
      <4>1. h.tail \in Nat /\ h.freed \in Nat /\ h.freed <= h.tail /\ h.freed >= 1
        BY <1>5, ShapeFacts
      <4> QED BY <4>1
    <3> QED BY <1>5, <3>1, FirstType
  <2>5. h.first[h.tail] <= lf BY <2>2, <2>3, <2>4
  <2> QED BY <2>1, <2>2, <2>5 DEF ShadowFits
<1>7. m[<<"localTail", h.block[h.front]>>] = IndexOf(h, h.front, h.lt) BY <1>5 DEF ShadowViews
<1>8. SameExceptShadow(m, m) BY DEF SameExceptShadow
<1>9. Whole(h2, m, bp, bc, F2, s, mask) BY <1>1, <1>3, <1>4, <1>6, <1>7, <1>8, ShadowWhole
<1>10. Kept(h, h2) /\ ConsumerKept(h, h2) BY <1>4, ShadowKept
<1>11. h2.n = h.n /\ h2.lf = lf /\ h2.sent = h.sent /\ h2.room = h.room /\ h2.tail = h.tail
  BY <1>4 DEF ShadowTo, SameButShadow
<1>12. FullTail(h2) BY <1>3, <1>11 DEF FullTail
<1>13. h2.n = 1 => h2.lf = h.rel + 1
  <2>1. ASSUME h.n = 1 PROVE h.tail = h.freed
    <3>1. h.tail \in Nat /\ h.freed \in Nat /\ h.freed <= h.tail /\ LastVisit(h) = h.freed + h.n - 1 /\ h.tail <= LastVisit(h)
      BY <1>5, ShapeFacts
    <3> QED BY <2>1, <3>1
  <2> QED BY <1>3, <1>11, <2>1 DEF MemFront
<1> QED BY <1>9, <1>10, <1>12, <1>13

\* The block after the tail block is free unless it is the front block.
LEMMA FullLogic ==
  ASSUME NEW h, NEW m, NEW P, NEW C, Shape(h), TailViews(h, m, P), FrontViews(h, m, C),
         NextViews(h, m, P), NEW b, b = P[<<"tailBlock">>]
  PROVE  /\ b = h.block[h.tail] /\ m[<<"frontBlock">>] = h.block[h.freed]
         /\ P[<<"next", b>>] # m[<<"frontBlock">>] => FreeAhead(h) /\ P[<<"next", b>>] = h.block[h.tail + 1]
         /\ P[<<"next", b>>] = m[<<"frontBlock">>] => NoneAhead(h)
<1>1. h.tail \in Nat /\ h.freed \in Nat /\ h.freed <= h.tail /\ h.freed >= 1 /\ LastVisit(h) \in Nat /\ h.tail <= LastVisit(h)
  BY ShapeFacts
<1>2. b = h.block[h.tail] BY DEF TailViews
<1>3. m[<<"frontBlock">>] = h.block[h.freed] BY DEF FrontViews
<1>4. P[<<"next", b>>] = NextOf(h, h.tail)
  <2>1. h.tail \in h.freed..LastVisit(h) BY <1>1
  <2> QED BY <1>2, <2>1 DEF NextViews
<1>5. CASE h.tail = LastVisit(h)
  <2>1. P[<<"next", b>>] = h.block[h.freed] BY <1>4, <1>5 DEF NextOf
  <2> QED BY <1>2, <1>3, <1>5, <2>1 DEF NoneAhead
<1>6. CASE h.tail < LastVisit(h)
  <2>1. P[<<"next", b>>] = h.block[h.tail + 1] BY <1>1, <1>4, <1>6 DEF NextOf
  <2>2. h.block[h.tail + 1] # h.block[h.freed]
    <3>1. SUFFICES ASSUME h.block[h.tail + 1] = h.block[h.freed] PROVE FALSE OBVIOUS
    <3>2. PICK v \in Nat : v = h.tail + 1 BY <1>1
    <3>3. v \in h.freed..LastVisit(h) /\ h.freed \in h.freed..LastVisit(h) BY <1>1, <1>6, <3>2
    <3>4. v = h.freed BY <3>1, <3>2, <3>3, BlockInj
    <3> QED BY <1>1, <3>2, <3>4
  <2> QED BY <1>2, <1>3, <1>6, <2>1, <2>2 DEF FreeAhead
<1> QED BY <1>1, <1>5, <1>6

\* Products grow with their factors.
LEMMA Product ==
  ASSUME NEW a \in Nat, NEW b \in Nat, a <= b, NEW u \in Nat
  PROVE  a * u <= b * u
OBVIOUS

\* A full circle holds at least as many elements as the queue was constructed for.
LEMMA FullHolds ==
  ASSUME NEW h, Shape(h), NEW s, NEW mask, Sizing(h, s, mask), FullTail(h), NoneAhead(h),
         NEW start \in Nat, start <= h.rel, h.n = 1 => start < h.lf
  PROVE  h.sent - start >= s
<1>1. /\ h.tail \in Nat /\ h.freed \in Nat /\ h.freed <= h.tail /\ h.freed >= 1 /\ LastVisit(h) = h.freed + h.n - 1 /\ h.n \in Nat /\ h.n >= 1
      /\ h.unit \in Nat /\ h.unit >= 1 /\ h.sent \in Nat /\ h.rel \in Nat
  BY ShapeFacts
<1>2. PICK k : k = InitialBlockCount(s) OBVIOUS
<1>3. PICK u : u = h.unit OBVIOUS
<1>4. /\ s \in Nat /\ k \in Nat /\ k >= 1 /\ (k = 1 => u >= s) /\ (k > 1 => (k - 1) * u >= s) /\ h.n >= k /\ u \in Nat /\ u >= 1
  <2>1. s \in Sizes /\ u = InitialBlockSize(s) - 1 /\ h.n >= k BY <1>2, <1>3 DEF Sizing
  <2>2. s \in Nat BY <2>1, QueueAssumption
  <2>3. k \in Nat /\ k >= 1 BY <1>2, <2>1, InitialSizes
  <2>4. (k = 1 => InitialBlockSize(s) - 1 >= s) /\ (k > 1 => (k - 1) * (InitialBlockSize(s) - 1) >= s)
    BY <1>2, <2>1, InitialSizes
  <2> QED BY <1>1, <1>3, <2>1, <2>2, <2>3, <2>4
<1>5. PICK r : r = h.room[h.tail] OBVIOUS
<1>6. r \in Nat /\ r > u
  <2>1. h.tail \in 1..LastVisit(h)
    <3>1. h.tail <= LastVisit(h) BY ShapeFacts
    <3> QED BY <1>1, <3>1
  <2> QED BY <1>3, <1>5, <2>1 DEF Shape, Circular
<1>7. h.lf \in Nat /\ h.first[h.tail] <= h.lf BY DEF Shape, Positions
<1>8. h.sent + 2 - h.lf = r BY <1>5 DEF FullTail
<1>9. CASE h.n = 1
  <2>1. h.sent - start >= u BY <1>1, <1>4, <1>6, <1>7, <1>8, <1>9
  <2>2. k = 1 BY <1>4, <1>9
  <2> QED BY <1>1, <1>4, <2>1, <2>2
<1>10. CASE h.n > 1
  <2>1. h.tail = h.freed + h.n - 1 BY <1>1 DEF NoneAhead
  <2>2. PICK w \in Nat : w = h.freed + 1 BY <1>1
  <2>3. w \in 1..h.tail /\ h.tail \in 1..h.tail /\ w <= h.tail /\ w \in 1..(h.tail + 1) /\ h.tail \in 1..(h.tail + 1)
    BY <1>1, <1>10, <2>1, <2>2
  <2>4. h.first[h.tail] - h.first[w] >= (h.tail - w) * h.unit BY <2>3 DEF Shape, Visits
  <2>5. h.first[h.tail] \in Nat /\ h.first[w] \in Nat BY <2>3, FirstType
  <2>6. h.rel + 1 <= h.first[w] BY <2>2 DEF Shape, Positions
  <2>7. PICK a \in Nat : a = h.n - 2 BY <1>1, <1>10
  <2>8. h.tail - w = a BY <1>1, <2>1, <2>2, <2>7
  <2>9. h.first[h.tail] - h.first[w] >= a * u BY <1>3, <2>4, <2>8
  <2>10. a * u \in Nat BY <1>4, <2>7
  <2>11. h.sent - start >= a * u + u BY <1>1, <1>4, <1>6, <1>7, <1>8, <2>5, <2>6, <2>9, <2>10
  <2>12. a * u + u = (a + 1) * u BY <1>4, <2>7
  <2>13. (a + 1) * u >= s
    <3>1. CASE k = 1
      <4>1. a * u + u >= u BY <1>4, <2>10
      <4> QED BY <1>4, <2>7, <2>10, <2>12, <3>1, <4>1
    <3>2. CASE k > 1
      <4>1. PICK j \in Nat : j = k - 1 BY <1>4, <3>2
      <4>2. j <= a + 1 /\ a + 1 \in Nat BY <1>1, <1>4, <2>7, <4>1
      <4>3. j * u <= (a + 1) * u BY <1>4, <4>1, <4>2, Product
      <4>4. j * u >= s BY <1>4, <3>2, <4>1
      <4>5. j * u \in Nat /\ (a + 1) * u \in Nat BY <1>4, <4>1, <4>2
      <4> QED BY <1>4, <4>3, <4>4, <4>5
    <3> QED BY <1>4, <3>1, <3>2
  <2>14. (a + 1) * u \in Nat BY <1>4, <2>7
  <2> QED BY <1>1, <1>4, <2>11, <2>12, <2>13, <2>14
<1> QED BY <1>1, <1>9, <1>10

\* The block enqueue adds is at least as large as the largest.
LEMMA NewRoom ==
  ASSUME NEW h, Shape(h), NEW s, NEW mask, Sizing(h, s, mask), h.n < MaxBlocks
  PROVE  Added(h, mask, NewBlockSize(Max(Range(mask)) + 1), Append(mask, NewBlockSize(Max(Range(mask)) + 1) - 1))
<1>1. h.n \in Nat /\ h.n >= 1 /\ h.unit \in Nat BY ShapeFacts
<1>2. mask \in Seq(Nat) /\ Len(mask) = h.n /\ \A b \in 1..h.n : Room(mask[b] + 1) /\ mask[b] >= h.unit
  BY DEF Sizing
<1>3. PICK T : T = Range(mask) OBVIOUS
<1>4. T = {mask[b] : b \in 1..h.n} BY <1>2, <1>3 DEF Range
<1>5. T \in SUBSET Nat /\ mask[1] \in T BY <1>1, <1>2, <1>4
<1>6. PICK top \in Nat : Slots = 0..top BY SlotsIs
<1>7. \A y \in T : y <= top
  <2>1. ASSUME NEW b \in 1..h.n PROVE mask[b] <= top
    <3>1. (mask[b] + 1) - 1 \in Slots BY <1>2 DEF Room
    <3>2. mask[b] \in Nat BY <1>2
    <3> QED BY <1>6, <3>1, <3>2
  <2> QED BY <1>4, <2>1
<1>8. Max(T) \in T BY <1>5, <1>7, MaxExists
<1>9. PICK r0 : r0 = Max(T) + 1 OBVIOUS
<1>10. Room(r0) /\ r0 > h.unit
  <2>1. PICK b \in 1..h.n : Max(T) = mask[b] BY <1>4, <1>8
  <2>2. mask[b] \in Nat BY <1>2
  <2> QED BY <1>1, <1>2, <1>9, <2>1, <2>2
<1>11. PICK r : r = NewBlockSize(r0) OBVIOUS
<1>12. Room(r) /\ r >= r0 BY <1>10, <1>11, RoomNew
<1>13. r \in Nat /\ r0 \in Nat BY <1>10, <1>12 DEF Room
<1>14. r > h.unit BY <1>1, <1>10, <1>12, <1>13
<1> QED BY <1>3, <1>9, <1>11, <1>12, <1>13, <1>14 DEF Added

-----------------------------------------------------------------------------
(* Drain as a step of the history.                                         *)

\* A store that leaves a buffer.
LEMMA LeftType ==
  ASSUME NEW buf \in Seq(StoreSet), NEW i \in Leaving(buf)
  PROVE  Left(buf, i) \in Seq(StoreSet) /\ i \in 1..Len(buf) /\ buf[i].val \in Nat
<1>1. i \in 1..Len(buf) /\ buf[i] # Fence BY LeavingIs
<1>2. RemoveAt(buf, i) \in Seq(StoreSet) BY <1>1, RemoveAtIs
<1>3. Left(buf, i) \in Seq(StoreSet) BY <1>2, TrimIs DEF Left
<1>4. buf[i] \in StoreSet BY <1>1
<1>5. buf[i].val \in Nat BY <1>4 DEF StoreSet
<1> QED BY <1>1, <1>3, <1>5

\* A thread sees a place that is not written as it was.
LEMMA LoadSame ==
  ASSUME NEW buf, NEW m, NEW m2, NEW l, m2[l] = m[l]
  PROVE  Load(buf, m2, l) = Load(buf, m, l)
BY DEF Load

\* A store that leaves the buffer for memory changes nothing for the thread that issued
\* it.
LEMMA LeftView ==
  ASSUME NEW m \in [Locations -> Nat], NEW buf \in Seq(StoreSet), NEW i \in Leaving(buf), NEW m2,
         m2 = [m EXCEPT ![buf[i].loc] = buf[i].val]
  PROVE  View(Left(buf, i), m2) = View(buf, m)
<1>1. DOMAIN m = Locations OBVIOUS
<1>2. ASSUME NEW l \in Locations PROVE Load(Left(buf, i), m2, l) = Load(buf, m, l)
  <2>1. l \in DOMAIN m BY <1>1
  <2>2. l # Fence.loc BY NotFence
  <2> QED BY <2>1, <2>2, LoadLeft
<1> QED BY <1>2 DEF View

\* What the drain of one store does to the numbers and the calls.
CallsKept(h, h2) ==
  /\ \A call \in CallSet : ConsumerCall(h, call) => ConsumerCall(h2, call)
  /\ \A call \in CallSet : \A s : ProducerCall(h, call, s) => ProducerCall(h2, call, s)
\* The history after a store of the producer reached memory,
DrainedTo(h, h2, e, k, S2) == Drained1(h, h2, e, k) /\ h2.S = S2

\* There is a history with a store of the producer in memory,
LEMMA DrainedExists ==
  ASSUME NEW h, NEW e, NEW k, NEW S2
  PROVE  \E h2 : DrainedTo(h, h2, e, k, S2)
<1>1. PICK h2 : h2 = [n |-> h.n, unit |-> h.unit, freed |-> h.freed, front |-> h.front, shown |-> IF k = 7 THEN h.visit[e] ELSE h.shown, tail |-> h.tail,
        rel |-> h.rel, got |-> h.got, pub |-> IF k = 7 THEN e ELSE h.pub, sent |-> h.sent, block |-> h.block, room |-> h.room, grown |-> h.grown, first |-> h.first,
        base |-> h.base, visit |-> h.visit, lf |-> h.lf, lt |-> h.lt, S |-> S2, R |-> h.R] OBVIOUS
<1>2. SameButPublished(h, h2) BY <1>1 DEF SameButPublished
<1>3. h2.pub = IF k = 7 THEN e ELSE h.pub BY <1>1
<1>4. h2.shown = IF k = 7 THEN h.visit[e] ELSE h.shown BY <1>1
<1>5. h2.S = S2 BY <1>1
<1> QED BY <1>2, <1>3, <1>4, <1>5 DEF DrainedTo, Drained1
\* after a slot was released,
ReleasedTo(h, h2, R2) == SameButReleased(h, h2) /\ h2.rel = h.rel + 1 /\ h2.R = R2

\* one with a slot released,
LEMMA ReleasedExists ==
  ASSUME NEW h, NEW R2
  PROVE  \E h2 : ReleasedTo(h, h2, R2)
<1>1. PICK h2 : h2 = [n |-> h.n, unit |-> h.unit, freed |-> h.freed, front |-> h.front, shown |-> h.shown, tail |-> h.tail,
        rel |-> h.rel + 1, got |-> h.got, pub |-> h.pub, sent |-> h.sent, block |-> h.block, room |-> h.room, grown |-> h.grown, first |-> h.first,
        base |-> h.base, visit |-> h.visit, lf |-> h.lf, lt |-> h.lt, S |-> h.S, R |-> R2] OBVIOUS
<1>2. SameButReleased(h, h2) BY <1>1 DEF SameButReleased
<1>3. h2.rel = h.rel + 1 BY <1>1
<1>4. h2.R = R2 BY <1>1
<1> QED BY <1>2, <1>3, <1>4 DEF ReleasedTo
\* and after a block was freed.
FreedTo(h, h2, R2) ==
  /\ SameButFreed(h, h2) /\ h2.freed = h.freed + 1 /\ h2.R = R2
  /\ h2.block = [v \in 1..(LastVisit(h) + 1) |-> IF v = LastVisit(h) + 1 THEN h.block[h.freed] ELSE h.block[v]]
  /\ h2.room = [v \in 1..(LastVisit(h) + 1) |-> IF v = LastVisit(h) + 1 THEN h.room[h.freed] ELSE h.room[v]]

\* and one with a block freed.
LEMMA FreedExists ==
  ASSUME NEW h, NEW R2
  PROVE  \E h2 : FreedTo(h, h2, R2)
<1>0. PICK blocks : blocks = [v \in 1..(LastVisit(h) + 1) |-> IF v = LastVisit(h) + 1 THEN h.block[h.freed] ELSE h.block[v]] OBVIOUS
<1>00. PICK rooms : rooms = [v \in 1..(LastVisit(h) + 1) |-> IF v = LastVisit(h) + 1 THEN h.room[h.freed] ELSE h.room[v]] OBVIOUS
<1>1. PICK h2 : h2 = [n |-> h.n, unit |-> h.unit, freed |-> h.freed + 1, front |-> h.front, shown |-> h.shown, tail |-> h.tail,
        rel |-> h.rel, got |-> h.got, pub |-> h.pub, sent |-> h.sent, block |-> blocks, room |-> rooms, grown |-> h.grown, first |-> h.first,
        base |-> h.base, visit |-> h.visit, lf |-> h.lf, lt |-> h.lt, S |-> h.S, R |-> R2] OBVIOUS
<1>2. SameButFreed(h, h2) BY <1>1 DEF SameButFreed
<1>3. h2.freed = h.freed + 1 /\ h2.R = R2 BY <1>1
<1>4. h2.block = blocks BY <1>1
<1>5. h2.room = rooms BY <1>1
<1> QED BY <1>0, <1>00, <1>2, <1>3, <1>4, <1>5 DEF FreedTo

\* Memory differs in the place written.
LEMMA DrainWrites ==
  ASSUME NEW m \in [Locations -> Nat], NEW l, NEW x \in Nat, NEW m2, m2 = [m EXCEPT ![l] = x]
  PROVE  m2 \in [Locations -> Nat] /\ Wrote(m, m2, l, x)
BY DEF Wrote

\* A store of the producer reaches memory.
DrainedBy(h, h2) == /\ h2.sent = h.sent /\ h2.got = h.got /\ h2.rel = h.rel /\ (h2.pub = h.pub \/ h2.pub = h.pub + 1)

\* Drain of the producer: one history leads to the next, and at most one element is
\* published.
LEMMA ProducerDrain ==
  ASSUME NEW h, NEW m, NEW bp, NEW bc, NEW F, NEW s, NEW mask, Whole(h, m, bp, bc, F, s, mask),
         NEW i \in Leaving(bp),
         NEW m2, m2 = [m EXCEPT ![bp[i].loc] = bp[i].val]
  PROVE  \E h2 : Whole(h2, m2, Left(bp, i), bc, F, s, mask) /\ DrainedBy(h, h2) /\ CallsKept(h, h2)
<1>1. /\ Shape(h) /\ Pend(h) /\ PendingFronts(h) /\ Sizing(h, s, mask) /\ Fits(h) /\ Holds(bp, h.S) /\ Holds(bc, h.R)
      /\ m \in [Locations -> Nat] /\ bp \in Seq(StoreSet) /\ bc \in Seq(StoreSet) /\ F \in [Blocks -> Nat]
      /\ Views(h, m, View(bp, m), View(bc, m), F) BY WholeParts
<1>2. PendingTags(h) /\ PendingStores(h) BY <1>1 DEF Pend
<1>3. DOMAIN h.S \subseteq Nat BY <1>1, <1>2, TagsAreNat
<1>4. PICK t, S2 : MayLeave(h.S, t) /\ bp[i] = h.S[t] /\ After(h.S, t, S2) /\ Holds(Left(bp, i), S2)
  BY <1>1, <1>3, HoldsLeft
<1>5. PICK e \in (h.pub + 1)..h.sent, k \in {1, 2, 3, 4, 5, 7} :
            /\ t = Tag(e, k) /\ k \in Kinds(h, e) /\ StoreIs(h, e, k, h.S[t]) /\ e \in Nat /\ e \in 1..h.sent
            /\ k \in {3, 4, 5, 7} => e = h.pub + 1 /\ \A j \in {3, 4, 5} : j < k => Tag(e, j) \notin DOMAIN h.S
            /\ k = 7 => \A j \in 1..6 : Tag(e, j) \notin DOMAIN h.S
  BY <1>1, <1>2, <1>4, DrainTag
<1>6. PICK h2 : DrainedTo(h, h2, e, k, S2) BY DrainedExists
<1>7. h2.S = S2 /\ Drained1(h, h2, e, k) BY <1>6 DEF DrainedTo
<1>8. t \in DOMAIN h.S BY <1>4 DEF MayLeave
<1>9. Leaves(h, h2, e, k) BY <1>4, <1>5, <1>7, <1>8 DEF Leaves
<1>10. PICK l : l = bp[i].loc OBVIOUS
<1>11. PICK x : x = bp[i].val OBVIOUS
<1>12. l = h.S[Tag(e, k)].loc /\ x = h.S[Tag(e, k)].val BY <1>4, <1>5, <1>10, <1>11
<1>13. x \in Nat /\ Left(bp, i) \in Seq(StoreSet) BY <1>1, <1>11, LeftType
<1>14. m2 = [m EXCEPT ![l] = x] BY <1>10, <1>11
<1>15. m2 \in [Locations -> Nat] /\ Wrote(m, m2, l, x) BY <1>1, <1>13, <1>14, DrainWrites
<1>16. View(Left(bp, i), m2) = View(bp, m) BY <1>1, LeftView
<1>17. l[1] \in {"data", "localTail", "tail", "next", "tailBlock", "fence"}
  <2>1. k \in 1..7 BY <1>5
  <2>2. StoreIs(h, e, k, bp[i]) BY <1>4, <1>5
  <2> QED BY <1>10, <2>1, <2>2, StoreFields
<1>18. SameFronts(View(bc, m), View(bc, m2))
  <2>1. ASSUME NEW k2 \in Locations, k2[1] \in {"front", "frontBlock"} PROVE View(bc, m2)[k2] = View(bc, m)[k2]
    <3>1. k2 # l BY <1>17, <2>1
    <3>2. m2[k2] = m[k2] BY <1>15, <3>1 DEF Wrote
    <3>3. Load(bc, m2, k2) = Load(bc, m, k2) BY <3>2, LoadSame
    <3> QED BY <3>3 DEF View
  <2>2. View(bc, m2)[<<"frontBlock">>] = View(bc, m)[<<"frontBlock">>]
    <3>1. <<"frontBlock">> \in Locations /\ <<"frontBlock">>[1] \in {"front", "frontBlock"}
      BY PlacesOf
    <3> QED BY <2>1, <3>1
  <2>3. ASSUME NEW b \in Blocks PROVE View(bc, m2)[<<"front", b>>] = View(bc, m)[<<"front", b>>]
    <3>1. <<"front", b>> \in Locations /\ <<"front", b>>[1] \in {"front", "frontBlock"} BY PlacesOf
    <3> QED BY <2>1, <3>1
  <2> QED BY <2>2, <2>3 DEF SameFronts
<1>19. Views(h2, m2, View(bp, m), View(bc, m2), F) BY <1>1, <1>9, <1>12, <1>15, <1>18, DrainViews
<1>20. Shape(h2) BY <1>1, <1>9, DrainShape
<1>21. Pend(h2)
  <2>1. PendingTags(h2) BY <1>1, <1>9, DrainTags
  <2>2. PendingStores(h2) BY <1>1, <1>9, DrainStores
  <2> QED BY <2>1, <2>2 DEF Pend
<1>22. PendingFronts(h2) BY <1>1, <1>9, DrainFronts
<1>23. Sizing(h2, s, mask) BY <1>1, <1>9, DrainSizing
<1>24. SameButPublished(h, h2) BY <1>7 DEF Drained1
<1>25. h2.R = h.R BY <1>24 DEF SameButPublished
<1>26. World(h2, m2, View(Left(bp, i), m2), View(bc, m2), F, s, mask)
  BY <1>16, <1>19, <1>20, <1>21, <1>22, <1>23 DEF World
<1>27. Whole(h2, m2, Left(bp, i), bc, F, s, mask)
  BY <1>1, <1>4, <1>7, <1>13, <1>15, <1>25, <1>26 DEF Whole
<1>28. DrainedBy(h, h2)
  <2>1. h2.sent = h.sent /\ h2.got = h.got /\ h2.rel = h.rel BY <1>24 DEF SameButPublished
  <2>2. h2.pub = h.pub \/ h2.pub = h.pub + 1
    <3>1. CASE k = 7
      <4>1. e = h.pub + 1 BY <1>5, <3>1
      <4>2. h2.pub = e BY <1>7, <3>1 DEF Drained1
      <4> QED BY <4>1, <4>2
    <3>2. CASE k # 7 BY <1>7, <3>2 DEF Drained1
    <3> QED BY <3>1, <3>2
  <2> QED BY <2>1, <2>2 DEF DrainedBy
<1>29. CallsKept(h, h2)
  <2>1. ASSUME NEW call \in CallSet, ConsumerCall(h, call) PROVE ConsumerCall(h2, call)
    BY <1>1, <1>9, <2>1, DrainConsumerCall
  <2>2. ASSUME NEW call \in CallSet, NEW z, ProducerCall(h, call, z) PROVE ProducerCall(h2, call, z)
    BY <1>9, <2>2, DrainProducerCall
  <2> QED BY <2>1, <2>2 DEF CallsKept
<1> QED BY <1>27, <1>28, <1>29

\* A store of the consumer reaches memory.
ReleasedBy(h, h2) == /\ h2.sent = h.sent /\ h2.got = h.got /\ h2.pub = h.pub /\ (h2.rel = h.rel \/ h2.rel = h.rel + 1)

\* The consumer's stores do not change what the producer sees of tailBlock.
LEMMA FrontSees ==
  ASSUME NEW bp, NEW m, NEW m2, NEW l, NEW x, Wrote(m, m2, l, x), l[1] \in {"front", "frontBlock"}
  PROVE  SameTails(View(bp, m), View(bp, m2))
<1>1. ASSUME NEW k \in Locations, k[1] \in {"tail", "next", "tailBlock"} PROVE View(bp, m2)[k] = View(bp, m)[k]
  <2>1. k # l BY <1>1
  <2>2. m2[k] = m[k] BY <2>1 DEF Wrote
  <2>3. Load(bp, m2, k) = Load(bp, m, k) BY <2>2, LoadSame
  <2> QED BY <2>3 DEF View
<1>2. View(bp, m2)[<<"tailBlock">>] = View(bp, m)[<<"tailBlock">>]
  <2>1. <<"tailBlock">> \in Locations /\ <<"tailBlock">>[1] \in {"tail", "next", "tailBlock"}
    BY PlacesOf
  <2> QED BY <1>1, <2>1
<1>3. ASSUME NEW b \in Blocks PROVE View(bp, m2)[<<"tail", b>>] = View(bp, m)[<<"tail", b>>] /\ View(bp, m2)[<<"next", b>>] = View(bp, m)[<<"next", b>>]
  <2>1. <<"tail", b>> \in Locations /\ <<"tail", b>>[1] \in {"tail", "next", "tailBlock"}
    BY PlacesOf
  <2>2. <<"next", b>> \in Locations /\ <<"next", b>>[1] \in {"tail", "next", "tailBlock"}
    BY PlacesOf
  <2>3. View(bp, m2)[<<"tail", b>>] = View(bp, m)[<<"tail", b>>] BY <1>1, <2>1
  <2>4. View(bp, m2)[<<"next", b>>] = View(bp, m)[<<"next", b>>] BY <1>1, <2>2
  <2> QED BY <2>3, <2>4
<1> QED BY <1>2, <1>3 DEF SameTails

\* Drain of the consumer: one history leads to the next, and at most one slot is
\* released.
LEMMA ConsumerDrain ==
  ASSUME NEW h, NEW m, NEW bp, NEW bc, NEW F, NEW s, NEW mask, Whole(h, m, bp, bc, F, s, mask),
         NEW i \in Leaving(bc),
         NEW m2, m2 = [m EXCEPT ![bc[i].loc] = bc[i].val]
  PROVE  \E h2 : Whole(h2, m2, bp, Left(bc, i), F, s, mask) /\ ReleasedBy(h, h2) /\ CallsKept(h, h2)
<1>1. /\ Shape(h) /\ Pend(h) /\ PendingFronts(h) /\ Sizing(h, s, mask) /\ Fits(h) /\ Holds(bp, h.S) /\ Holds(bc, h.R)
      /\ m \in [Locations -> Nat] /\ bp \in Seq(StoreSet) /\ bc \in Seq(StoreSet) /\ F \in [Blocks -> Nat]
      /\ Views(h, m, View(bp, m), View(bc, m), F) BY WholeParts
<1>2. DOMAIN h.R \subseteq Nat BY <1>1 DEF PendingFronts
<1>3. PICK t, R2 : MayLeave(h.R, t) /\ bc[i] = h.R[t] /\ After(h.R, t, R2) /\ Holds(Left(bc, i), R2)
  BY <1>1, <1>2, HoldsLeft
<1>4. t \in DOMAIN h.R BY <1>3 DEF MayLeave
<1>5. PICK l : l = bc[i].loc OBVIOUS
<1>6. PICK x : x = bc[i].val OBVIOUS
<1>7. x \in Nat /\ Left(bc, i) \in Seq(StoreSet) BY <1>1, <1>6, LeftType
<1>8. m2 = [m EXCEPT ![l] = x] BY <1>5, <1>6
<1>9. m2 \in [Locations -> Nat] /\ Wrote(m, m2, l, x) BY <1>1, <1>7, <1>8, DrainWrites
<1>10. View(Left(bc, i), m2) = View(bc, m) BY <1>1, LeftView
<1>11. CASE /\ t = Tag(h.rel + 1, 4) /\ h.rel < h.got /\ h.rel + 1 < h.first[h.freed + 1]
            /\ h.R[t] = Store(<<"front", h.block[h.freed]>>, IndexOf(h, h.freed, h.rel + 2))
  <2>1. PICK h2 : ReleasedTo(h, h2, R2) BY ReleasedExists
  <2>2. FrontLeaves(h, h2) BY <1>3, <1>4, <1>11, <2>1 DEF FrontLeaves, ReleasedTo
  <2>3. l = <<"front", h.block[h.freed]>> /\ x = IndexOf(h, h.freed, h.rel + 2)
    BY <1>3, <1>5, <1>6, <1>11 DEF Store
  <2>4. l[1] \in {"front", "frontBlock"} BY <2>3
  <2>5. SameTails(View(bp, m), View(bp, m2)) BY <1>9, <2>4, FrontSees
  <2>6. Wrote(m, m2, <<"front", h.block[h.freed]>>, IndexOf(h, h.freed, h.rel + 2)) BY <1>9, <2>3
  <2>7. Views(h2, m2, View(bp, m2), View(bc, m), F) BY <1>1, <2>2, <2>5, <2>6, ReleaseViews
  <2>8. Shape(h2) BY <1>1, <2>2, ReleaseShape
  <2>9. Pend(h2) BY <1>1, <2>2, ReleasePend
  <2>10. PendingFronts(h2) BY <1>1, <2>2, ReleaseFronts
  <2>11. Sizing(h2, s, mask) BY <1>1, <2>2, ReleaseCalls
  <2>12. World(h2, m2, View(bp, m2), View(Left(bc, i), m2), F, s, mask)
    BY <1>10, <2>7, <2>8, <2>9, <2>10, <2>11 DEF World
  <2>13. SameButReleased(h, h2) /\ h2.rel = h.rel + 1 /\ h2.R = R2 BY <2>1 DEF ReleasedTo
  <2>14. h2.S = h.S /\ h2.sent = h.sent /\ h2.got = h.got /\ h2.pub = h.pub
    BY <2>13 DEF SameButReleased
  <2>15. Whole(h2, m2, bp, Left(bc, i), F, s, mask)
    BY <1>1, <1>3, <1>7, <1>9, <2>12, <2>13, <2>14 DEF Whole
  <2>16. ReleasedBy(h, h2) BY <2>13, <2>14 DEF ReleasedBy
  <2>17. CallsKept(h, h2) BY <1>1, <2>2, ReleaseCalls DEF CallsKept
  <2> QED BY <2>15, <2>16, <2>17
<1>12. CASE /\ h.freed < h.front /\ h.rel + 1 = h.first[h.freed + 1] /\ t = Tag(h.first[h.freed + 1], 2)
            /\ h.R[t] = Store(<<"frontBlock">>, h.block[h.freed + 1])
  <2>1. PICK h2 : FreedTo(h, h2, R2) BY FreedExists
  <2>2. BlockLeaves(h, h2) BY <1>3, <1>4, <1>12, <2>1 DEF BlockLeaves, FreedTo
  <2>3. l = <<"frontBlock">> /\ x = h.block[h.freed + 1] BY <1>3, <1>5, <1>6, <1>12 DEF Store
  <2>4. l[1] \in {"front", "frontBlock"} BY <2>3
  <2>5. SameTails(View(bp, m), View(bp, m2)) BY <1>9, <2>4, FrontSees
  <2>6. Wrote(m, m2, <<"frontBlock">>, h.block[h.freed + 1]) BY <1>9, <2>3
  <2>7. Views(h2, m2, View(bp, m2), View(bc, m), F) BY <1>1, <2>2, <2>5, <2>6, FreeBlockViews
  <2>8. Shape(h2) BY <1>1, <2>2, FreeShape
  <2>9. Pend(h2) BY <1>1, <2>2, FreePend
  <2>10. PendingFronts(h2) BY <1>1, <2>2, FreeFronts
  <2>11. Sizing(h2, s, mask) BY <1>1, <2>2, FreeCalls
  <2>12. World(h2, m2, View(bp, m2), View(Left(bc, i), m2), F, s, mask)
    BY <1>10, <2>7, <2>8, <2>9, <2>10, <2>11 DEF World
  <2>13. SameButFreed(h, h2) /\ h2.R = R2 BY <2>1 DEF FreedTo
  <2>14. h2.S = h.S /\ h2.sent = h.sent /\ h2.got = h.got /\ h2.pub = h.pub /\ h2.rel = h.rel
    BY <2>13 DEF SameButFreed
  <2>15. Whole(h2, m2, bp, Left(bc, i), F, s, mask)
    BY <1>1, <1>3, <1>7, <1>9, <2>12, <2>13, <2>14 DEF Whole
  <2>16. ReleasedBy(h, h2) BY <2>14 DEF ReleasedBy
  <2>17. CallsKept(h, h2) BY <1>1, <2>2, FreeCalls DEF CallsKept
  <2> QED BY <2>15, <2>16, <2>17
<1>13. \/ /\ t = Tag(h.rel + 1, 4) /\ h.rel < h.got /\ h.rel + 1 < h.first[h.freed + 1]
          /\ h.R[t] = Store(<<"front", h.block[h.freed]>>, IndexOf(h, h.freed, h.rel + 2))
       \/ /\ h.freed < h.front /\ h.rel + 1 = h.first[h.freed + 1] /\ t = Tag(h.first[h.freed + 1], 2)
          /\ h.R[t] = Store(<<"frontBlock">>, h.block[h.freed + 1])
  BY <1>1, <1>3, DrainConsumerTag
<1> QED BY <1>11, <1>12, <1>13

-----------------------------------------------------------------------------
(* published and released are what the history says.                       *)

\* As many stores of kind k wait as there are elements that have one.
OfKind(I, tags, n, lo, hi, k) ==
  /\ I \subseteq 1..n
  /\ \A i \in 1..n : i \in I <=> \E e \in (lo + 1)..hi : tags[i] = Tag(e, k)
\* Every element in the range has a store of kind k that waits.
AllWait(S, lo, hi, k) == \A e \in (lo + 1)..hi : Tag(e, k) \in DOMAIN S

\* As many stores of a kind wait as there are elements that wait for one.
LEMMA CountTags ==
  ASSUME NEW buf \in Seq(StoreSet), NEW S, NEW tags, TagsOf(tags, buf, S), NEW lo \in Nat,
         NEW hi \in Nat, lo <= hi, NEW k \in 0..7,
         AllWait(S, lo, hi, k), NEW I, OfKind(I, tags, Len(buf), lo, hi, k)
  PROVE  Cardinality(I) = hi - lo
<1>0. PICK n : n = Len(buf) OBVIOUS
<1>1. n \in Nat BY <1>0
<1>2. PICK f : f = [e \in (lo + 1)..hi |-> CHOOSE i \in 1..n : tags[i] = Tag(e, k)] OBVIOUS
<1>3. ASSUME NEW e \in (lo + 1)..hi PROVE f[e] \in 1..n /\ tags[f[e]] = Tag(e, k) /\ f[e] \in I
  <2>1. Tag(e, k) \in DOMAIN S BY DEF AllWait
  <2>2. \E i \in 1..n : tags[i] = Tag(e, k) BY <1>0, <2>1 DEF TagsOf
  <2>3. f[e] = CHOOSE i \in 1..n : tags[i] = Tag(e, k) BY <1>2
  <2>4. f[e] \in 1..n /\ tags[f[e]] = Tag(e, k) BY <2>2, <2>3
  <2>5. f[e] \in I BY <1>0, <2>4 DEF OfKind
  <2> QED BY <2>4, <2>5
<1>4. f \in [(lo + 1)..hi -> I] BY <1>2, <1>3
<1>5. ASSUME NEW d \in (lo + 1)..hi, NEW e \in (lo + 1)..hi, f[d] = f[e] PROVE d = e
  <2>1. Tag(d, k) = Tag(e, k) BY <1>3, <1>5
  <2>2. d \in Nat /\ e \in Nat OBVIOUS
  <2>3. 8 * d + k = 8 * e + k BY <2>1 DEF Tag
  <2> QED BY <2>2, <2>3
<1>6. ASSUME NEW i \in I PROVE \E e \in (lo + 1)..hi : f[e] = i
  <2>1. i \in 1..n BY <1>0 DEF OfKind
  <2>2. PICK e \in (lo + 1)..hi : tags[i] = Tag(e, k) BY <1>0, <2>1 DEF OfKind
  <2>3. tags[f[e]] = tags[i] /\ f[e] \in 1..n BY <1>3, <2>2
  <2>4. tags \in [1..n -> DOMAIN S] /\ \A a, b \in 1..n : a < b => tags[a] < tags[b]
    BY <1>0 DEF TagsOf
  <2>5. tags[i] \in Nat
    <3>1. e \in Nat OBVIOUS
    <3>2. Tag(e, k) \in Nat BY <3>1, TagFacts
    <3> QED BY <2>2, <3>2
  <2>6. ~ (tags[i] < tags[i]) BY <2>5
  <2>7. ~ (f[e] < i) /\ ~ (i < f[e]) BY <2>1, <2>3, <2>4, <2>6
  <2>8. f[e] = i BY <1>1, <2>1, <2>3, <2>7
  <2> QED BY <2>8
<1>7. f \in Bijection((lo + 1)..hi, I)
  BY <1>4, <1>5, <1>6 DEF Bijection, Injection, Surjection, IsInjective
<1>8. ExistsBijection((lo + 1)..hi, I) BY <1>7 DEF ExistsBijection
<1>9. PICK a : a = lo + 1 OBVIOUS
<1>10. a \in Int /\ hi \in Int BY <1>9
<1>11. IsFiniteSet(a..hi) /\ Cardinality(a..hi) = IF a > hi THEN 0 ELSE hi - a + 1
  BY <1>10, FS_Interval
<1>12. Cardinality(I) = Cardinality(a..hi) BY <1>8, <1>9, <1>11, FS_Bijection
<1> QED BY <1>9, <1>11, <1>12

\* The stores of the buffer that publish an element.
PublishingOf(s) == {i \in DOMAIN s : \/ s[i].loc[1] = "tailBlock"
                                     \/ s[i].loc[1] = "tail" /\ \A j \in (i + 1)..Len(s) :
                                           s[j].loc[1] = "tailBlock" => s[j].val # s[i].loc[2]}

\* The stores that the model counts as publishing are the last ones of the unpublished
\* elements.
LEMMA PublishesLast ==
  ASSUME NEW h, Shape(h), Pend(h), NEW buf \in Seq(StoreSet), NEW tags, TagsOf(tags, buf, h.S)
  PROVE  OfKind(PublishingOf(buf), tags, Len(buf), h.pub, h.sent, 7)
<1>1. /\ h.freed \in Nat /\ h.shown \in Nat /\ h.tail \in Nat /\ LastVisit(h) \in Nat /\ h.freed <= h.shown /\ h.shown <= h.tail /\ h.tail <= LastVisit(h)
      /\ 1 <= h.freed BY ShapeFacts
<1>2. h.pub \in Nat /\ h.sent \in Nat BY ShapeFacts
<1>3. PendingTags(h) /\ PendingStores(h) BY DEF Pend
<1>4. PICK n : n = Len(buf) OBVIOUS
<1>5. n \in Nat /\ DOMAIN buf = 1..n BY <1>4
<1>6. /\ \A i \in 1..n : tags[i] \in DOMAIN h.S /\ buf[i] = h.S[tags[i]]
      /\ \A i, j \in 1..n : i < j => tags[i] < tags[j]
      /\ \A t \in DOMAIN h.S : \E i \in 1..n : tags[i] = t BY <1>4 DEF TagsOf
<1>7. ASSUME NEW i \in 1..n PROVE \E e \in (h.pub + 1)..h.sent, k \in 1..7 : tags[i] = Tag(e, k) /\ k \in Kinds(h, e) /\ StoreIs(h, e, k, buf[i]) /\ e \in Nat /\ e \in 1..h.sent
  <2>1. tags[i] \in DOMAIN h.S /\ buf[i] = h.S[tags[i]] BY <1>6
  <2> QED BY <1>3, <2>1, PendingIs
<1>8. ASSUME NEW e \in (h.pub + 1)..h.sent, e \in 1..h.sent PROVE h.visit[e] \in h.freed..LastVisit(h)
  <2>1. e > h.pub BY <1>2
  <2>2. h.shown <= h.visit[e] BY <1>8, <2>1, VisitsOf
  <2>3. h.visit[e] \in 1..h.tail BY <1>8, VisitType
  <2> QED BY <1>1, <2>2, <2>3
<1>9. ASSUME NEW i \in 1..n, NEW e \in (h.pub + 1)..h.sent, tags[i] = Tag(e, 7) PROVE i \in PublishingOf(buf)
  <2>1. e \in Nat /\ e \in 1..h.sent BY <1>2
  <2>2. tags[i] \in DOMAIN h.S BY <1>6
  <2>3. 7 \in 1..7 OBVIOUS
  <2>4. StoreIs(h, e, 7, buf[i])
    <3>1. StoreIs(h, e, 7, h.S[Tag(e, 7)]) BY <1>3, <1>9, <2>2, <2>3, StoreAt
    <3> QED BY <1>6, <1>9, <3>1
  <2>5. CASE Begins(h, e)
    <3>1. buf[i] = Store(<<"tailBlock">>, h.block[h.visit[e]]) BY <2>4, <2>5 DEF StoreIs
    <3>2. buf[i].loc[1] = "tailBlock" BY <3>1 DEF Store
    <3> QED BY <1>5, <3>2 DEF PublishingOf
  <2>6. CASE ~ Begins(h, e)
    <3>1. buf[i] = Store(<<"tail", h.block[h.visit[e]]>>, IndexOf(h, h.visit[e], e + 1))
      BY <2>4, <2>6 DEF StoreIs
    <3>2. buf[i].loc[1] = "tail" /\ buf[i].loc[2] = h.block[h.visit[e]] BY <3>1 DEF Store
    <3>3. ASSUME NEW j \in (i + 1)..n, buf[j].loc[1] = "tailBlock", buf[j].val = h.block[h.visit[e]] PROVE FALSE
      <4>1. j \in 1..n /\ i < j BY <1>5
      <4>2. PICK d \in (h.pub + 1)..h.sent, k \in 1..7 : tags[j] = Tag(d, k) /\ k \in Kinds(h, d) /\ StoreIs(h, d, k, buf[j]) /\ d \in Nat /\ d \in 1..h.sent
        BY <1>7, <4>1
      <4>3. k = 7 /\ Begins(h, d)
        <5>1. k # 1 BY <3>3, <4>2 DEF StoreIs, Store
        <5>2. k # 2 BY <3>3, <4>2 DEF StoreIs, Store
        <5>3. k # 3 BY <3>3, <4>2 DEF StoreIs, Store
        <5>4. k # 4 BY <3>3, <4>2 DEF StoreIs, Store
        <5>5. k # 5 BY <3>3, <4>2 DEF StoreIs, Store
        <5>6. k # 6 BY <3>3, <4>2 DEF StoreIs, Fence
        <5>7. k = 7 BY <5>1, <5>2, <5>3, <5>4, <5>5, <5>6
        <5>8. Begins(h, d) BY <3>3, <4>2, <5>7 DEF StoreIs, Store
        <5> QED BY <5>7, <5>8
      <4>4. buf[j] = Store(<<"tailBlock">>, h.block[h.visit[d]]) BY <4>2, <4>3 DEF StoreIs
      <4>5. h.block[h.visit[d]] = h.block[h.visit[e]] BY <3>3, <4>4 DEF Store
      <4>6. h.visit[d] \in h.freed..LastVisit(h) /\ h.visit[e] \in h.freed..LastVisit(h)
        BY <1>8, <2>1, <4>2
      <4>7. h.visit[d] = h.visit[e] BY <4>5, <4>6, BlockInj
      <4>8. Tag(e, 7) < Tag(d, 7) BY <1>6, <1>9, <4>1, <4>2, <4>3
      <4>9. e < d BY <2>1, <4>2, <4>8, TagFacts
      <4>10. d = h.first[h.visit[d]] BY <4>3 DEF Begins
      <4>11. h.first[h.visit[e]] <= e BY <2>1, VisitType
      <4> QED BY <2>1, <4>2, <4>7, <4>9, <4>10, <4>11
    <3> QED BY <1>4, <1>5, <3>2, <3>3 DEF PublishingOf
  <2> QED BY <2>5, <2>6
<1>10. ASSUME NEW i \in 1..n, i \in PublishingOf(buf) PROVE \E e \in (h.pub + 1)..h.sent : tags[i] = Tag(e, 7)
  <2>1. PICK e \in (h.pub + 1)..h.sent, k \in 1..7 : tags[i] = Tag(e, k) /\ k \in Kinds(h, e) /\ StoreIs(h, e, k, buf[i]) /\ e \in Nat /\ e \in 1..h.sent
        BY <1>7
  <2>2. buf[i].loc[1] = "tailBlock" \/ (buf[i].loc[1] = "tail" /\ \A j \in (i + 1)..n : buf[j].loc[1] = "tailBlock" => buf[j].val # buf[i].loc[2])
    BY <1>4, <1>10 DEF PublishingOf
  <2>3. k \in {3, 7}
    <3>1. k # 1 BY <2>1, <2>2 DEF StoreIs, Store
    <3>2. k # 2 BY <2>1, <2>2 DEF StoreIs, Store
    <3>4. k # 4 BY <2>1, <2>2 DEF StoreIs, Store
    <3>5. k # 5 BY <2>1, <2>2 DEF StoreIs, Store
    <3>6. k # 6 BY <2>1, <2>2 DEF StoreIs, Fence
    <3> QED BY <3>1, <3>2, <3>4, <3>5, <3>6
  <2>4. ASSUME k = 3 PROVE FALSE
    <3>1. Begins(h, e) BY <2>1, <2>4, KindsFacts
    <3>2. buf[i] = Store(<<"tail", h.block[h.visit[e]]>>, IndexOf(h, h.visit[e], e + 1))
      BY <2>1, <2>4 DEF StoreIs
    <3>3. buf[i].loc[1] = "tail" /\ buf[i].loc[2] = h.block[h.visit[e]] BY <3>2 DEF Store
    <3>4. Tag(e, 7) \in DOMAIN h.S BY <1>3 DEF PendingTags
    <3>5. PICK j \in 1..n : tags[j] = Tag(e, 7) BY <1>6, <3>4
    <3>6. StoreIs(h, e, 7, buf[j])
      <4>1. 7 \in 1..7 OBVIOUS
      <4>2. StoreIs(h, e, 7, h.S[Tag(e, 7)]) BY <1>3, <3>4, <4>1, StoreAt
      <4> QED BY <1>6, <3>5, <4>2
    <3>7. buf[j] = Store(<<"tailBlock">>, h.block[h.visit[e]]) BY <3>1, <3>6 DEF StoreIs
    <3>8. buf[j].loc[1] = "tailBlock" /\ buf[j].val = h.block[h.visit[e]] BY <3>7 DEF Store
    <3>9. tags[i] < tags[j] /\ tags[i] \in Nat /\ tags[j] \in Nat
      <4>1. Tag(e, 3) < Tag(e, 7) /\ Tag(e, 3) \in Nat /\ Tag(e, 7) \in Nat BY <2>1, TagFacts
      <4> QED BY <2>1, <2>4, <3>5, <4>1
    <3>10. i # j /\ ~ (j < i)
      <4>1. ~ (tags[j] < tags[i]) /\ tags[i] # tags[j] BY <3>9
      <4> QED BY <1>6, <4>1
    <3>11. j \in (i + 1)..n BY <1>5, <3>10
    <3> QED BY <2>2, <3>3, <3>8, <3>11
  <2> QED BY <2>1, <2>3, <2>4
<1>11. PublishingOf(buf) \subseteq 1..n BY <1>5 DEF PublishingOf
<1> QED BY <1>4, <1>9, <1>10, <1>11 DEF OfKind

\* So published, which FIFO is about, is pub of the history.
LEMMA PublishedIs ==
  ASSUME NEW h, NEW m, NEW bp, NEW bc, NEW F, NEW s, NEW mask, Whole(h, m, bp, bc, F, s, mask)
  PROVE  h.sent - Cardinality(PublishingOf(bp)) = h.pub
<1>1. Shape(h) /\ Pend(h) /\ Holds(bp, h.S) /\ bp \in Seq(StoreSet) BY WholeParts
<1>2. PICK tags : TagsOf(tags, bp, h.S) BY <1>1, HoldsTags
<1>3. OfKind(PublishingOf(bp), tags, Len(bp), h.pub, h.sent, 7) BY <1>1, <1>2, PublishesLast
<1>4. AllWait(h.S, h.pub, h.sent, 7) BY <1>1 DEF Pend, PendingTags, AllWait
<1>5. h.pub \in Nat /\ h.sent \in Nat /\ h.pub <= h.sent /\ 7 \in 0..7 BY <1>1, ShapeFacts
<1>6. Cardinality(PublishingOf(bp)) = h.sent - h.pub BY <1>1, <1>2, <1>3, <1>4, <1>5, CountTags
<1> QED BY <1>5, <1>6

\* And released is rel: every element taken and not released has a store to a front
\* waiting.
LEMMA ReleasedIs ==
  ASSUME NEW h, NEW m, NEW bp, NEW bc, NEW F, NEW s, NEW mask, Whole(h, m, bp, bc, F, s, mask)
  PROVE  h.got - Cardinality(Pending(bc, "front")) = h.rel
<1>1. Shape(h) /\ PendingFronts(h) /\ Holds(bc, h.R) /\ bc \in Seq(StoreSet) BY WholeParts
<1>2. PICK tags : TagsOf(tags, bc, h.R) BY <1>1, HoldsTags
<1>3. h.rel \in Nat /\ h.got \in Nat /\ h.rel <= h.got /\ 4 \in 0..7 BY <1>1, ShapeFacts
<1>4. PICK n : n = Len(bc) OBVIOUS
<1>5. n \in Nat /\ DOMAIN bc = 1..n BY <1>1, <1>4
<1>6. \A i \in 1..n : tags[i] \in DOMAIN h.R /\ bc[i] = h.R[tags[i]] BY <1>2, <1>4 DEF TagsOf
<1>7. AllWait(h.R, h.rel, h.got, 4) BY <1>1 DEF PendingFronts, AllWait
<1>8. ASSUME NEW i \in 1..n PROVE i \in Pending(bc, "front") <=> \E e \in (h.rel + 1)..h.got : tags[i] = Tag(e, 4)
  <2>1. i \in Pending(bc, "front") <=> bc[i].loc[1] = "front" BY <1>5 DEF Pending
  <2>2. ASSUME NEW e \in (h.rel + 1)..h.got, tags[i] = Tag(e, 4) PROVE bc[i].loc[1] = "front"
    <3>1. h.R[Tag(e, 4)] = Store(<<"front", h.block[h.visit[e]]>>, IndexOf(h, h.visit[e], e + 1))
      BY <1>1 DEF PendingFronts
    <3>2. bc[i] = Store(<<"front", h.block[h.visit[e]]>>, IndexOf(h, h.visit[e], e + 1))
      BY <1>6, <2>2, <3>1
    <3> QED BY <3>2 DEF Store
  <2>3. ASSUME bc[i].loc[1] = "front" PROVE \E e \in (h.rel + 1)..h.got : tags[i] = Tag(e, 4)
    <3>1. PICK t : t = tags[i] OBVIOUS
    <3>2. t \in DOMAIN h.R /\ bc[i] = h.R[t] BY <1>6, <3>1
    <3>3. h.R[t] # Fence BY <2>3, <3>2 DEF Fence
    <3>4. (\E e \in (h.rel + 1)..h.got : t = Tag(e, 4)) \/ (\E v \in (h.freed + 1)..h.front : t = Tag(h.first[v], 2))
      BY <1>1, <3>2, <3>3 DEF PendingFronts
    <3>5. ASSUME NEW v \in (h.freed + 1)..h.front, t = Tag(h.first[v], 2) PROVE FALSE
      <4>1. h.R[Tag(h.first[v], 2)] = Store(<<"frontBlock">>, h.block[v]) BY <1>1 DEF PendingFronts
      <4>2. bc[i] = Store(<<"frontBlock">>, h.block[v]) BY <3>2, <3>5, <4>1
      <4> QED BY <2>3, <4>2 DEF Store
    <3> QED BY <3>1, <3>4, <3>5
  <2> QED BY <2>1, <2>2, <2>3
<1>9. Pending(bc, "front") \subseteq 1..n BY <1>5 DEF Pending
<1>10. OfKind(Pending(bc, "front"), tags, Len(bc), h.rel, h.got, 4) BY <1>4, <1>8, <1>9 DEF OfKind
<1>11. Cardinality(Pending(bc, "front")) = h.got - h.rel BY <1>1, <1>2, <1>3, <1>7, <1>10, CountTags
<1> QED BY <1>3, <1>11
=============================================================================
