----------------------------- MODULE HeapProofs -----------------------------
(***************************************************************************)
(* Theorems about Heap for a memory of any size and any number of          *)
(* processes: types, the order and the length of the free list, and that   *)
(* free blocks, blocks in use, nodes and stacks always divide the memory   *)
(* among them.                                                             *)
(*                                                                         *)
(* The proof is about sets of units.  The lemmas on the free list say      *)
(* which units each operation takes from it or adds to it, and that the    *)
(* pieces stay in order and apart; the invariant HeapInv says that the     *)
(* parts in use are disjoint and have exactly the units that are not free. *)
(***************************************************************************)
EXTENDS Heap, QueueProofs, FiniteSetTheorems

Piece == [addr : Nat, len : Nat \ {0}]

\* Pieces in address order of which no two touch.
FreeList(free) ==
  /\ free \in Seq(Piece)
  /\ \A i, j \in 1..Len(free) :
       i < j => free[i].addr + free[i].len < free[j].addr

-----------------------------------------------------------------------------
(* Units and pieces                                                        *)

LEMMA InUnits ==
  ASSUME NEW a \in Int, NEW n \in Int, NEW u
  PROVE  u \in Units(a, n) <=> u \in Int /\ a <= u /\ u < a + n
BY DEF Units

LEMMA PieceType ==
  ASSUME NEW free, FreeList(free)
  PROVE  /\ Len(free) \in Nat
         /\ \A i \in 1..Len(free) :
              free[i] \in Piece /\ free[i].addr \in Nat /\ free[i].len \in Nat /\ free[i].len > 0
<1>1. Len(free) \in Nat
  BY LenProperties DEF FreeList
<1>2. ASSUME NEW i \in 1..Len(free)
      PROVE  free[i] \in Piece /\ free[i].addr \in Nat /\ free[i].len \in Nat /\ free[i].len > 0
  <2>1. free[i] \in Piece
    BY ElementOfSeq DEF FreeList
  <2> QED BY <2>1 DEF Piece
<1> QED BY <1>1, <1>2

\* u is one of the units of piece i.
Has(free, i, u) == u \in Int /\ free[i].addr <= u /\ u < free[i].addr + free[i].len

LEMMA InFreeUnits ==
  ASSUME NEW free, FreeList(free), NEW u
  PROVE  u \in FreeUnits(free) <=> \E i \in 1..Len(free) : Has(free, i, u)
<1>1. \A i \in 1..Len(free) : u \in Units(free[i].addr, free[i].len) <=> Has(free, i, u)
  BY PieceType, InUnits DEF Has
<1> QED BY <1>1 DEF FreeUnits

\* No unit is in two pieces.
LEMMA PiecesApart ==
  ASSUME NEW free, FreeList(free), NEW i \in 1..Len(free), NEW j \in 1..Len(free),
         NEW u, Has(free, i, u), Has(free, j, u)
  PROVE  i = j
<1>1. /\ i < j => free[i].addr + free[i].len < free[j].addr
      /\ j < i => free[j].addr + free[j].len < free[i].addr
  BY DEF FreeList
<1>2. /\ free[i].addr \in Nat /\ free[i].len \in Nat
      /\ free[j].addr \in Nat /\ free[j].len \in Nat /\ Len(free) \in Nat
  BY PieceType
<1>3. /\ free[i].addr <= u /\ u < free[i].addr + free[i].len
      /\ free[j].addr <= u /\ u < free[j].addr + free[j].len /\ u \in Int
  BY DEF Has
<1> DEFINE a == free[i].addr
           b == free[j].addr
           x == free[i].addr + free[i].len
           y == free[j].addr + free[j].len
<1>4. a \in Int /\ b \in Int /\ x \in Int /\ y \in Int
  BY <1>2
<1>5. ~(x < b) /\ ~(y < a)
  <2>1. a <= u /\ u < x /\ b <= u /\ u < y /\ u \in Int
    BY <1>3
  <2> HIDE DEF a, b, x, y
  <2> QED BY <1>4, <2>1
<1>6. ~(i < j) /\ ~(j < i)
  BY <1>1, <1>5
<1> QED BY <1>2, <1>6

-----------------------------------------------------------------------------
(* What becomes of a free list                                             *)

\* Piece i is replaced by a part of it.
LEMMA Shrunk ==
  ASSUME NEW free, FreeList(free), NEW i \in 1..Len(free), NEW m \in Piece,
         free[i].addr <= m.addr, m.addr + m.len <= free[i].addr + free[i].len
  PROVE  /\ FreeList([free EXCEPT ![i] = m])
         /\ \A u : u \in FreeUnits([free EXCEPT ![i] = m]) <=>
              \/ u \in Units(m.addr, m.len)
              \/ \E j \in 1..Len(free) : j # i /\ Has(free, j, u)
<1> DEFINE F == [free EXCEPT ![i] = m]
<1>1. /\ F \in Seq(Piece) /\ Len(F) = Len(free) /\ F[i] = m
      /\ \A j \in 1..Len(free) : j # i => F[j] = free[j]
  BY ExceptSeq, LenProperties DEF FreeList
<1>2. m.addr \in Nat /\ m.len \in Nat /\ m.len > 0
  BY DEF Piece
<1> HIDE DEF F
<1>3. FreeList(F)
  <2> SUFFICES ASSUME NEW j \in 1..Len(F), NEW k \in 1..Len(F), j < k
               PROVE  F[j].addr + F[j].len < F[k].addr
    BY <1>1 DEF FreeList
  <2>1. free[j].addr + free[j].len < free[k].addr
    BY <1>1 DEF FreeList
  <2>2. /\ free[i].addr \in Nat /\ free[i].len \in Nat /\ free[j].addr \in Nat
        /\ free[j].len \in Nat /\ free[k].addr \in Nat /\ Len(free) \in Nat
    BY <1>1, PieceType
  <2> DEFINE low(x) == x.addr
             length(x) == x.len
  <2>3. /\ low(free[i]) \in Nat /\ length(free[i]) \in Nat
        /\ low(free[j]) \in Nat /\ length(free[j]) \in Nat /\ low(free[k]) \in Nat
        /\ low(m) \in Nat /\ length(m) \in Nat
    BY <1>2, <2>2, Zenon
  <2>4. /\ low(free[i]) <= low(m)
        /\ low(m) + length(m) <= low(free[i]) + length(free[i])
    BY Zenon
  <2>5. low(free[j]) + length(free[j]) < low(free[k])
    BY <2>1, Zenon
  <2>6. CASE j = i
    <3>1. F[j] = m /\ F[k] = free[k]
      BY <1>1, <2>2, <2>6
    <3> HIDE DEF low, length
    <3>2. low(m) + length(m) < low(free[k])
      BY <2>3, <2>6, <2>4, <2>5
    <3> QED BY <3>1, <3>2, Zenon DEF low, length
  <2>7. CASE k = i
    <3>1. F[k] = m /\ F[j] = free[j]
      BY <1>1, <2>2, <2>7
    <3> HIDE DEF low, length
    <3>2. low(free[j]) + length(free[j]) < low(m)
      BY <2>3, <2>7, <2>4, <2>5
    <3> QED BY <3>1, <3>2, Zenon DEF low, length
  <2>8. CASE j # i /\ k # i
    BY <1>1, <2>1, <2>8
  <2> QED BY <2>6, <2>7, <2>8
<1>4. ASSUME NEW u
      PROVE  u \in FreeUnits(F) <=>
               \/ u \in Units(m.addr, m.len)
               \/ \E j \in 1..Len(free) : j # i /\ Has(free, j, u)
  <2>1. u \in FreeUnits(F) <=> \E j \in 1..Len(free) : Has(F, j, u)
    BY <1>1, <1>3, InFreeUnits
  <2>2. Has(F, i, u) <=> u \in Units(m.addr, m.len)
    BY <1>1, <1>2, InUnits DEF Has
  <2>3. \A j \in 1..Len(free) : j # i => (Has(F, j, u) <=> Has(free, j, u))
    BY <1>1 DEF Has
  <2> QED BY <2>1, <2>2, <2>3
<1> QED BY <1>3, <1>4 DEF F

\* Piece i is taken off.
LEMMA Removed ==
  ASSUME NEW free, FreeList(free), NEW i \in 1..Len(free)
  PROVE  /\ FreeList(RemoveAt(free, i))
         /\ \A u : u \in FreeUnits(RemoveAt(free, i)) <=>
              \E j \in 1..Len(free) : j # i /\ Has(free, j, u)
<1> DEFINE F == RemoveAt(free, i)
           at(k) == IF k < i THEN k ELSE k + 1
<1>0. Len(free) \in Nat /\ i \in Int
  BY PieceType
<1>1. /\ F \in Seq(Piece) /\ Len(F) = Len(free) - 1
      /\ \A k \in 1..(Len(free) - 1) : F[k] = IF k < i THEN free[k] ELSE free[k + 1]
  BY RemoveAtProperties DEF FreeList
<1> HIDE DEF F
<1>2. \A k \in 1..Len(F) : F[k] = free[at(k)] /\ at(k) \in 1..Len(free) /\ at(k) # i
  BY <1>0, <1>1
<1>3. \A j, k \in 1..Len(F) : j < k => at(j) < at(k)
  BY <1>0, <1>1
<1>4. \A j \in 1..Len(free) : j # i => \E k \in 1..Len(F) : at(k) = j
  <2> SUFFICES ASSUME NEW j \in 1..Len(free), j # i PROVE \E k \in 1..Len(F) : at(k) = j
    OBVIOUS
  <2>1. CASE j < i
    BY <1>0, <1>1, <2>1
  <2>2. CASE j > i
    <3>1. j - 1 \in 1..Len(F) /\ at(j - 1) = j
      BY <1>0, <1>1, <2>2
    <3> QED BY <3>1
  <2> QED BY <1>0, <2>1, <2>2
<1> HIDE DEF at
<1>5. FreeList(F)
  BY <1>1, <1>2, <1>3 DEF FreeList
<1>6. ASSUME NEW u
      PROVE  u \in FreeUnits(F) <=> \E j \in 1..Len(free) : j # i /\ Has(free, j, u)
  <2>1. \A k \in 1..Len(F) : Has(F, k, u) <=> Has(free, at(k), u)
    BY <1>2 DEF Has
  <2> QED BY <1>2, <1>4, <1>5, <2>1, InFreeUnits
<1> QED BY <1>5, <1>6 DEF F

\* The pieces between j and l are replaced by one piece.
splice(free, j, m, l) == SubSeq(free, 1, j) \o <<m>> \o SubSeq(free, l, Len(free))

LEMMA SpliceProperties ==
  ASSUME NEW free, FreeList(free), NEW j \in 0..Len(free), NEW l \in (j + 1)..(Len(free) + 1),
         NEW m \in Piece
  PROVE  /\ splice(free, j, m, l) \in Seq(Piece)
         /\ Len(splice(free, j, m, l)) = Len(free) + j + 2 - l
         /\ \A k \in 1..(Len(free) + j + 2 - l) :
              splice(free, j, m, l)[k] =
                IF k <= j THEN free[k] ELSE IF k = j + 1 THEN m ELSE free[k + l - j - 2]
<1> DEFINE A == SubSeq(free, 1, j)
           B == SubSeq(free, l, Len(free))
           C == <<m>>
           AC == A \o C
<1>0. free \in Seq(Piece) /\ Len(free) \in Nat /\ j \in Int /\ l \in Int
  BY PieceType DEF FreeList
<1>1. A \in Seq(Piece) /\ Len(A) = j /\ \A k \in 1..j : A[k] = free[k]
  <2>1. \A k \in 1..j : k \in 1..Len(free)
    BY <1>0
  <2>2. CASE j = 0
    <3>1. A = << >>
      BY <1>0, <2>2, SubSeqProperties
    <3> QED BY <2>2, <3>1, EmptySeq
  <2>3. CASE j > 0
    BY <1>0, <2>1, <2>3, SubSeqProperties
  <2> QED BY <1>0, <2>2, <2>3
<1>2. B \in Seq(Piece) /\ Len(B) = Len(free) + 1 - l /\ \A k \in 1..(Len(free) + 1 - l) : B[k] = free[k + l - 1]
  <2>1. CASE l = Len(free) + 1
    <3>1. B = << >>
      BY <1>0, <2>1, SubSeqProperties
    <3>2. \A k \in 1..(Len(free) + 1 - l) : FALSE
      BY <1>0, <2>1
    <3>3. Len(free) + 1 - l = 0
      BY <1>0, <2>1
    <3> QED BY <3>1, <3>2, <3>3, EmptySeq
  <2>2. CASE l <= Len(free)
    <3>1. l \in 1..(Len(free) + 1) /\ Len(free) \in (l - 1)..Len(free)
      BY <1>0, <2>2
    <3> QED BY <1>0, <2>2, <3>1, SubSeqProperties
  <2> QED BY <1>0, <2>1, <2>2
<1>3. C \in Seq(Piece) /\ Len(C) = 1 /\ C[1] = m
  OBVIOUS
<1> HIDE DEF A, B, C
<1>4. /\ AC \in Seq(Piece) /\ Len(AC) = j + 1
      /\ \A k \in 1..(j + 1) : AC[k] = IF k <= j THEN free[k] ELSE m
  <2>1. AC \in Seq(Piece) /\ Len(AC) = Len(A) + Len(C)
        /\ \A k \in 1..(Len(A) + Len(C)) : AC[k] = IF k <= Len(A) THEN A[k] ELSE C[k - Len(A)]
    BY <1>1, <1>3, ConcatProperties
  <2> QED BY <1>0, <1>1, <1>3, <2>1
<1> HIDE DEF AC
<1>5. /\ AC \o B \in Seq(Piece) /\ Len(AC \o B) = Len(AC) + Len(B)
      /\ \A k \in 1..(Len(AC) + Len(B)) :
           (AC \o B)[k] = IF k <= Len(AC) THEN AC[k] ELSE B[k - Len(AC)]
  BY <1>2, <1>4, ConcatProperties
<1>6. Len(AC) + Len(B) = Len(free) + j + 2 - l
  BY <1>0, <1>2, <1>4
<1>7. \A k \in 1..(Len(free) + j + 2 - l) :
        (AC \o B)[k] = IF k <= j THEN free[k] ELSE IF k = j + 1 THEN m ELSE free[k + l - j - 2]
  <2> SUFFICES ASSUME NEW k \in 1..(Len(free) + j + 2 - l)
               PROVE  (AC \o B)[k] = IF k <= j THEN free[k] ELSE IF k = j + 1 THEN m ELSE free[k + l - j - 2]
    OBVIOUS
  <2>0. k \in Int
    BY <1>0
  <2>1. CASE k <= j + 1
    BY <1>0, <1>4, <1>5, <1>6, <2>1
  <2>2. CASE k > j + 1
    <3>1. (AC \o B)[k] = B[k - (j + 1)]
      BY <1>0, <1>4, <1>5, <1>6, <2>2
    <3>2. k - (j + 1) \in 1..(Len(free) + 1 - l) /\ k - (j + 1) + l - 1 = k + l - j - 2
      BY <1>0, <2>2
    <3>3. B[k - (j + 1)] = free[k - (j + 1) + l - 1]
      BY <1>2, <3>2
    <3>4. ~(k <= j) /\ k # j + 1
      BY <1>0, <2>0, <2>2
    <3> QED BY <3>1, <3>2, <3>3, <3>4
  <2>3. k <= j + 1 \/ k > j + 1
    BY <1>0, <2>0
  <2> QED BY <2>1, <2>2, <2>3
<1> QED BY <1>5, <1>6, <1>7 DEF A, B, C, AC, splice

LEMMA Spliced ==
  ASSUME NEW free, FreeList(free), NEW j \in 0..Len(free), NEW l \in (j + 1)..(Len(free) + 1),
         NEW m \in Piece,
         \A i \in 1..Len(free) : i <= j => free[i].addr + free[i].len < m.addr,
         \A i \in 1..Len(free) : l <= i => m.addr + m.len < free[i].addr
  PROVE  /\ FreeList(splice(free, j, m, l))
         /\ \A u : u \in FreeUnits(splice(free, j, m, l)) <=>
              \/ u \in Units(m.addr, m.len)
              \/ \E i \in 1..Len(free) : (i <= j \/ l <= i) /\ Has(free, i, u)
<1> DEFINE F == splice(free, j, m, l)
           at(k) == IF k <= j THEN k ELSE k + l - j - 2
<1>0. Len(free) \in Nat /\ j \in Int /\ l \in Int /\ m.addr \in Nat /\ m.len \in Nat /\ m.len > 0
  BY PieceType DEF Piece
<1>1. /\ F \in Seq(Piece) /\ Len(F) = Len(free) + j + 2 - l
      /\ \A k \in 1..(Len(free) + j + 2 - l) :
           F[k] = IF k <= j THEN free[k] ELSE IF k = j + 1 THEN m ELSE free[k + l - j - 2]
  BY SpliceProperties
<1> HIDE DEF F
<1>2. j + 1 \in 1..Len(F) /\ F[j + 1] = m
  <2>1. j + 1 \in 1..(Len(free) + j + 2 - l) /\ ~(j + 1 <= j)
    BY <1>0
  <2> QED BY <1>1, <2>1
<1>3. \A k \in 1..Len(F) : k # j + 1 =>
        /\ F[k] = free[at(k)] /\ at(k) \in 1..Len(free)
        /\ k < j + 1 => at(k) <= j
        /\ k > j + 1 => l <= at(k)
  BY <1>0, <1>1
<1>4. \A i \in 1..Len(free) : (i <= j \/ l <= i) =>
        \E k \in 1..Len(F) : k # j + 1 /\ at(k) = i
  <2> SUFFICES ASSUME NEW i \in 1..Len(free), i <= j \/ l <= i
               PROVE  \E k \in 1..Len(F) : k # j + 1 /\ at(k) = i
    OBVIOUS
  <2>1. CASE i <= j
    <3>1. i \in 1..Len(F) /\ i # j + 1 /\ at(i) = i
      BY <1>0, <1>1, <2>1
    <3> QED BY <3>1
  <2>2. CASE l <= i
    <3>1. i + j + 2 - l \in 1..Len(F) /\ i + j + 2 - l # j + 1 /\ at(i + j + 2 - l) = i
      BY <1>0, <1>1, <2>2
    <3> QED BY <3>1
  <2> QED BY <2>1, <2>2
<1>5. \A h, k \in 1..Len(F) : h < k /\ h # j + 1 /\ k # j + 1 => at(h) < at(k)
  <2> SUFFICES ASSUME NEW h \in 1..Len(F), NEW k \in 1..Len(F), h < k, h # j + 1, k # j + 1
               PROVE  at(h) < at(k)
    BY DEF at
  <2>1. h \in Int /\ k \in Int
    BY <1>0, <1>1
  <2>2. j \in Int /\ l \in Int /\ l >= j + 1
    BY <1>0
  <2>3. CASE k <= j
    BY <2>1, <2>2, <2>3
  <2>4. CASE h <= j /\ j + 1 < k
    BY <2>1, <2>2, <2>4
  <2>5. CASE j < h
    BY <2>1, <2>2, <2>5
  <2>6. k <= j \/ (h <= j /\ j + 1 < k) \/ j < h
    BY <2>1, <2>2
  <2> QED BY <2>3, <2>4, <2>5, <2>6
<1> HIDE DEF at
<1>6. FreeList(F)
  <2> SUFFICES ASSUME NEW h \in 1..Len(F), NEW k \in 1..Len(F), h < k
               PROVE  F[h].addr + F[h].len < F[k].addr
    BY <1>1 DEF FreeList
  <2>1. CASE h = j + 1
    <3>1. F[k] = free[at(k)] /\ at(k) \in 1..Len(free) /\ l <= at(k)
      BY <1>0, <1>1, <1>3, <2>1
    <3> QED BY <1>2, <2>1, <3>1
  <2>2. CASE k = j + 1
    <3>1. F[h] = free[at(h)] /\ at(h) \in 1..Len(free) /\ at(h) <= j
      BY <1>0, <1>1, <1>3, <2>2
    <3> QED BY <1>2, <2>2, <3>1
  <2>3. CASE h # j + 1 /\ k # j + 1
    <3>1. at(h) < at(k) /\ at(h) \in 1..Len(free) /\ at(k) \in 1..Len(free)
      BY <1>3, <1>5, <2>3
    <3>2. free[at(h)].addr + free[at(h)].len < free[at(k)].addr
      BY <3>1 DEF FreeList
    <3> QED BY <1>3, <2>3, <3>2
  <2> QED BY <2>1, <2>2, <2>3
<1>7. ASSUME NEW u
      PROVE  u \in FreeUnits(F) <=>
               \/ u \in Units(m.addr, m.len)
               \/ \E i \in 1..Len(free) : (i <= j \/ l <= i) /\ Has(free, i, u)
  <2>1. u \in FreeUnits(F) <=> \E k \in 1..Len(F) : Has(F, k, u)
    BY <1>6, InFreeUnits
  <2>2. Has(F, j + 1, u) <=> u \in Units(m.addr, m.len)
    BY <1>0, <1>2, InUnits DEF Has
  <2>3. \A k \in 1..Len(F) : k # j + 1 => (Has(F, k, u) <=> Has(free, at(k), u))
    BY <1>3 DEF Has
  <2>4. \A k \in 1..Len(F) : k # j + 1 => at(k) \in 1..Len(free) /\ (at(k) <= j \/ l <= at(k))
    BY <1>0, <1>1, <1>3
  <2> QED BY <1>2, <1>4, <2>1, <2>2, <2>3, <2>4
<1> QED BY <1>6, <1>7 DEF F

-----------------------------------------------------------------------------
(* getmem() and getstk()                                                   *)

LEMMA LowestIn ==
  ASSUME NEW S \in SUBSET Nat, S # {}
  PROVE  Lowest(S) \in S /\ \A j \in S : Lowest(S) <= j
<1>1. \E x \in S : \A y \in S : x <= y
  BY LeastNat
<1> QED BY <1>1 DEF Lowest

LEMMA HighestIn ==
  ASSUME NEW N \in Nat, NEW S \in SUBSET (1..N), S # {}
  PROVE  Highest(S) \in S /\ \A j \in S : j <= Highest(S)
<1> DEFINE T == {x \in Nat : N - x \in S}
<1>1. T # {} /\ T \in SUBSET Nat
  <2>1. PICK y \in S : TRUE
    OBVIOUS
  <2>2. N - y \in Nat /\ N - (N - y) = y
    OBVIOUS
  <2>3. N - y \in T
    BY <2>1, <2>2
  <2> QED BY <2>3
<1>2. PICK x \in T : \A y \in T : x <= y
  BY <1>1, LeastNat
<1>3. \A j \in S : j <= N - x
  <2> SUFFICES ASSUME NEW j \in S PROVE j <= N - x
    OBVIOUS
  <2>1. N - j \in Nat /\ N - (N - j) = j
    OBVIOUS
  <2>2. N - j \in T
    BY <2>1
  <2>3. x <= N - j
    BY <1>2, <2>2
  <2> QED BY <1>2, <2>3
<1>4. \E i \in S : \A j \in S : j <= i
  BY <1>2, <1>3
<1> QED BY <1>4 DEF Highest

\* What it means that n units from address a on are taken from a free list.
Takes(free, a, n, F) ==
  /\ FreeList(F)
  /\ \A u \in Units(a, n) : u \in FreeUnits(free)
  /\ \A u : u \in FreeUnits(F) <=> u \in FreeUnits(free) /\ u \notin Units(a, n)

\* They are a whole piece.
LEMMA TakesPiece ==
  ASSUME NEW free, FreeList(free), NEW i \in 1..Len(free)
  PROVE  Takes(free, free[i].addr, free[i].len, RemoveAt(free, i))
<1> DEFINE F == RemoveAt(free, i)
           P == Units(free[i].addr, free[i].len)
<1>1. \A u : u \in P <=> Has(free, i, u)
  BY PieceType, InUnits DEF Has
<1>2. FreeList(F) /\ \A u : u \in FreeUnits(F) <=> \E j \in 1..Len(free) : j # i /\ Has(free, j, u)
  BY Removed
<1>3. \A u : u \in FreeUnits(free) <=> \E j \in 1..Len(free) : Has(free, j, u)
  BY InFreeUnits
<1>4. \A j \in 1..Len(free) : \A u : Has(free, i, u) /\ Has(free, j, u) => i = j
  BY PiecesApart
<1> HIDE DEF F, P
<1>5. \A u \in P : u \in FreeUnits(free)
  BY <1>1, <1>3
<1>6. \A u : u \in FreeUnits(F) <=> u \in FreeUnits(free) /\ u \notin P
  BY <1>1, <1>2, <1>3, <1>4
<1> QED BY <1>2, <1>5, <1>6 DEF F, P, Takes

\* They are one end of a piece of which m remains.
LEMMA TakesEnd ==
  ASSUME NEW free, FreeList(free), NEW i \in 1..Len(free),
         NEW a \in Nat, NEW n \in Nat \ {0}, NEW b \in Nat, NEW k \in Nat \ {0},
         NEW m, m = [addr |-> b, len |-> k], free[i].len = k + n,
         \/ a = free[i].addr /\ b = a + n
         \/ b = free[i].addr /\ a = b + k
  PROVE  Takes(free, a, n, [free EXCEPT ![i] = m])
<1> DEFINE F == [free EXCEPT ![i] = m]
<1> HIDE DEF F
<1>0. free[i].addr \in Nat /\ free[i].len \in Nat
  BY PieceType
<1>1. \A u : u \in Units(a, n) <=> u \in Int /\ a <= u /\ u < a + n
  BY InUnits
<1>2. \A u : u \in Units(b, k) <=> u \in Int /\ b <= u /\ u < b + k
  BY InUnits
<1>3. ASSUME NEW u
      PROVE  Has(free, i, u) <=> u \in Units(a, n) \/ u \in Units(b, k)
  <2> DEFINE x == free[i].addr
             y == free[i].len
  <2>1. Has(free, i, u) <=> u \in Int /\ x <= u /\ u < x + y
    BY DEF Has
  <2>2. x \in Nat /\ y = k + n /\ ((a = x /\ b = a + n) \/ (b = x /\ a = b + k))
    BY <1>0
  <2> HIDE DEF x, y
  <2>3. CASE a = x /\ b = a + n
    BY <1>1, <1>2, <2>1, <2>2, <2>3
  <2>4. CASE b = x /\ a = b + k
    BY <1>1, <1>2, <2>1, <2>2, <2>4
  <2> QED BY <2>2, <2>3, <2>4
<1>4. ASSUME NEW u
      PROVE  ~(u \in Units(a, n) /\ u \in Units(b, k))
  BY <1>0, <1>1, <1>2
<1>5. /\ FreeList(F)
      /\ \A u : u \in FreeUnits(F) <=>
           \/ u \in Units(b, k)
           \/ \E j \in 1..Len(free) : j # i /\ Has(free, j, u)
  <2>1. free[i].addr <= b /\ b + k <= free[i].addr + free[i].len
    <3>1. CASE a = free[i].addr /\ b = a + n
      BY <1>0, <3>1
    <3>2. CASE b = free[i].addr /\ a = b + k
      BY <1>0, <3>2
    <3> QED BY <3>1, <3>2
  <2>2. m \in Piece /\ m.addr = b /\ m.len = k
    BY DEF Piece
  <2> QED BY <2>1, <2>2, Shrunk DEF F
<1>6. \A u : u \in FreeUnits(free) <=> \E j \in 1..Len(free) : Has(free, j, u)
  BY InFreeUnits
<1>7. \A j \in 1..Len(free) : \A u : Has(free, i, u) /\ Has(free, j, u) => i = j
  BY PiecesApart
<1>8. \A u \in Units(a, n) : u \in FreeUnits(free)
  BY <1>3, <1>6
<1>9. \A u : u \in FreeUnits(F) <=> u \in FreeUnits(free) /\ u \notin Units(a, n)
  BY <1>3, <1>4, <1>5, <1>6, <1>7
<1> QED BY <1>5, <1>8, <1>9 DEF F, Takes

\* getmem() takes n free units, and so does getstk().
LEMMA Allocated ==
  ASSUME NEW free, FreeList(free), NEW n \in Nat \ {0}, Fits(free, n) # {}
  PROVE  allocaddr(free, n) \in Nat /\ Takes(free, allocaddr(free, n), n, alloc(free, n))
<1> DEFINE i == Lowest(Fits(free, n))
<1>1. i \in 1..Len(free) /\ free[i].len >= n
  <2>1. Fits(free, n) \in SUBSET Nat
    BY PieceType DEF Fits
  <2>2. i \in Fits(free, n)
    BY <2>1, LowestIn
  <2> QED BY <2>2 DEF Fits
<1> HIDE DEF i
<1>2. free[i].addr \in Nat /\ free[i].len \in Nat
  BY <1>1, PieceType
<1>3. CASE free[i].len = n
  <2>1. Takes(free, free[i].addr, n, RemoveAt(free, i))
    BY <1>1, <1>3, TakesPiece
  <2> QED BY <1>2, <1>3, <2>1 DEF alloc, allocaddr, i
<1>4. CASE free[i].len # n
  <2> DEFINE m == [addr |-> free[i].addr + n, len |-> free[i].len - n]
           b == free[i].addr + n
           k == free[i].len - n
  <2>1. b \in Nat /\ k \in Nat \ {0} /\ free[i].len = k + n /\ m = [addr |-> b, len |-> k]
    BY <1>1, <1>2, <1>4
  <2> HIDE DEF m, k
  <2>2. Takes(free, free[i].addr, n, [free EXCEPT ![i] = m])
    BY <1>1, <1>2, <2>1, TakesEnd
  <2>3. alloc(free, n) = [free EXCEPT ![i] = m]
    BY <1>4 DEF alloc, i, m
  <2> QED BY <1>2, <2>2, <2>3 DEF allocaddr, i
<1> QED BY <1>3, <1>4

LEMMA StackAllocated ==
  ASSUME NEW free, FreeList(free), NEW n \in Nat \ {0}, Fits(free, n) # {}
  PROVE  stkaddr(free, n) \in Nat /\ Takes(free, stkaddr(free, n), n, allocstk(free, n))
<1> DEFINE i == Highest(Fits(free, n))
<1>1. i \in 1..Len(free) /\ free[i].len >= n
  <2>1. Fits(free, n) \in SUBSET (1..Len(free)) /\ Len(free) \in Nat
    BY PieceType DEF Fits
  <2>2. i \in Fits(free, n)
    BY <2>1, HighestIn
  <2> QED BY <2>2 DEF Fits
<1> HIDE DEF i
<1>2. free[i].addr \in Nat /\ free[i].len \in Nat /\ free[i] \in Piece
  BY <1>1, PieceType
<1>3. CASE free[i].len = n
  <2>1. Takes(free, free[i].addr, n, RemoveAt(free, i))
    BY <1>1, <1>3, TakesPiece
  <2>2. stkaddr(free, n) = free[i].addr
    BY <1>2, <1>3 DEF stkaddr, i
  <2> QED BY <1>2, <1>3, <2>1, <2>2 DEF allocstk, i
<1>4. CASE free[i].len # n
  <2> DEFINE m == [addr |-> free[i].addr, len |-> free[i].len - n]
             b == free[i].addr
             k == free[i].len - n
             a == b + k
  <2>1. k \in Nat \ {0} /\ free[i].len = k + n /\ m = [addr |-> b, len |-> k]
    BY <1>1, <1>2, <1>4
  <2>2. a \in Nat /\ stkaddr(free, n) = a
    BY <1>1, <1>2, <2>1 DEF stkaddr, i
  <2>3. [free[i] EXCEPT !.len = @ - n] = m
    BY <1>2 DEF Piece
  <2>4. allocstk(free, n) = [free EXCEPT ![i] = m]
    BY <1>4, <2>3, Zenon DEF allocstk, i
  <2> HIDE DEF m, k
  <2>5. Takes(free, a, n, [free EXCEPT ![i] = m])
    BY <1>1, <1>2, <2>1, <2>2, TakesEnd
  <2> QED BY <2>2, <2>4, <2>5
<1> QED BY <1>3, <1>4

-----------------------------------------------------------------------------
(* freemem()                                                               *)

\* The walk of freemem() stops between the blocks below a and those above.
LEMMA BelowStops ==
  ASSUME NEW free, FreeList(free), NEW a \in Nat
  PROVE  /\ below(free, a) \in 0..Len(free)
         /\ \A i \in 1..Len(free) : i <= below(free, a) => free[i].addr < a
         /\ \A i \in 1..Len(free) : i > below(free, a) => a <= free[i].addr
<1> DEFINE S == {i \in 0..Len(free) : i < Len(free) => free[i + 1].addr >= a}
           k == Lowest(S)
<1>0. Len(free) \in Nat
  BY PieceType
<1>1. k \in S /\ \A j \in S : k <= j
  <2>1. Len(free) \in S /\ S \in SUBSET Nat
    BY <1>0
  <2> HIDE DEF S
  <2> QED BY <2>1, LowestIn
<1>2. k \in 0..Len(free) /\ (k < Len(free) => free[k + 1].addr >= a)
  BY <1>1
<1>5. \A j : j \in 0..Len(free) /\ j < Len(free) /\ ~(k <= j) => ~(free[j + 1].addr >= a)
  BY <1>1
<1> HIDE DEF k, S
<1>3. ASSUME NEW i \in 1..Len(free), i <= k PROVE free[i].addr < a
  <2>1. i - 1 \in 0..Len(free) /\ i - 1 < Len(free) /\ ~(k <= i - 1) /\ (i - 1) + 1 = i
    BY <1>0, <1>2, <1>3
  <2>3. ~(free[i].addr >= a)
    BY <1>5, <2>1
  <2>4. free[i].addr \in Nat
    BY PieceType
  <2> QED BY <2>3, <2>4
<1>4. ASSUME NEW i \in 1..Len(free), i > k PROVE a <= free[i].addr
  <2>1. k + 1 \in 1..Len(free) /\ k \in Int
    BY <1>0, <1>2, <1>4
  <2>2. a <= free[k + 1].addr
    BY <1>0, <1>2, <1>4, <2>1, PieceType
  <2>3. CASE i = k + 1
    BY <2>2, <2>3
  <2>4. CASE k + 1 < i
    <3>1. free[k + 1].addr + free[k + 1].len < free[i].addr
      BY <2>1, <2>4 DEF FreeList
    <3>2. free[k + 1].addr \in Nat /\ free[k + 1].len \in Nat /\ free[i].addr \in Nat
      BY <2>1, PieceType
    <3> DEFINE x == free[k + 1].addr
               y == free[k + 1].len
               z == free[i].addr
    <3>3. a <= x /\ x + y < z /\ x \in Nat /\ y \in Nat /\ z \in Nat
      BY <2>2, <3>1, <3>2
    <3> HIDE DEF x, y, z
    <3>4. a <= z
      BY <3>3
    <3> QED BY <3>4 DEF z
  <2>5. i = k + 1 \/ k + 1 < i
    BY <1>0, <1>4, <2>1
  <2> QED BY <2>3, <2>4, <2>5
<1> QED BY <1>2, <1>3, <1>4 DEF below, k, S

\* freemem() gives n units back which were not free.
LEMMA Deallocated ==
  ASSUME NEW free, FreeList(free), NEW a \in Nat, NEW n \in Nat \ {0},
         \A u \in Units(a, n) : u \notin FreeUnits(free)
  PROVE  /\ FreeList(dealloc(free, a, n))
         /\ \A u : u \in FreeUnits(dealloc(free, a, n)) <=>
              u \in FreeUnits(free) \/ u \in Units(a, n)
<1> DEFINE k == below(free, a)
           block == [addr |-> a, len |-> n]
           joinprev == k > 0 /\ Adjacent(free[k], block)
           mid == IF joinprev THEN Merge(free[k], block) ELSE block
           joinnext == k < Len(free) /\ Adjacent(mid, free[k + 1])
           m == IF joinnext THEN Merge(mid, free[k + 1]) ELSE mid
           j == IF joinprev THEN k - 1 ELSE k
           l == IF joinnext THEN k + 2 ELSE k + 1
<1>1. dealloc(free, a, n) = splice(free, j, m, l)
  BY Zenon DEF dealloc, splice
<1>2. /\ Len(free) \in Nat /\ k \in 0..Len(free) /\ n > 0
      /\ \A i \in 1..Len(free) : i <= k => free[i].addr < a
      /\ \A i \in 1..Len(free) : i > k => a <= free[i].addr
  <2>1. n > 0
    OBVIOUS
  <2>2. Len(free) \in Nat
    BY PieceType
  <2> QED BY <2>1, <2>2, BelowStops, Zenon
<1> HIDE DEF k
<1>3. \A i \in 1..Len(free) : free[i].addr \in Nat /\ free[i].len \in Nat /\ free[i].len > 0
  BY PieceType
<1>4. ASSUME NEW u, u \in Int, a <= u, u < a + n, NEW i \in 1..Len(free)
      PROVE  ~Has(free, i, u)
  <2>1. u \in Units(a, n)
    BY <1>4, InUnits
  <2>2. u \notin FreeUnits(free)
    BY <2>1
  <2> QED BY <2>2, InFreeUnits
<1>5. ASSUME NEW i \in 1..Len(free), i <= k
      PROVE  free[i].addr + free[i].len <= a
  <2>0. a \in Int /\ a <= a /\ a < a + n
    BY <1>2
  <2>1. ~Has(free, i, a)
    BY <1>4, <2>0
  <2> QED BY <1>2, <1>3, <1>5, <2>1 DEF Has
<1>6. ASSUME NEW i \in 1..Len(free), i > k
      PROVE  a + n <= free[i].addr
  <2>1. a <= free[i].addr /\ free[i].addr \in Int /\ free[i].len > 0 /\ free[i].len \in Nat
    BY <1>2, <1>3, <1>6
  <2>2. free[i].addr < a + n => ~Has(free, i, free[i].addr)
    BY <1>4, <2>1
  <2> QED BY <2>1, <2>2 DEF Has
<1>7. \A h, i \in 1..Len(free) : h < i => free[h].addr + free[h].len < free[i].addr
  BY DEF FreeList
<1>8. /\ joinprev => /\ k \in 1..Len(free) /\ free[k].addr + free[k].len = a
                     /\ mid = [addr |-> free[k].addr, len |-> free[k].len + n]
      /\ ~joinprev => /\ mid = [addr |-> a, len |-> n]
                      /\ k \in 1..Len(free) => free[k].addr + free[k].len # a
  BY <1>2 DEF Adjacent, Merge
<1> DEFINE b == mid.addr
           c == mid.len
<1>9. /\ b \in Nat /\ c \in Nat /\ b + c = a + n /\ c > 0
      /\ joinprev => k \in 1..Len(free) /\ b = free[k].addr /\ free[k].addr + free[k].len = a
      /\ ~joinprev => b = a /\ (k \in 1..Len(free) => free[k].addr + free[k].len # a)
  <2>1. CASE joinprev
    BY <1>2, <1>3, <1>8, <2>1
  <2>2. CASE ~joinprev
    BY <1>8, <2>2
  <2> QED BY <2>1, <2>2
<1>10. /\ joinnext => /\ k + 1 \in 1..Len(free) /\ b + c = free[k + 1].addr
                      /\ m = [addr |-> b, len |-> c + free[k + 1].len]
       /\ ~joinnext => /\ m = mid
                       /\ k + 1 \in 1..Len(free) => b + c # free[k + 1].addr
  BY <1>2 DEF Adjacent, Merge
<1> DEFINE d == m.addr
           e == m.len
<1>11. /\ d = b /\ e \in Nat \ {0} /\ m \in Piece
       /\ joinnext => k + 1 \in 1..Len(free) /\ a + n = free[k + 1].addr /\ d + e = free[k + 1].addr + free[k + 1].len
       /\ ~joinnext => d + e = a + n /\ (k + 1 \in 1..Len(free) => a + n # free[k + 1].addr)
  <2>1. CASE joinnext
    <3>1. m = [addr |-> b, len |-> c + free[k + 1].len] /\ free[k + 1].len \in Nat
          /\ k + 1 \in 1..Len(free) /\ b + c = free[k + 1].addr
      BY <1>3, <1>10, <2>1
    <3>2. m.addr = b /\ m.len = c + free[k + 1].len /\ c + free[k + 1].len \in Nat \ {0}
      <4>1. c \in Nat /\ c > 0 /\ free[k + 1].len \in Nat
        BY <1>9, <3>1
      <4> HIDE DEF b, c, m
      <4>2. c + free[k + 1].len \in Nat \ {0}
        BY <4>1
      <4>3. m.addr = b /\ m.len = c + free[k + 1].len
        BY <3>1
      <4> QED BY <4>2, <4>3
    <3>3. m \in Piece
      BY <1>9, <3>1, <3>2 DEF Piece
    <3>4. d + e = (b + c) + free[k + 1].len
      <4>1. d = b /\ e = c + free[k + 1].len /\ b \in Nat /\ c \in Nat /\ free[k + 1].len \in Nat
        BY <1>9, <3>1, <3>2
      <4> HIDE DEF b, c, d, e, m
      <4> QED BY <4>1
    <3> QED BY <1>9, <2>1, <3>1, <3>2, <3>3, <3>4
  <2>2. CASE ~joinnext
    <3>1. m = mid
      BY <1>10, <2>2
    <3>2. m \in Piece
      BY <1>3, <1>8, <1>9, <3>1 DEF Piece
    <3> QED BY <1>9, <1>10, <2>2, <3>1, <3>2
  <2> QED BY <2>1, <2>2
<1> HIDE DEF m, mid, joinprev, joinnext, b, c, d, e
<1>12. \A i \in 1..Len(free) : i <= j => free[i].addr + free[i].len < d
  <2> SUFFICES ASSUME NEW i \in 1..Len(free), i <= j PROVE free[i].addr + free[i].len < d
    OBVIOUS
  <2>0. i \in Int /\ k \in Int /\ free[i].addr \in Nat /\ free[i].len \in Nat
    BY <1>2, <1>3
  <2>1. CASE joinprev
    <3>1. k \in 1..Len(free) /\ d = free[k].addr /\ i < k
      BY <1>9, <1>11, <2>0, <2>1
    <3> QED BY <1>7, <3>1
  <2>2. CASE ~joinprev
    <3>1. d = a /\ i <= k /\ free[i].addr + free[i].len <= a
      BY <1>5, <1>9, <1>11, <2>0, <2>2
    <3>2. CASE i = k
      BY <1>9, <2>0, <2>2, <3>1, <3>2
    <3>3. CASE i < k
      <4>1. k \in 1..Len(free) /\ free[k].addr \in Nat
        BY <1>2, <1>3, <2>0, <3>3
      <4>2. free[i].addr + free[i].len < free[k].addr /\ free[k].addr < a
        BY <1>2, <1>7, <2>0, <3>3, <4>1
      <4> QED BY <2>0, <3>1, <4>1, <4>2
    <3> QED BY <2>0, <3>1, <3>2, <3>3
  <2> QED BY <2>1, <2>2
<1>13. \A i \in 1..Len(free) : l <= i => d + e < free[i].addr
  <2> SUFFICES ASSUME NEW i \in 1..Len(free), l <= i PROVE d + e < free[i].addr
    OBVIOUS
  <2>0. i \in Int /\ k \in Int /\ free[i].addr \in Nat /\ free[i].len \in Nat /\ d \in Nat /\ e \in Nat
    BY <1>2, <1>3, <1>9, <1>11
  <2>1. CASE joinnext
    <3>1. k + 1 \in 1..Len(free) /\ d + e = free[k + 1].addr + free[k + 1].len /\ k + 1 < i
      BY <1>11, <2>0, <2>1
    <3> QED BY <1>7, <3>1
  <2>2. CASE ~joinnext
    <3>1. d + e = a + n /\ k + 1 <= i /\ k < i
      BY <1>11, <2>0, <2>2
    <3>2. a + n <= free[i].addr
      BY <1>6, <3>1
    <3>3. CASE i = k + 1
      <4>1. a + n # free[i].addr
        BY <1>11, <2>2, <3>3
      <4> QED BY <2>0, <3>1, <3>2, <4>1
    <3>4. CASE k + 1 < i
      <4>1. k + 1 \in 1..Len(free) /\ k + 1 > k
        BY <1>2, <2>0, <3>4
      <4>2. /\ a + n <= free[k + 1].addr /\ free[k + 1].addr \in Nat /\ free[k + 1].len \in Nat
            /\ free[k + 1].len > 0 /\ free[k + 1].addr + free[k + 1].len < free[i].addr
        BY <1>3, <1>6, <1>7, <3>4, <4>1
      <4> QED BY <2>0, <3>1, <4>2
    <3> QED BY <2>0, <3>1, <3>3, <3>4
  <2> QED BY <2>1, <2>2
<1>14. j \in 0..Len(free) /\ l \in (j + 1)..(Len(free) + 1)
  BY <1>2, <1>9, <1>11
<1>15. /\ FreeList(splice(free, j, m, l))
       /\ \A u : u \in FreeUnits(splice(free, j, m, l)) <=>
            \/ u \in Units(d, e)
            \/ \E i \in 1..Len(free) : (i <= j \/ l <= i) /\ Has(free, i, u)
  <2> HIDE DEF j, l
  <2> QED BY <1>11, <1>12, <1>13, <1>14, Spliced DEF d, e
<1>16. ASSUME NEW u
       PROVE  u \in Units(d, e) <=> \/ u \in Units(a, n)
                                    \/ joinprev /\ Has(free, k, u)
                                    \/ joinnext /\ Has(free, k + 1, u)
  <2>1. u \in Units(d, e) <=> u \in Int /\ d <= u /\ u < d + e
    BY <1>9, <1>11, InUnits
  <2>2. u \in Units(a, n) <=> u \in Int /\ a <= u /\ u < a + n
    BY InUnits
  <2>3. ASSUME joinprev
        PROVE  /\ Has(free, k, u) <=> u \in Int /\ d <= u /\ u < a
               /\ d \in Nat /\ d < a
    <3>1. k \in 1..Len(free) /\ d = free[k].addr /\ free[k].addr + free[k].len = a
      BY <1>9, <1>11, <2>3
    <3>2. free[k].addr \in Nat /\ free[k].len \in Nat /\ free[k].len > 0
      BY <1>3, <3>1
    <3> QED BY <3>1, <3>2 DEF Has
  <2>4. ~joinprev => d = a
    BY <1>9, <1>11
  <2>5. ASSUME joinnext
        PROVE  /\ Has(free, k + 1, u) <=> u \in Int /\ a + n <= u /\ u < d + e
               /\ d + e \in Nat /\ a + n < d + e
    <3>1. /\ k + 1 \in 1..Len(free) /\ a + n = free[k + 1].addr
          /\ d + e = free[k + 1].addr + free[k + 1].len
      BY <1>11, <2>5
    <3>2. free[k + 1].addr \in Nat /\ free[k + 1].len \in Nat /\ free[k + 1].len > 0
      BY <1>3, <3>1
    <3> QED BY <3>1, <3>2 DEF Has
  <2>6. ~joinnext => d + e = a + n
    BY <1>11
  <2>7. CASE joinprev /\ joinnext
    BY <2>1, <2>2, <2>3, <2>5, <2>7
  <2>8. CASE joinprev /\ ~joinnext
    BY <2>1, <2>2, <2>3, <2>6, <2>8
  <2>9. CASE ~joinprev /\ joinnext
    BY <2>1, <2>2, <2>4, <2>5, <2>9
  <2>10. CASE ~joinprev /\ ~joinnext
    BY <2>1, <2>2, <2>4, <2>6, <2>10
  <2> QED BY <2>7, <2>8, <2>9, <2>10
<1>17. \A i \in 1..Len(free) : i <= j \/ l <= i \/ (joinprev /\ i = k) \/ (joinnext /\ i = k + 1)
  BY <1>2
<1>18. (joinprev => k \in 1..Len(free)) /\ (joinnext => k + 1 \in 1..Len(free))
  BY <1>9, <1>11
<1> HIDE DEF j, l
<1>19. \A u : u \in FreeUnits(splice(free, j, m, l)) <=> u \in FreeUnits(free) \/ u \in Units(a, n)
  <2>1. \A u : u \in FreeUnits(free) <=> \E i \in 1..Len(free) : Has(free, i, u)
    BY InFreeUnits
  <2> QED BY <1>15, <1>16, <1>17, <1>18, <2>1
<1> QED BY <1>1, <1>15, <1>19

-----------------------------------------------------------------------------
(* The parts of the memory                                                 *)

LEMMA ExtentOf ==
  ASSUME NEW what, NEW a, NEW n, NEW id
  PROVE  Extent(Region(what, a, n, id)) = Units(a, n)
BY DEF Region, Extent

LEMMA SameRegion ==
  ASSUME NEW v, NEW a, NEW n, NEW x, NEW w, NEW b, NEW m, NEW y,
         Region(v, a, n, x) = Region(w, b, m, y)
  PROVE  v = w /\ a = b /\ n = m /\ x = y
BY DEF Region

\* The regions of U and the units of F divide the memory among them.
Tiling(U, F) ==
  /\ \A r, s \in U : r # s => Extent(r) \cap Extent(s) = {}
  /\ \A r \in U : Extent(r) \cap F = {}
  /\ \A u : u \in 1..HeapSize <=> u \in F \/ \E r \in U : u \in Extent(r)

LEMMA TilingTake ==
  ASSUME NEW U, NEW F, Tiling(U, F), NEW r, NEW G,
         \A u \in Extent(r) : u \in F,
         \A u : u \in G <=> u \in F /\ u \notin Extent(r)
  PROVE  Tiling(U \cup {r}, G)
<1>1. \A s \in U \cup {r} : Extent(s) \cap G = {}
  BY DEF Tiling
<1>2. \A s \in U : Extent(s) \cap Extent(r) = {}
  BY DEF Tiling
<1>3. \A s, t \in U \cup {r} : s # t => Extent(s) \cap Extent(t) = {}
  <2> SUFFICES ASSUME NEW s \in U \cup {r}, NEW t \in U \cup {r}, s # t
               PROVE  Extent(s) \cap Extent(t) = {}
    OBVIOUS
  <2>1. CASE s \in U /\ t \in U
    BY <2>1 DEF Tiling
  <2>2. CASE s = r \/ t = r
    BY <1>2, <2>2
  <2> QED BY <2>1, <2>2
<1>4. \A u : u \in 1..HeapSize <=> u \in G \/ \E s \in U \cup {r} : u \in Extent(s)
  <2> SUFFICES ASSUME NEW u
               PROVE  u \in 1..HeapSize <=> u \in G \/ \E s \in U \cup {r} : u \in Extent(s)
    OBVIOUS
  <2>1. u \in 1..HeapSize <=> u \in F \/ \E s \in U : u \in Extent(s)
    BY DEF Tiling
  <2> QED BY <2>1
<1> QED BY <1>1, <1>3, <1>4 DEF Tiling

LEMMA TilingGive ==
  ASSUME NEW U, NEW F, Tiling(U, F), NEW r \in U, NEW G,
         \A u : u \in G <=> u \in F \/ u \in Extent(r)
  PROVE  Tiling(U \ {r}, G)
<1>1. \A s \in U \ {r} : Extent(s) \cap G = {}
  <2> SUFFICES ASSUME NEW s \in U \ {r}, NEW u, u \in Extent(s), u \in G PROVE FALSE
    OBVIOUS
  <2>1. Extent(s) \cap F = {} /\ Extent(s) \cap Extent(r) = {}
    BY DEF Tiling
  <2> QED BY <2>1
<1>2. \A s, t \in U \ {r} : s # t => Extent(s) \cap Extent(t) = {}
  BY DEF Tiling
<1>3. \A u : u \in 1..HeapSize <=> u \in G \/ \E s \in U \ {r} : u \in Extent(s)
  <2> SUFFICES ASSUME NEW u
               PROVE  u \in 1..HeapSize <=> u \in G \/ \E s \in U \ {r} : u \in Extent(s)
    OBVIOUS
  <2>1. u \in 1..HeapSize <=> u \in F \/ \E s \in U : u \in Extent(s)
    BY DEF Tiling
  <2> QED BY <2>1
<1> QED BY <1>1, <1>2, <1>3 DEF Tiling

\* A region is apart from the free units, which are all in the memory.
LEMMA TilingIn ==
  ASSUME NEW U, NEW F, Tiling(U, F)
  PROVE  /\ F \subseteq 1..HeapSize
         /\ \A r \in U : \A u \in Extent(r) : u \notin F
BY DEF Tiling

\* The regions of V are those of U with other names or owners.
LEMMA TilingRename ==
  ASSUME NEW U, NEW F, Tiling(U, F), NEW f, NEW V, V = {f[r] : r \in U},
         \A r \in U : Extent(f[r]) = Extent(r)
  PROVE  Tiling(V, F)
<1>1. \A r \in V : Extent(r) \cap F = {}
  BY DEF Tiling
<1>2. \A r, s \in V : r # s => Extent(r) \cap Extent(s) = {}
  <2> SUFFICES ASSUME NEW r \in V, NEW s \in V, r # s PROVE Extent(r) \cap Extent(s) = {}
    OBVIOUS
  <2>1. PICK x \in U, y \in U : r = f[x] /\ s = f[y]
    OBVIOUS
  <2>2. x # y
    BY <2>1
  <2> QED BY <2>1, <2>2 DEF Tiling
<1>3. \A u : (\E r \in V : u \in Extent(r)) <=> \E r \in U : u \in Extent(r)
  OBVIOUS
<1> QED BY <1>1, <1>2, <1>3 DEF Tiling

-----------------------------------------------------------------------------
(* How many units are free                                                 *)

LEMMA UnitsCount ==
  ASSUME NEW a \in Nat, NEW n \in Nat \ {0}
  PROVE  IsFiniteSet(Units(a, n)) /\ Cardinality(Units(a, n)) = n
<1>1. a \in Int /\ a + n - 1 \in Int /\ ~(a > a + n - 1) /\ (a + n - 1) - a + 1 = n
  OBVIOUS
<1> QED BY <1>1, FS_Interval DEF Units

LEMMA MemoryFinite ==
  ASSUME NEW F, F \subseteq 1..HeapSize
  PROVE  IsFiniteSet(F) /\ Cardinality(F) \in 0..HeapSize
<1>1. HeapSize \in Nat
  BY HeapAssumption
<1>2. IsFiniteSet(1..HeapSize) /\ Cardinality(1..HeapSize) = HeapSize
  <2>1. 1 \in Int /\ HeapSize \in Int /\ HeapSize - 1 + 1 = HeapSize /\ (1 > HeapSize => HeapSize = 0)
    BY <1>1
  <2> QED BY <2>1, FS_Interval
<1>3. IsFiniteSet(F) /\ Cardinality(F) <= HeapSize
  BY <1>2, FS_Subset
<1>4. Cardinality(F) \in Nat
  BY <1>3, FS_CardinalityType
<1> QED BY <1>1, <1>3, <1>4

LEMMA CountTaken ==
  ASSUME NEW F, IsFiniteSet(F), NEW a \in Nat, NEW n \in Nat \ {0}, NEW G,
         \A u \in Units(a, n) : u \in F,
         \A u : u \in G <=> u \in F /\ u \notin Units(a, n)
  PROVE  Cardinality(G) = Cardinality(F) - n
<1>1. G = F \ Units(a, n) /\ F \cap Units(a, n) = Units(a, n)
  OBVIOUS
<1>2. Cardinality(F \ Units(a, n)) = Cardinality(F) - Cardinality(F \cap Units(a, n))
  BY FS_Difference
<1> QED BY <1>1, <1>2, UnitsCount

LEMMA CountGiven ==
  ASSUME NEW F, IsFiniteSet(F), NEW a \in Nat, NEW n \in Nat \ {0}, NEW G,
         \A u \in Units(a, n) : u \notin F,
         \A u : u \in G <=> u \in F \/ u \in Units(a, n)
  PROVE  Cardinality(G) = Cardinality(F) + n
<1>1. G = F \cup Units(a, n) /\ F \cap Units(a, n) = {}
  OBVIOUS
<1>2. IsFiniteSet(Units(a, n)) /\ Cardinality(Units(a, n)) = n
  BY UnitsCount
<1>3. Cardinality(F \cup Units(a, n))
        = Cardinality(F) + Cardinality(Units(a, n)) - Cardinality(F \cap Units(a, n))
  BY <1>2, FS_Union
<1>4. Cardinality({}) = 0 /\ Cardinality(F) \in Nat
  BY FS_EmptySet, FS_CardinalityType
<1> QED BY <1>1, <1>2, <1>3, <1>4

-----------------------------------------------------------------------------
(* The list of blocks in use                                               *)

\* Where a node may be linked to.
links == DOMAIN node \cup {NULL}

NodeType ==
  /\ DOMAIN node \subseteq 1..HeapSize
  /\ header \in links
  /\ \A x \in DOMAIN node :
       node[x] \in [memblockptr : 1..HeapSize, mnext : links]

\* From x to the next node of the list.
succ(x) == IF x = NULL THEN NULL ELSE node[x].mnext

LEMMA SuccLinks ==
  ASSUME NodeType, NEW x \in links
  PROVE  succ(x) \in links
BY DEF NodeType, succ, links

\* w is the walk as far as its k-th step.
IsWalk(w, k) == w = [i \in 0..k |-> IF i = 0 THEN header ELSE succ(w[i - 1])]

LEMMA WalkStep ==
  ASSUME NEW k \in Nat, NEW v, IsWalk(v, k)
  PROVE  \E w : IsWalk(w, k + 1)
<1> DEFINE w == [i \in 0..(k + 1) |-> IF i = k + 1 THEN succ(v[k]) ELSE v[i]]
<1>1. \A i \in 0..k : v[i] = IF i = 0 THEN header ELSE succ(v[i - 1])
  BY DEF IsWalk
<1>2. \A i \in 0..(k + 1) : w[i] = IF i = 0 THEN header ELSE succ(w[i - 1])
  <2> SUFFICES ASSUME NEW i \in 0..(k + 1)
               PROVE  w[i] = IF i = 0 THEN header ELSE succ(w[i - 1])
    OBVIOUS
  <2>1. CASE i = k + 1
    <3>1. i # 0 /\ i - 1 = k /\ k \in 0..(k + 1) /\ k # k + 1
      BY <2>1
    <3>2. w[i] = succ(v[k]) /\ w[k] = v[k]
      BY <2>1, <3>1
    <3> QED BY <3>1, <3>2
  <2>2. CASE i # k + 1 /\ i # 0
    <3>1. i \in 0..k /\ i - 1 \in 0..(k + 1) /\ i - 1 # k + 1
      BY <2>2
    <3>2. w[i] = v[i] /\ w[i - 1] = v[i - 1]
      BY <2>2, <3>1
    <3> QED BY <1>1, <2>2, <3>1, <3>2
  <2>3. CASE i = 0
    <3>1. 0 \in 0..k /\ i # k + 1
      BY <2>3
    <3>2. w[i] = v[i]
      BY <2>3, <3>1
    <3> QED BY <1>1, <2>3, <3>1, <3>2
  <2> QED BY <2>1, <2>2, <2>3
<1>3. w = [i \in 0..(k + 1) |-> w[i]]
  OBVIOUS
<1> HIDE DEF w
<1>4. w = [i \in 0..(k + 1) |-> IF i = 0 THEN header ELSE succ(w[i - 1])]
  BY <1>2, <1>3
<1> QED BY <1>4 DEF IsWalk

\* The recursion that defines the walk is well founded.
LEMMA WalkExists ==
  ASSUME NEW n \in Nat
  PROVE  \E w : IsWalk(w, n)
<1> DEFINE T == {k \in Nat : ~\E w : IsWalk(w, k)}
<1> SUFFICES ASSUME T # {} PROVE FALSE
  OBVIOUS
<1>1. PICK k \in T : \A j \in T : k <= j
  <2>1. T \in SUBSET Nat
    OBVIOUS
  <2> HIDE DEF T
  <2> QED BY <2>1, LeastNat
<1>2. k # 0
  <2>1. IsWalk([i \in 0..0 |-> header], 0)
    <3>1. \A i \in 0..0 : i = 0
      OBVIOUS
    <3> QED BY <3>1 DEF IsWalk
  <2> QED BY <1>1, <2>1
<1>3. k - 1 \in Nat /\ ~(k <= k - 1) /\ (k - 1) + 1 = k
  BY <1>1, <1>2
<1>4. PICK v : IsWalk(v, k - 1)
  BY <1>1, <1>3
<1>5. \E w : IsWalk(w, k)
  BY <1>3, <1>4, WalkStep
<1> QED BY <1>1, <1>5

LEMMA WalkIsWalk ==
  ASSUME NodeType
  PROVE  /\ Cardinality(DOMAIN node) \in Nat
         /\ IsWalk(Walk, Cardinality(DOMAIN node))
<1> DEFINE n == Cardinality(DOMAIN node)
<1>1. n \in Nat
  <2>1. DOMAIN node \subseteq 1..HeapSize
    BY DEF NodeType
  <2> QED BY <2>1, MemoryFinite
<1> HIDE DEF n
<1>2. \E w : IsWalk(w, n)
  BY <1>1, WalkExists
<1>3. Walk = CHOOSE w : w = [i \in 0..n |->
                               IF i = 0 THEN header
                               ELSE IF w[i - 1] = NULL THEN NULL ELSE node[w[i - 1]].mnext]
  BY Zenon DEF Walk, n
<1>4. Walk = [i \in 0..n |->
                IF i = 0 THEN header
                ELSE IF Walk[i - 1] = NULL THEN NULL ELSE node[Walk[i - 1]].mnext]
  BY <1>2, <1>3, Zenon DEF IsWalk, succ
<1>5. IsWalk(Walk, n)
  BY <1>4, Zenon DEF IsWalk, succ
<1> QED BY <1>1, <1>5 DEF n

\* The walk stays in a set that it cannot leave in one step.
LEMMA WalkIn ==
  ASSUME NodeType, NEW X, header \in X, \A x \in X : succ(x) \in X
  PROVE  \A i \in DOMAIN Walk : Walk[i] \in X
<1> DEFINE n == Cardinality(DOMAIN node)
           w == Walk
<1>1. n \in Nat /\ IsWalk(w, n)
  BY WalkIsWalk
<1> HIDE DEF n, w
<1>2. DOMAIN w = 0..n /\ \A i \in 0..n : w[i] = IF i = 0 THEN header ELSE succ(w[i - 1])
  BY <1>1 DEF IsWalk
<1>3. \A i \in 0..n : w[i] \in X
  <2> DEFINE T == {i \in 0..n : w[i] \notin X}
  <2> SUFFICES ASSUME T # {} PROVE FALSE
    OBVIOUS
  <2>1. PICK k \in T : \A j \in T : k <= j
    <3>1. T \in SUBSET Nat
      BY <1>1
    <3> HIDE DEF T
    <3> QED BY <3>1, LeastNat
  <2>2. CASE k = 0
    BY <1>2, <2>1, <2>2
  <2>3. CASE k # 0
    <3>1. k - 1 \in 0..n /\ ~(k <= k - 1)
      BY <1>1, <2>1, <2>3
    <3>2. w[k - 1] \in X
      BY <2>1, <3>1
    <3>3. w[k] = succ(w[k - 1])
      BY <1>2, <2>1, <2>3
    <3> QED BY <2>1, <3>2, <3>3
  <2> QED BY <2>2, <2>3
<1> QED BY <1>2, <1>3 DEF w

LEMMA WalkLinks ==
  ASSUME NodeType
  PROVE  /\ Cardinality(DOMAIN node) \in Nat
         /\ DOMAIN Walk = 0..Cardinality(DOMAIN node)
         /\ \A i \in DOMAIN Walk : Walk[i] \in links
<1>1. /\ Cardinality(DOMAIN node) \in Nat
      /\ IsWalk(Walk, Cardinality(DOMAIN node))
  BY WalkIsWalk
<1>2. DOMAIN Walk = 0..Cardinality(DOMAIN node)
  <2> DEFINE n == Cardinality(DOMAIN node)
             w == Walk
  <2>1. IsWalk(w, n)
    BY <1>1
  <2> HIDE DEF n, w
  <2>2. DOMAIN w = 0..n
    BY <2>1 DEF IsWalk
  <2> QED BY <2>2 DEF n, w
<1>3. header \in links /\ \A x \in links : succ(x) \in links
  BY SuccLinks DEF NodeType
<1>4. \A i \in DOMAIN Walk : Walk[i] \in links
  <2> DEFINE X == links
  <2>1. header \in X /\ \A x \in X : succ(x) \in X
    BY <1>3
  <2> HIDE DEF X
  <2>2. \A i \in DOMAIN Walk : Walk[i] \in X
    BY <2>1, WalkIn
  <2> QED BY <2>2 DEF X
<1> QED BY <1>1, <1>2, <1>4

\* Node x of nd gets a new mnext.
Relink(nd, new, x, next) ==
  /\ DOMAIN new = DOMAIN nd
  /\ \A y \in DOMAIN nd :
       /\ new[y].memblockptr = nd[y].memblockptr
       /\ new[y].mnext = IF y = x THEN next ELSE nd[y].mnext

LEMMA Relinked ==
  ASSUME NodeType, NEW x \in links, NEW next \in links
  PROVE  LET new == [node EXCEPT ![x].mnext = next] IN
         /\ Relink(node, new, x, next)
         /\ \A y \in DOMAIN node :
              new[y] \in [memblockptr : 1..HeapSize, mnext : links]
<1> DEFINE new == [node EXCEPT ![x] = [node[x] EXCEPT !.mnext = next]]
<1>1. DOMAIN new = DOMAIN node
  OBVIOUS
<1>2. ASSUME NEW y \in DOMAIN node
      PROVE  /\ new[y] \in [memblockptr : 1..HeapSize, mnext : links]
             /\ new[y].memblockptr = node[y].memblockptr
             /\ new[y].mnext = IF y = x THEN next ELSE node[y].mnext
  <2>1. node[y] \in [memblockptr : 1..HeapSize, mnext : links]
    BY DEF NodeType
  <2>2. /\ [node[y] EXCEPT !.mnext = next] \in [memblockptr : 1..HeapSize, mnext : links]
        /\ [node[y] EXCEPT !.mnext = next].memblockptr = node[y].memblockptr
        /\ [node[y] EXCEPT !.mnext = next].mnext = next
    BY <2>1
  <2>3. new[y] = IF y = x THEN [node[x] EXCEPT !.mnext = next] ELSE node[y]
    BY Zenon
  <2> QED BY <2>1, <2>2, <2>3
<1> HIDE DEF new
<1>3. Relink(node, new, x, next)
  BY <1>1, <1>2 DEF Relink
<1> QED BY <1>2, <1>3, Zenon DEF new

\* How memextract(a) leaves the list: the search does not end; the first node, or x
\* behind y, is the block's and is unlinked; the list is empty; or the last node,
\* which is the i-th of the walk, is linked to the first.
Endless == hung' = TRUE /\ header' = header /\ node' = node

FirstOff(a) ==
  /\ header # NULL /\ node[header].memblockptr = a
  /\ header' = node[header].mnext /\ node' = node

Unlinks(a, j) ==
  LET y == Walk[j]  x == node[y].mnext IN
  /\ y \in DOMAIN node /\ x \in DOMAIN node
  /\ node[x].memblockptr = a /\ node[y].memblockptr # a
  /\ Relink(node, node', y, node[x].mnext) /\ header' = header

NothingListed == header = NULL /\ header' = header /\ node' = node

Closes(i) ==
  /\ i # 0 /\ Walk[i] = NULL /\ \A j \in 0..(i - 1) : Walk[j] # NULL
  /\ Relink(node, node', Walk[i - 1], header) /\ header' = header

LEMMA Extracted ==
  ASSUME NodeType, NEW a, memextract(a)
  PROVE  /\ hung' \in BOOLEAN
         /\ NodeType'
         /\ DOMAIN node' = DOMAIN node
         /\ \/ Endless
            \/ ~hung' /\ \/ FirstOff(a)
                         \/ \E j \in DOMAIN Walk : Unlinks(a, j)
                         \/ NothingListed
                         \/ \E i \in DOMAIN Walk : Closes(i)
<1> DEFINE w == Walk
           n == Cardinality(DOMAIN node)
           matches == {i \in DOMAIN w : w[i] # NULL /\ node[w[i]].memblockptr = a}
           ends == {i \in DOMAIN w : w[i] = NULL}
           i == IF matches # {} THEN Lowest(matches) ELSE Lowest(ends)
           next == IF matches # {} THEN node[w[i]].mnext ELSE header
<1>1. \/ hung' = TRUE /\ UNCHANGED <<header, node>>
      \/ /\ hung' = FALSE /\ ~(matches = {} /\ ends = {})
         /\ \/ i = 0 /\ header' = next /\ UNCHANGED node
            \/ i # 0 /\ node' = [node EXCEPT ![w[i - 1]].mnext = next] /\ UNCHANGED header
  BY Zenon DEF memextract
<1>2. /\ n \in Nat /\ DOMAIN w = 0..n /\ \A k \in DOMAIN w : w[k] \in links
      /\ \A k \in 0..n : w[k] = IF k = 0 THEN header ELSE succ(w[k - 1])
  <2>1. n \in Nat /\ DOMAIN w = 0..n /\ \A k \in DOMAIN w : w[k] \in links
    BY WalkLinks
  <2>2. IsWalk(w, n)
    BY WalkIsWalk
  <2> HIDE DEF w, n
  <2>3. \A k \in 0..n : w[k] = IF k = 0 THEN header ELSE succ(w[k - 1])
    BY <2>2 DEF IsWalk
  <2> QED BY <2>1, <2>3
<1> HIDE DEF w, n
<1>3. CASE hung' = TRUE /\ UNCHANGED <<header, node>>
  <2>1. NodeType' /\ DOMAIN node' = DOMAIN node
    BY <1>3 DEF NodeType, links
  <2>2. hung' \in BOOLEAN
    BY <1>3
  <2>3. Endless
    BY <1>3 DEF Endless
  <2> QED BY <2>1, <2>2, <2>3
<1>4. CASE ~(matches = {} /\ ends = {})
  <2>1. /\ i \in DOMAIN w /\ i \in Nat
        /\ matches # {} => i \in matches /\ \A k \in matches : i <= k
        /\ matches = {} => i \in ends /\ \A k \in ends : i <= k
    <3>1. matches \in SUBSET Nat /\ ends \in SUBSET Nat
      BY <1>2
    <3>2. matches # {} => Lowest(matches) \in matches /\ \A k \in matches : Lowest(matches) <= k
      BY <3>1, LowestIn
    <3>3. ends # {} => Lowest(ends) \in ends /\ \A k \in ends : Lowest(ends) <= k
      BY <3>1, LowestIn
    <3>4. i \in DOMAIN w
      BY <1>4, <3>2, <3>3
    <3>5. i \in Nat
      BY <1>2, <3>4
    <3> QED BY <1>4, <3>2, <3>3, <3>4, <3>5
  <2>2. next \in links
    <3>1. CASE matches # {}
      <4>1. w[i] \in links /\ w[i] # NULL
        BY <1>2, <2>1, <3>1
      <4>2. node[w[i]].mnext \in links
        BY <4>1 DEF NodeType, links
      <4> QED BY <3>1, <4>2
    <3>2. CASE matches = {}
      BY <3>2 DEF NodeType
    <3> QED BY <3>1, <3>2
  <2>3. i # 0 => /\ i - 1 \in 0..n /\ i - 1 \in Nat /\ i - 1 < i
                 /\ w[i - 1] \in links /\ w[i] = succ(w[i - 1])
    <3>1. i # 0 => i - 1 \in 0..n /\ i - 1 \in Nat /\ i - 1 < i
      BY <1>2, <2>1
    <3> QED BY <1>2, <2>1, <3>1
  <2>4. i = 0 => w[i] = header
    BY <1>2, <2>1
  <2>5. matches # {} => w[i] # NULL /\ w[i] \in DOMAIN node /\ node[w[i]].memblockptr = a
                        /\ next = node[w[i]].mnext
    BY <1>2, <2>1 DEF links
  <2>6. matches = {} => w[i] = NULL /\ (\A k \in 0..n : k < i => w[k] # NULL) /\ next = header
    <3> SUFFICES ASSUME matches = {}
                 PROVE  w[i] = NULL /\ (\A k \in 0..n : k < i => w[k] # NULL) /\ next = header
      OBVIOUS
    <3>1. i \in ends /\ \A k \in ends : i <= k
      BY <2>1
    <3>2. ASSUME NEW k \in 0..n, k < i PROVE w[k] # NULL
      <4>1. ~(i <= k)
        BY <1>2, <2>1, <3>2
      <4> QED BY <1>2, <3>1, <4>1
    <3> QED BY <3>1, <3>2
  <2>7. matches # {} /\ i # 0 => w[i - 1] # NULL /\ node[w[i - 1]].memblockptr # a
    <3> SUFFICES ASSUME matches # {}, i # 0
                 PROVE  w[i - 1] # NULL /\ node[w[i - 1]].memblockptr # a
      OBVIOUS
    <3>1. w[i - 1] # NULL
      BY <2>3, <2>5 DEF succ
    <3>2. i - 1 \notin matches
      <4>1. ~(i <= i - 1)
        BY <2>1
      <4> QED BY <2>1, <4>1
    <3> QED BY <1>2, <2>3, <3>1, <3>2
  <2> DEFINE found == matches # {}
  <2> HIDE DEF i, next, matches, ends, found
  <2>8. CASE hung' = FALSE /\ i = 0 /\ header' = next /\ UNCHANGED node
    <3>1. links' = links /\ node' = node /\ header' = next
      BY <2>8 DEF links
    <3>2. header' \in links
      BY <2>2, <3>1
    <3>3. NodeType' /\ DOMAIN node' = DOMAIN node
      BY <3>1, <3>2 DEF NodeType
    <3>4. found => FirstOff(a)
      BY <2>4, <2>5, <2>8, <3>1 DEF FirstOff, found
    <3>5. ~found => NothingListed
      BY <2>4, <2>6, <2>8, <3>1 DEF NothingListed, found
    <3>6. hung' \in BOOLEAN /\ ~hung'
      BY <2>8
    <3> QED BY <3>3, <3>4, <3>5, <3>6
  <2>9. CASE hung' = FALSE /\ i # 0 /\ node' = [node EXCEPT ![w[i - 1]].mnext = next] /\ UNCHANGED header
    <3>1. /\ Relink(node, node', w[i - 1], next)
          /\ \A y \in DOMAIN node :
               node'[y] \in [memblockptr : 1..HeapSize, mnext : links]
      BY <2>2, <2>3, <2>9, Relinked
    <3>2. DOMAIN node' = DOMAIN node
      BY <3>1 DEF Relink
    <3>3. links' = links /\ header' = header
      BY <2>9, <3>2 DEF links
    <3>4. NodeType'
      BY <3>1, <3>2, <3>3 DEF NodeType
    <3>5. found => Unlinks(a, i - 1)
      <4> SUFFICES ASSUME found PROVE Unlinks(a, i - 1)
        OBVIOUS
      <4>1. w[i - 1] \in DOMAIN node /\ w[i] = node[w[i - 1]].mnext
        BY <2>3, <2>7, <2>9 DEF found, links, succ
      <4>2. next = node[w[i]].mnext /\ w[i] \in DOMAIN node /\ node[w[i]].memblockptr = a
            /\ node[w[i - 1]].memblockptr # a
        BY <2>5, <2>7, <2>9 DEF found
      <4> QED BY <3>1, <3>3, <4>1, <4>2 DEF Unlinks, w
    <3>6. ~found => Closes(i)
      <4> SUFFICES ASSUME ~found PROVE Closes(i)
        OBVIOUS
      <4>1. w[i] = NULL /\ next = header
        BY <2>6 DEF found
      <4>2. \A j \in 0..(i - 1) : w[j] # NULL
        <5> SUFFICES ASSUME NEW j \in 0..(i - 1) PROVE w[j] # NULL
          OBVIOUS
        <5>1. j \in 0..n /\ j < i
          BY <1>2, <2>1, <2>3, <2>9
        <5> QED BY <2>6, <5>1 DEF found
      <4> QED BY <2>9, <3>1, <3>3, <4>1, <4>2 DEF Closes, w
    <3>7. hung' \in BOOLEAN /\ ~hung'
      BY <2>9
    <3>8. i - 1 \in DOMAIN w /\ i \in DOMAIN w
      BY <1>2, <2>1, <2>3, <2>9
    <3> QED BY <3>2, <3>4, <3>5, <3>6, <3>7, <3>8 DEF w
  <2> QED BY <1>1, <1>3, <2>8, <2>9
<1> QED BY <1>1, <1>3, <1>4

-----------------------------------------------------------------------------
(* The nodes that can be met stand for blocks in use                       *)

\* The list leads through nodes of R, each of which is met from one place only and
\* stands for another block in use.
Chain(nd, h, bl, R) ==
  /\ R \subseteq DOMAIN nd
  /\ h \in R \cup {NULL}
  /\ \A x \in R : nd[x].mnext = NULL \/ (nd[x].mnext \in R /\ nd[x].mnext # h)
  /\ \A x, y \in R : nd[x].mnext = nd[y].mnext /\ nd[x].mnext # NULL => x = y
  /\ \A x, y \in R : nd[x].memblockptr = nd[y].memblockptr => x = y
  /\ \A x \in R : \E b \in bl : b.addr = nd[x].memblockptr

\* The list leads through nodes of S and does not end.
Cycle(nd, h, S) ==
  /\ S \subseteq DOMAIN nd
  /\ h \in S
  /\ \A x \in S : nd[x].mnext \in S

ListInv == (\E R : Chain(node, header, blocks, R)) \/ (\E S : Cycle(node, header, S))

\* An empty list is a chain of no nodes.
LEMMA EmptyChain ==
  ASSUME NEW nd, NEW bl
  PROVE  Chain(nd, NULL, bl, {})
BY DEF Chain

LEMMA ChainWalk ==
  ASSUME NodeType, NEW R, Chain(node, header, blocks, R)
  PROVE  \A i \in DOMAIN Walk : Walk[i] \in R \cup {NULL}
<1> DEFINE X == R \cup {NULL}
<1>1. header \in X /\ \A x \in X : succ(x) \in X
  BY DEF Chain, succ
<1> HIDE DEF X
<1>2. \A i \in DOMAIN Walk : Walk[i] \in X
  BY <1>1, WalkIn
<1> QED BY <1>2 DEF X

LEMMA CycleWalk ==
  ASSUME NodeType, NEW S, Cycle(node, header, S)
  PROVE  \A i \in DOMAIN Walk : Walk[i] \in S /\ Walk[i] # NULL
<1>1. NULL \notin S
  <2>1. NULL \notin DOMAIN node
    BY DEF NodeType, NULL
  <2> QED BY <2>1 DEF Cycle
<1>2. header \in S /\ \A x \in S : succ(x) \in S
  BY <1>1 DEF Cycle, succ
<1>3. \A i \in DOMAIN Walk : Walk[i] \in S
  BY <1>2, WalkIn
<1> QED BY <1>1, <1>3

LEMMA ChainFirstOff ==
  ASSUME NEW nd, NEW h, NEW bl, NEW R, Chain(nd, h, bl, R), h # NULL, NEW cl,
         \A b \in bl : b.addr = nd[h].memblockptr \/ \E c \in cl : c.addr = b.addr
  PROVE  Chain(nd, nd[h].mnext, cl, R \ {h})
<1> DEFINE k == nd[h].mnext
           Q == R \ {h}
<1>1. h \in R
  BY DEF Chain
<1>2. k \in Q \cup {NULL}
  BY <1>1 DEF Chain
<1>3. \A x \in Q : nd[x].mnext = NULL \/ (nd[x].mnext \in Q /\ nd[x].mnext # k)
  BY <1>1 DEF Chain
<1>4. \A x \in Q : \E b \in cl : b.addr = nd[x].memblockptr
  <2> SUFFICES ASSUME NEW x \in Q PROVE \E b \in cl : b.addr = nd[x].memblockptr
    OBVIOUS
  <2>1. PICK b \in bl : b.addr = nd[x].memblockptr
    BY DEF Chain
  <2>2. nd[x].memblockptr # nd[h].memblockptr
    BY <1>1 DEF Chain
  <2> QED BY <2>1, <2>2
<1>5. /\ \A x, y \in Q : nd[x].mnext = nd[y].mnext /\ nd[x].mnext # NULL => x = y
      /\ \A x, y \in Q : nd[x].memblockptr = nd[y].memblockptr => x = y
      /\ Q \subseteq DOMAIN nd
  BY DEF Chain
<1> HIDE DEF k, Q
<1>6. Chain(nd, k, cl, Q)
  BY <1>2, <1>3, <1>4, <1>5 DEF Chain
<1> QED BY <1>6 DEF k, Q

LEMMA ChainUnlinks ==
  ASSUME NEW nd, NEW h, NEW bl, NEW R, Chain(nd, h, bl, R),
         NEW y \in R, NEW x \in R, x # y, nd[y].mnext = x, x # NULL,
         NEW new, Relink(nd, new, y, nd[x].mnext), NEW cl,
         \A b \in bl : b.addr = nd[x].memblockptr \/ \E c \in cl : c.addr = b.addr
  PROVE  Chain(new, h, cl, R \ {x})
<1> DEFINE Q == R \ {x}
<1>1. /\ Q \subseteq DOMAIN new /\ y \in Q
      /\ \A z \in Q : new[z].memblockptr = nd[z].memblockptr
      /\ \A z \in Q : new[z].mnext = IF z = y THEN nd[x].mnext ELSE nd[z].mnext
  BY DEF Chain, Relink
<1>2. h \in Q \cup {NULL}
  BY DEF Chain
<1>3. \A z \in Q : z # y => nd[z].mnext # x
  BY DEF Chain
<1>4. nd[x].mnext # x
  BY DEF Chain
<1>5. \A z \in Q : new[z].mnext = NULL \/ (new[z].mnext \in Q /\ new[z].mnext # h)
  BY <1>1, <1>3, <1>4 DEF Chain
<1>6. \A u, z \in Q : new[u].mnext = new[z].mnext /\ new[u].mnext # NULL => u = z
  <2>1. \A z \in Q : z # y /\ nd[z].mnext # NULL => nd[z].mnext # nd[x].mnext
    BY DEF Chain
  <2>2. \A u, z \in Q : nd[u].mnext = nd[z].mnext /\ nd[u].mnext # NULL => u = z
    BY DEF Chain
  <2> HIDE DEF Q
  <2> QED BY <1>1, <2>1, <2>2
<1>7. \A u, z \in Q : new[u].memblockptr = new[z].memblockptr => u = z
  <2>1. \A u, z \in Q : nd[u].memblockptr = nd[z].memblockptr => u = z
    BY DEF Chain
  <2> HIDE DEF Q
  <2> QED BY <1>1, <2>1
<1>8. \A z \in Q : \E b \in cl : b.addr = new[z].memblockptr
  <2> SUFFICES ASSUME NEW z \in Q PROVE \E b \in cl : b.addr = new[z].memblockptr
    OBVIOUS
  <2>1. PICK b \in bl : b.addr = nd[z].memblockptr
    BY DEF Chain
  <2>2. nd[z].memblockptr # nd[x].memblockptr
    BY DEF Chain
  <2> QED BY <1>1, <2>1, <2>2
<1> HIDE DEF Q
<1>9. Chain(new, h, cl, Q)
  BY <1>1, <1>2, <1>5, <1>6, <1>7, <1>8 DEF Chain
<1> QED BY <1>9 DEF Q

\* memextract(a) and what becomes of the blocks: none goes but one at address a.
LEMMA ExtractListed ==
  ASSUME NodeType, ListInv, NEW a, memextract(a),
         hung' => blocks' = blocks,
         \A b \in blocks : b.addr = a \/ \E c \in blocks' : c.addr = b.addr
  PROVE  ListInv'
<1>1. /\ NodeType' /\ DOMAIN node' = DOMAIN node
      /\ \/ Endless
         \/ ~hung' /\ \/ FirstOff(a)
                      \/ \E j \in DOMAIN Walk : Unlinks(a, j)
                      \/ NothingListed
                      \/ \E i \in DOMAIN Walk : Closes(i)
  BY Extracted
<1>2. NULL \notin DOMAIN node
  BY DEF NodeType, NULL
<1>3. CASE Endless
  <2>1. header' = header /\ node' = node /\ blocks' = blocks
    BY <1>3 DEF Endless
  <2> QED BY <2>1 DEF ListInv
<1>4. CASE NothingListed
  <2>1. header' = NULL
    BY <1>4 DEF NothingListed
  <2>2. Chain(node', header', blocks', {})
    BY <2>1, EmptyChain
  <2> QED BY <2>2 DEF ListInv
<1>5. CASE FirstOff(a)
  <2>1. /\ header # NULL /\ node[header].memblockptr = a
        /\ header' = node[header].mnext /\ node' = node
    BY <1>5 DEF FirstOff
  <2>2. ASSUME NEW R, Chain(node, header, blocks, R) PROVE ListInv'
    <3>1. Chain(node, node[header].mnext, blocks', R \ {header})
      BY <2>1, <2>2, ChainFirstOff
    <3>2. Chain(node', header', blocks', R \ {header})
      BY <2>1, <3>1
    <3> QED BY <3>2 DEF ListInv
  <2>3. ASSUME NEW S, Cycle(node, header, S) PROVE ListInv'
    <3>1. Cycle(node', header', S)
      BY <2>1, <2>3 DEF Cycle
    <3> QED BY <3>1 DEF ListInv
  <2> QED BY <2>2, <2>3 DEF ListInv
<1>6. ASSUME NEW j \in DOMAIN Walk, Unlinks(a, j) PROVE ListInv'
  <2> DEFINE y == Walk[j]
             x == node[y].mnext
  <2>1. /\ y \in DOMAIN node /\ x \in DOMAIN node
        /\ node[x].memblockptr = a /\ node[y].memblockptr # a
        /\ Relink(node, node', y, node[x].mnext) /\ header' = header
    BY <1>6 DEF Unlinks
  <2>2. ASSUME NEW R, Chain(node, header, blocks, R) PROVE ListInv'
    <3>1. y \in R
      BY <1>2, <2>1, <2>2, ChainWalk
    <3> HIDE DEF y
    <3>2. x \in R
      BY <1>2, <2>1, <2>2, <3>1 DEF Chain
    <3>3. x # NULL /\ x # y /\ node[y].mnext = x
      BY <1>2, <2>1
    <3> HIDE DEF x
    <3>4. Chain(node', header, blocks', R \ {x})
      BY <2>1, <2>2, <3>1, <3>2, <3>3, ChainUnlinks
    <3> QED BY <2>1, <3>4 DEF ListInv
  <2>3. ASSUME NEW S, Cycle(node, header, S) PROVE ListInv'
    <3>1. y \in S
      BY <2>3, CycleWalk
    <3> HIDE DEF y
    <3>2. x \in S
      BY <2>3, <3>1 DEF Cycle
    <3>3. node[x].mnext \in S
      BY <2>3, <3>2 DEF Cycle
    <3> HIDE DEF x
    <3>4. Cycle(node', header', S)
      BY <2>1, <2>3, <3>3 DEF Cycle, Relink
    <3> QED BY <3>4 DEF ListInv
  <2> QED BY <2>2, <2>3 DEF ListInv
<1>7. ASSUME NEW i \in DOMAIN Walk, Closes(i) PROVE ListInv'
  <2> DEFINE w == Walk
             n == Cardinality(DOMAIN node)
             S == {w[j] : j \in 0..(i - 1)}
  <2>1. /\ i # 0 /\ w[i] = NULL /\ \A j \in 0..(i - 1) : w[j] # NULL
        /\ Relink(node, node', w[i - 1], header) /\ header' = header
    BY <1>7 DEF Closes
  <2>2. /\ n \in Nat /\ DOMAIN w = 0..n /\ \A k \in DOMAIN w : w[k] \in links
        /\ \A k \in 0..n : w[k] = IF k = 0 THEN header ELSE succ(w[k - 1])
    <3>1. n \in Nat /\ DOMAIN w = 0..n /\ \A k \in DOMAIN w : w[k] \in links
      BY WalkLinks
    <3>2. IsWalk(w, n)
      BY WalkIsWalk
    <3> HIDE DEF w, n
    <3>3. \A k \in 0..n : w[k] = IF k = 0 THEN header ELSE succ(w[k - 1])
      BY <3>2 DEF IsWalk
    <3> QED BY <3>1, <3>3
  <2>3. i \in 0..n
    BY <2>2
  <2> HIDE DEF w, n
  <2>4. \A j \in 0..(i - 1) : j \in 0..n /\ w[j] \in DOMAIN node
    <3> SUFFICES ASSUME NEW j \in 0..(i - 1) PROVE j \in 0..n /\ w[j] \in DOMAIN node
      OBVIOUS
    <3>1. j \in 0..n
      BY <2>2, <2>3
    <3> QED BY <2>1, <2>2, <3>1 DEF links
  <2>5. header \in S
    <3>1. 0 \in 0..(i - 1) /\ w[0] = header
      BY <2>1, <2>2, <2>3
    <3> QED BY <3>1
  <2>6. \A j \in 0..(i - 1) : w[j] # w[i - 1] => node[w[j]].mnext \in S
    <3> SUFFICES ASSUME NEW j \in 0..(i - 1), w[j] # w[i - 1] PROVE node[w[j]].mnext \in S
      OBVIOUS
    <3>1. j # i - 1
      OBVIOUS
    <3>2. j + 1 \in 0..(i - 1) /\ j + 1 \in 0..n /\ j + 1 # 0 /\ (j + 1) - 1 = j
      BY <2>2, <2>3, <3>1
    <3>3. w[j + 1] = succ(w[j])
      BY <2>2, <3>2
    <3>4. w[j + 1] = node[w[j]].mnext
      BY <2>1, <3>3 DEF succ
    <3> QED BY <3>2, <3>4
  <2>7. Cycle(node', header', S)
    <3>1. S \subseteq DOMAIN node
      BY <2>4
    <3>2. \A x \in S : x # w[i - 1] => node[x].mnext \in S
      BY <2>6
    <3> HIDE DEF S
    <3> QED BY <1>1, <2>1, <2>5, <3>1, <3>2 DEF Cycle, Relink
  <2> QED BY <2>7 DEF ListInv
<1> QED BY <1>1, <1>3, <1>4, <1>5, <1>6, <1>7

-----------------------------------------------------------------------------
(* The parts in use                                                        *)

nodeparts(D)  == {Region("node", x, NodeSize, x) : x \in D}
blockpart(b)  == Region("block", b.addr, b.len, b.owner)
blockparts(B) == {blockpart(b) : b \in B}
stackpart(a, p) == Region("stack", a, StackSize, p)
stackparts(s) == {stackpart(s[p], p) : p \in DOMAIN s}

Block == [addr : 1..HeapSize, len : Sizes, owner : HeapProcs \cup {Nobody}]

LEMMA UsedParts ==
  /\ Used = nodeparts(DOMAIN node) \cup blockparts(blocks) \cup stackparts(stack)
  /\ Used' = nodeparts(DOMAIN node') \cup blockparts(blocks') \cup stackparts(stack')
BY Zenon DEF Used, nodeparts, blockparts, blockpart, stackparts, stackpart, alive

LEMMA KindsDiffer ==
  ASSUME NEW D, NEW B, NEW s
  PROVE  /\ \A b : blockpart(b) \notin nodeparts(D) \cup stackparts(s)
         /\ \A a, p : stackpart(a, p) \notin nodeparts(D) \cup blockparts(B)
<1>1. ASSUME NEW b PROVE blockpart(b) \notin nodeparts(D) \cup stackparts(s)
  BY SameRegion DEF blockpart, nodeparts, stackparts, stackpart
<1>2. ASSUME NEW a, NEW p PROVE stackpart(a, p) \notin nodeparts(D) \cup blockparts(B)
  BY SameRegion DEF blockparts, blockpart, nodeparts, stackpart
<1> QED BY <1>1, <1>2

LEMMA BlockPartsWithout ==
  ASSUME NEW B, B \subseteq Block, NEW b \in B
  PROVE  blockparts(B \ {b}) = blockparts(B) \ {blockpart(b)}
<1>1. ASSUME NEW c \in B, blockpart(c) = blockpart(b) PROVE c = b
  <2>1. c.addr = b.addr /\ c.len = b.len /\ c.owner = b.owner
    BY <1>1, SameRegion DEF blockpart
  <2>2. c \in Block /\ b \in Block
    OBVIOUS
  <2> QED BY <2>1, <2>2 DEF Block
<1> QED BY <1>1 DEF blockparts

LEMMA StackPartsWith ==
  ASSUME NEW s, NEW p, p \notin DOMAIN s, NEW a
  PROVE  stackparts([q \in DOMAIN s \cup {p} |-> IF q = p THEN a ELSE s[q]])
           = stackparts(s) \cup {stackpart(a, p)}
<1> DEFINE t == [q \in DOMAIN s \cup {p} |-> IF q = p THEN a ELSE s[q]]
<1>1. DOMAIN t = DOMAIN s \cup {p} /\ t[p] = a /\ \A q \in DOMAIN s : t[q] = s[q]
  OBVIOUS
<1> HIDE DEF t
<1>2. stackparts(t) = stackparts(s) \cup {stackpart(a, p)}
  BY <1>1 DEF stackparts
<1> QED BY <1>2 DEF t

LEMMA StackPartsWithout ==
  ASSUME NEW s, NEW p \in DOMAIN s
  PROVE  stackparts([q \in DOMAIN s \ {p} |-> s[q]]) = stackparts(s) \ {stackpart(s[p], p)}
<1> DEFINE t == [q \in DOMAIN s \ {p} |-> s[q]]
<1>1. DOMAIN t = DOMAIN s \ {p} /\ \A q \in DOMAIN t : t[q] = s[q]
  OBVIOUS
<1> HIDE DEF t
<1>2. ASSUME NEW q \in DOMAIN s, stackpart(s[q], q) = stackpart(s[p], p) PROVE q = p
  BY <1>2, SameRegion DEF stackpart
<1>3. stackparts(t) = stackparts(s) \ {stackpart(s[p], p)}
  BY <1>1, <1>2 DEF stackparts
<1> QED BY <1>3 DEF t

\* What a dead process has not freed belongs to nobody.
orphaned(b, p) == IF b.owner = p THEN [b EXCEPT !.owner = Nobody] ELSE b
orphans(B, p) == {orphaned(b, p) : b \in B}

LEMMA OrphanedBlock ==
  ASSUME NEW b \in Block, NEW p
  PROVE  /\ orphaned(b, p) \in Block
         /\ orphaned(b, p).addr = b.addr
         /\ orphaned(b, p).len = b.len
         /\ orphaned(b, p).owner = IF b.owner = p THEN Nobody ELSE b.owner
BY DEF orphaned, Block

\* Only the owners of the regions change.
LEMMA OrphanedTiling ==
  ASSUME NEW D, NEW B, B \subseteq Block, NEW s, NEW F, NEW p,
         Tiling(nodeparts(D) \cup blockparts(B) \cup stackparts(s), F)
  PROVE  Tiling(nodeparts(D) \cup blockparts(orphans(B, p)) \cup stackparts(s), F)
<1> DEFINE N == nodeparts(D)
           S == stackparts(s)
           U == N \cup blockparts(B) \cup S
           V == N \cup blockparts(orphans(B, p)) \cup S
           part(r) == IF r[1] = "block" /\ r[4] = p THEN Region("block", r[2], r[3], Nobody) ELSE r
           f == [r \in U |-> part(r)]
<1>1. \A r \in N \cup S : part(r) = r
  BY DEF nodeparts, stackparts, stackpart, Region
<1>2. ASSUME NEW b \in B
      PROVE  part(blockpart(b)) = blockpart(orphaned(b, p)) /\ Extent(part(blockpart(b))) = Extent(blockpart(b))
  <2>1. blockpart(b)[1] = "block" /\ blockpart(b)[2] = b.addr /\ blockpart(b)[3] = b.len /\ blockpart(b)[4] = b.owner
    BY DEF blockpart, Region
  <2>2. part(blockpart(b)) = IF b.owner = p THEN Region("block", b.addr, b.len, Nobody)
                             ELSE Region("block", b.addr, b.len, b.owner)
    BY <2>1 DEF blockpart
  <2>3. /\ orphaned(b, p).addr = b.addr /\ orphaned(b, p).len = b.len
        /\ orphaned(b, p).owner = IF b.owner = p THEN Nobody ELSE b.owner
    BY OrphanedBlock
  <2>4. blockpart(orphaned(b, p)) = part(blockpart(b))
    BY <2>2, <2>3 DEF blockpart
  <2>5. Extent(blockpart(orphaned(b, p))) = Extent(blockpart(b))
    BY <2>3, ExtentOf DEF blockpart
  <2> QED BY <2>4, <2>5
<1> HIDE DEF part
<1>3. \A r \in U : f[r] = part(r)
  OBVIOUS
<1>4. \A r \in U : Extent(f[r]) = Extent(r)
  BY <1>1, <1>2, <1>3 DEF blockparts
<1>5. V = {f[r] : r \in U}
  <2>1. \A r \in V : \E x \in U : r = part(x)
    BY <1>1, <1>2 DEF blockparts, orphans
  <2>2. \A x \in U : part(x) \in V
    BY <1>1, <1>2 DEF blockparts, orphans
  <2> HIDE DEF V, U, f
  <2> QED BY <1>3, <2>1, <2>2
<1> HIDE DEF f, U, V
<1>6. Tiling(U, F)
  BY DEF U
<1> QED BY <1>4, <1>5, <1>6, TilingRename DEF V

-----------------------------------------------------------------------------
(* The invariant                                                           *)

OwnerType ==
  /\ blocks \subseteq Block
  /\ alive \subseteq HeapProcs /\ alive # {}
  /\ \A p \in alive : stack[p] \in 1..HeapSize
  /\ hung \in BOOLEAN
  /\ wild \in BOOLEAN

Shared ==
  /\ FreeList(memlist)
  /\ Tiling(Used, FreeUnits(memlist))
  /\ LengthExact

HeapInv == NodeType /\ OwnerType /\ Shared

\* What getmem() and getstk() give is in the memory, and the length is kept.
LEMMA TakenShared ==
  ASSUME NEW free, NEW U, Tiling(U, FreeUnits(free)), NEW k, k = Cardinality(FreeUnits(free)),
         NEW a \in Nat, NEW n \in Nat \ {0}, NEW F, Takes(free, a, n, F),
         NEW r, Extent(r) = Units(a, n)
  PROVE  /\ a \in 1..HeapSize
         /\ FreeList(F)
         /\ Tiling(U \cup {r}, FreeUnits(F))
         /\ k - n = Cardinality(FreeUnits(F))
<1>1. FreeUnits(free) \subseteq 1..HeapSize
  BY TilingIn
<1>2. a \in Units(a, n)
  <2>1. a \in Int /\ a <= a /\ a < a + n /\ n \in Int
    OBVIOUS
  <2> QED BY <2>1, InUnits
<1>3. a \in 1..HeapSize
  BY <1>1, <1>2 DEF Takes
<1>4. /\ FreeList(F)
      /\ \A u \in Units(a, n) : u \in FreeUnits(free)
      /\ \A u : u \in FreeUnits(F) <=> u \in FreeUnits(free) /\ u \notin Units(a, n)
  BY DEF Takes
<1>5. Tiling(U \cup {r}, FreeUnits(F))
  BY <1>4, TilingTake
<1>6. IsFiniteSet(FreeUnits(free))
  BY <1>1, MemoryFinite
<1>7. k - n = Cardinality(FreeUnits(F))
  BY <1>4, <1>6, CountTaken
<1> QED BY <1>3, <1>4, <1>5, <1>7

\* freemem() gives the units of a region back, when memextract() returns.
LEMMA Released ==
  ASSUME NodeType, Shared, NEW r \in Used, NEW a \in Nat, NEW n \in Nat \ {0},
         Extent(r) = Units(a, n), release(a, n)
  PROVE  /\ NodeType' /\ DOMAIN node' = DOMAIN node /\ hung' \in BOOLEAN
         /\ hung' => memlist' = memlist /\ mlength' = mlength
         /\ ~hung' => /\ FreeList(memlist')
                      /\ Tiling(Used \ {r}, FreeUnits(memlist'))
                      /\ mlength' = Cardinality(FreeUnits(memlist'))
<1>1. NodeType' /\ DOMAIN node' = DOMAIN node /\ hung' \in BOOLEAN
  BY Extracted DEF release
<1>2. hung' => memlist' = memlist /\ mlength' = mlength
  BY DEF release
<1>3. ASSUME ~hung'
      PROVE  /\ FreeList(memlist')
             /\ Tiling(Used \ {r}, FreeUnits(memlist'))
             /\ mlength' = Cardinality(FreeUnits(memlist'))
  <2>1. memlist' = dealloc(memlist, a, n) /\ mlength' = mlength + n
    BY <1>3 DEF release
  <2>2. FreeUnits(memlist) \subseteq 1..HeapSize /\ \A u \in Units(a, n) : u \notin FreeUnits(memlist)
    BY TilingIn DEF Shared
  <2>3. /\ FreeList(memlist')
        /\ \A u : u \in FreeUnits(memlist') <=> u \in FreeUnits(memlist) \/ u \in Units(a, n)
    BY <2>1, <2>2, Deallocated DEF Shared
  <2>4. Tiling(Used \ {r}, FreeUnits(memlist'))
    <3> DEFINE G == FreeUnits(memlist')
               F == FreeUnits(memlist)
               U == Used
    <3>1. \A u : u \in G <=> u \in F \/ u \in Extent(r)
      BY <2>3
    <3>2. Tiling(U, F) /\ r \in U
      BY DEF Shared
    <3> HIDE DEF F, G, U
    <3>3. Tiling(U \ {r}, G)
      BY <3>1, <3>2, TilingGive
    <3> QED BY <3>3 DEF U, G
  <2>5. mlength' = Cardinality(FreeUnits(memlist'))
    <3>1. IsFiniteSet(FreeUnits(memlist))
      BY <2>2, MemoryFinite
    <3>2. Cardinality(FreeUnits(memlist')) = Cardinality(FreeUnits(memlist)) + n
      BY <2>2, <2>3, <3>1, CountGiven
    <3> QED BY <2>1, <3>2 DEF Shared, LengthExact
  <2> QED BY <2>3, <2>4, <2>5
<1> QED BY <1>1, <1>2, <1>3

LEMMA SharedStays ==
  ASSUME Shared, UNCHANGED <<memlist, mlength, node, blocks, stack>>
  PROVE  Shared'
<1>1. Used' = Used
  BY UsedParts, Zenon
<1>2. FreeUnits(memlist') = FreeUnits(memlist)
  OBVIOUS
<1> QED BY <1>1, <1>2 DEF Shared, LengthExact

LEMMA SizesPositive ==
  /\ Sizes \subseteq Nat \ {0} /\ StackSize \in Nat \ {0} /\ NodeSize \in Nat \ {0}
  /\ HeapSize \in Nat /\ HeapSize > StackSize /\ HeapProcs # {}
BY HeapAssumption DEF NodeSize

LEMMA InitHolds ==
  ASSUME Init
  PROVE  HeapInv
<1> DEFINE m == [addr |-> 1, len |-> HeapSize - StackSize]
           main == CHOOSE p \in HeapProcs : TRUE
           k == HeapSize - StackSize
<1>1. /\ memlist = <<m>> /\ mlength = k /\ stack = [p \in {main} |-> 1 + k]
      /\ header = NULL /\ node = [x \in {} |-> NULL] /\ blocks = {} /\ hung = FALSE /\ wild = FALSE
  <2>1. stack = [p \in {main} |-> 1 + HeapSize - StackSize]
    BY DEF Init
  <2>2. 1 + HeapSize - StackSize = 1 + k
    BY SizesPositive
  <2> QED BY <2>1, <2>2 DEF Init
<1>2. k \in Nat \ {0} /\ StackSize \in Nat /\ HeapSize = k + StackSize /\ main \in HeapProcs
  BY SizesPositive
<1>3. m \in Piece /\ m.addr = 1 /\ m.len = k
  BY <1>2 DEF Piece
<1> HIDE DEF m, main, k
<1>4. DOMAIN node = {}
  BY <1>1
<1>5. NodeType
  BY <1>1, <1>4 DEF NodeType, links
<1>6. alive = {main} /\ stack[main] = 1 + k
  BY <1>1 DEF alive
<1>7. OwnerType
  <2>1. 1 + k \in 1..HeapSize
    BY <1>2, SizesPositive
  <2>2. blocks \subseteq Block
    BY <1>1
  <2>3. hung \in BOOLEAN /\ wild \in BOOLEAN
    BY <1>1
  <2> QED BY <1>2, <1>6, <2>1, <2>2, <2>3 DEF OwnerType
<1>8. Len(memlist) = 1 /\ memlist[1] = m /\ memlist \in Seq(Piece)
  BY <1>1, <1>3
<1>9. FreeList(memlist)
  <2>1. \A i, j \in 1..Len(memlist) : ~(i < j)
    BY <1>8
  <2> QED BY <1>8, <2>1 DEF FreeList
<1>10. \A u : u \in FreeUnits(memlist) <=> u \in Units(1, k)
  <2>1. FreeUnits(memlist) = UNION {Units(memlist[i].addr, memlist[i].len) : i \in 1..1}
    BY <1>8 DEF FreeUnits
  <2>2. \A i \in 1..1 : memlist[i].addr = 1 /\ memlist[i].len = k
    BY <1>3, <1>8
  <2>3. 1 \in 1..1
    OBVIOUS
  <2> QED BY <2>1, <2>2, <2>3
<1>11. LengthExact
  <2>1. FreeUnits(memlist) = Units(1, k)
    BY <1>10
  <2>2. Cardinality(Units(1, k)) = k
    BY <1>2, UnitsCount
  <2> QED BY <1>1, <2>1, <2>2 DEF LengthExact
<1>12. Used = {stackpart(1 + k, main)}
  <2>1. nodeparts(DOMAIN node) = {} /\ blockparts(blocks) = {}
    BY <1>1, <1>4 DEF nodeparts, blockparts
  <2>2. stackparts(stack) = {stackpart(1 + k, main)}
    BY <1>6 DEF stackparts, alive
  <2> QED BY <2>1, <2>2, UsedParts
<1>13. Tiling(Used, FreeUnits(memlist))
  <2>1. Extent(stackpart(1 + k, main)) = Units(1 + k, StackSize)
    BY ExtentOf DEF stackpart
  <2>2. \A u : u \in Units(1 + k, StackSize) <=> u \in Int /\ 1 + k <= u /\ u < 1 + k + StackSize
    BY <1>2, InUnits
  <2>3. \A u : u \in Units(1, k) <=> u \in Int /\ 1 <= u /\ u < 1 + k
    BY <1>2, InUnits
  <2>4. ASSUME NEW u
        PROVE  /\ u \in 1..HeapSize <=> u \in Units(1, k) \/ u \in Units(1 + k, StackSize)
               /\ ~(u \in Units(1, k) /\ u \in Units(1 + k, StackSize))
    BY <1>2, <2>2, <2>3
  <2> QED BY <1>10, <1>12, <2>1, <2>4 DEF Tiling
<1> QED BY <1>5, <1>7, <1>9, <1>11, <1>13 DEF HeapInv, Shared

LEMMA GetmemHolds ==
  ASSUME HeapInv, NEW p \in HeapProcs, NEW n \in Sizes, getmem(p, n)
  PROVE  HeapInv'
<1> DEFINE a == allocaddr(memlist, n)
           free == alloc(memlist, n)
           m == allocaddr(free, NodeSize)
           block == [addr |-> a, len |-> n, owner |-> p]
<1>1. Fits(memlist, n) # {} /\ UNCHANGED <<stack, hung>>
  BY DEF getmem
<1>2. \/ /\ Fits(free, NodeSize) # {}
         /\ memlist' = alloc(free, NodeSize)
         /\ mlength' = mlength - n - NodeSize
         /\ blocks' = blocks \cup {block}
         /\ node' = [x \in DOMAIN node \cup {m} |->
                      IF x = m THEN [memblockptr |-> a, mnext |-> header] ELSE node[x]]
         /\ header' = m
         /\ UNCHANGED wild
      \/ wild' = TRUE /\ UNCHANGED <<memlist, mlength, blocks, node, header>>
  BY Zenon DEF getmem
<1>3. n \in Nat \ {0} /\ NodeSize \in Nat \ {0} /\ n \in Sizes
  BY SizesPositive
<1>4. a \in Nat /\ Takes(memlist, a, n, free)
  BY <1>1, <1>3, Allocated DEF HeapInv, Shared
<1>5. block.addr = a /\ block.len = n /\ block.owner = p
      /\ (a \in 1..HeapSize => block \in Block)
  BY <1>3 DEF Block
<1> HIDE DEF a, free, block
<1>6. CASE /\ Fits(free, NodeSize) # {}
           /\ memlist' = alloc(free, NodeSize)
           /\ mlength' = mlength - n - NodeSize
           /\ blocks' = blocks \cup {block}
           /\ node' = [x \in DOMAIN node \cup {m} |->
                        IF x = m THEN [memblockptr |-> a, mnext |-> header] ELSE node[x]]
           /\ header' = m
           /\ UNCHANGED wild
  <2> DEFINE r == blockpart(block)
             s == Region("node", m, NodeSize, m)
  <2>1. Extent(r) = Units(a, n) /\ Extent(s) = Units(m, NodeSize)
    BY <1>5, ExtentOf DEF blockpart
  <2>2. /\ a \in 1..HeapSize
        /\ FreeList(free)
        /\ Tiling(Used \cup {r}, FreeUnits(free))
        /\ mlength - n = Cardinality(FreeUnits(free))
    <3> HIDE DEF r, s
    <3> DEFINE U == Used
    <3>1. Tiling(U, FreeUnits(memlist)) /\ mlength = Cardinality(FreeUnits(memlist))
      BY DEF HeapInv, Shared, LengthExact
    <3> HIDE DEF U
    <3>2. /\ a \in 1..HeapSize
          /\ FreeList(free)
          /\ Tiling(U \cup {r}, FreeUnits(free))
          /\ mlength - n = Cardinality(FreeUnits(free))
      BY <1>3, <1>4, <2>1, <3>1, TakenShared
    <3> QED BY <3>2 DEF U
  <2>3. m \in Nat /\ Takes(free, m, NodeSize, memlist')
    BY <1>3, <1>6, <2>2, Allocated
  <2>4. /\ m \in 1..HeapSize
        /\ FreeList(memlist')
        /\ Tiling((Used \cup {r}) \cup {s}, FreeUnits(memlist'))
        /\ mlength' = Cardinality(FreeUnits(memlist'))
    <3> HIDE DEF r, s
    <3> DEFINE U == Used \cup {r}
               k == mlength - n
               F == memlist'
               x == NodeSize
    <3>1. /\ Tiling(U, FreeUnits(free)) /\ k = Cardinality(FreeUnits(free))
          /\ m \in Nat /\ x \in Nat \ {0} /\ Takes(free, m, x, F) /\ Extent(s) = Units(m, x)
      BY <1>3, <2>1, <2>2, <2>3
    <3> HIDE DEF U, k, F, m, x
    <3>2. /\ m \in 1..HeapSize
          /\ FreeList(F)
          /\ Tiling(U \cup {s}, FreeUnits(F))
          /\ k - x = Cardinality(FreeUnits(F))
      BY <3>1, TakenShared
    <3> QED BY <1>6, <3>2 DEF U, k, F, x
  <2>5. DOMAIN node' = DOMAIN node \cup {m}
    BY <1>6
  <2>6. Used' = (Used \cup {r}) \cup {s}
    <3>1. nodeparts(DOMAIN node') = nodeparts(DOMAIN node) \cup {s}
      BY <2>5 DEF nodeparts
    <3>2. blockparts(blocks') = blockparts(blocks) \cup {r}
      BY <1>6 DEF blockparts
    <3> QED BY <1>1, <3>1, <3>2, UsedParts
  <2>7. Shared'
    BY <2>4, <2>6 DEF Shared, LengthExact
  <2>8. NodeType'
    <3> HIDE DEF m
    <3>1. links' = links \cup {m}
      BY <2>5 DEF links
    <3>2. header \in links /\ DOMAIN node \subseteq 1..HeapSize
          /\ \A x \in DOMAIN node : node[x] \in [memblockptr : 1..HeapSize, mnext : links]
      BY DEF HeapInv, NodeType
    <3>3. header' \in links' /\ DOMAIN node' \subseteq 1..HeapSize
      BY <1>6, <2>4, <2>5, <3>1, <3>2
    <3>4. ASSUME NEW x \in DOMAIN node'
          PROVE  node'[x] \in [memblockptr : 1..HeapSize, mnext : links']
      <4>1. CASE x = m
        <5>1. node'[x] = [memblockptr |-> a, mnext |-> header]
          BY <1>6, <2>5, <3>4, <4>1
        <5> QED BY <2>2, <3>1, <3>2, <5>1
      <4>2. CASE x # m
        <5>1. node'[x] = node[x] /\ x \in DOMAIN node
          BY <1>6, <2>5, <3>4, <4>2
        <5> QED BY <3>1, <3>2, <5>1
      <4> QED BY <4>1, <4>2
    <3> QED BY <3>3, <3>4 DEF NodeType
  <2>9. OwnerType'
    <3>1. blocks' \subseteq Block
      BY <1>5, <1>6, <2>2 DEF HeapInv, OwnerType
    <3>2. alive' = alive /\ stack' = stack
      BY <1>1 DEF alive
    <3>3. hung' \in BOOLEAN /\ wild' \in BOOLEAN
      BY <1>1, <1>6 DEF HeapInv, OwnerType
    <3> QED BY <3>1, <3>2, <3>3 DEF HeapInv, OwnerType
  <2> QED BY <2>7, <2>8, <2>9 DEF HeapInv
<1>7. CASE wild' = TRUE /\ UNCHANGED <<memlist, mlength, blocks, node, header>>
  <2>1. Shared'
    BY <1>1, <1>7, SharedStays DEF HeapInv
  <2>2. NodeType'
    BY <1>7 DEF HeapInv, NodeType, links
  <2>3. OwnerType'
    BY <1>1, <1>7 DEF HeapInv, OwnerType, alive
  <2> QED BY <2>1, <2>2, <2>3 DEF HeapInv
<1> QED BY <1>2, <1>6, <1>7

LEMMA FreememHolds ==
  ASSUME HeapInv, NEW b \in blocks, freemem(b)
  PROVE  HeapInv'
<1> DEFINE r == blockpart(b)
           a == b.addr
           n == b.len
<1>1. release(a, n) /\ blocks' = (IF hung' THEN blocks ELSE blocks \ {b}) /\ UNCHANGED <<stack, wild>>
  BY DEF freemem
<1>2. b \in Block /\ blocks \subseteq Block /\ a \in Nat /\ a \in 1..HeapSize /\ n \in Nat \ {0}
  <2>1. blocks \subseteq Block /\ b \in Block
    BY DEF HeapInv, OwnerType
  <2>2. b.addr \in 1..HeapSize /\ b.len \in Sizes
    BY <2>1 DEF Block
  <2>3. a \in Nat /\ a \in 1..HeapSize
    BY <2>2, SizesPositive
  <2>4. n \in Nat \ {0}
    BY <2>2, SizesPositive
  <2> QED BY <2>1, <2>3, <2>4
<1>3. r \in Used
  <2>1. r \in blockparts(blocks)
    BY DEF blockparts
  <2> QED BY <2>1, UsedParts
<1>4. Extent(r) = Units(a, n)
  BY ExtentOf DEF blockpart
<1> HIDE DEF r, a, n
<1>5. /\ NodeType' /\ DOMAIN node' = DOMAIN node /\ hung' \in BOOLEAN
      /\ hung' => memlist' = memlist /\ mlength' = mlength
      /\ ~hung' => /\ FreeList(memlist')
                   /\ Tiling(Used \ {r}, FreeUnits(memlist'))
                   /\ mlength' = Cardinality(FreeUnits(memlist'))
  BY <1>1, <1>2, <1>3, <1>4, Released DEF HeapInv
<1>6. OwnerType'
  <2>1. blocks' \subseteq Block
    BY <1>1, <1>2
  <2>2. alive' = alive /\ stack' = stack
    BY <1>1 DEF alive
  <2>3. wild' \in BOOLEAN
    BY <1>1 DEF HeapInv, OwnerType
  <2> QED BY <1>5, <2>1, <2>2, <2>3 DEF HeapInv, OwnerType
<1>7. CASE hung'
  <2>1. blocks' = blocks
    BY <1>1, <1>7
  <2>2. Used' = Used
    BY <1>1, <1>5, <2>1, UsedParts, Zenon
  <2>3. FreeList(memlist) /\ Tiling(Used, FreeUnits(memlist)) /\ mlength = Cardinality(FreeUnits(memlist))
    BY DEF HeapInv, Shared, LengthExact
  <2>4. Shared'
    BY <1>5, <1>7, <2>2, <2>3 DEF Shared, LengthExact
  <2> QED BY <1>5, <1>6, <2>4 DEF HeapInv
<1>8. CASE ~hung'
  <2>1. blocks' = blocks \ {b}
    BY <1>1, <1>8
  <2>2. Used' = Used \ {r}
    <3>1. blockparts(blocks') = blockparts(blocks) \ {r}
      BY <1>2, <2>1, BlockPartsWithout DEF r
    <3>2. r \notin nodeparts(DOMAIN node) \cup stackparts(stack)
      BY KindsDiffer DEF r
    <3>3. Used' = nodeparts(DOMAIN node) \cup (blockparts(blocks) \ {r}) \cup stackparts(stack)
      BY <1>1, <1>5, <3>1, UsedParts, Zenon
    <3>4. Used = nodeparts(DOMAIN node) \cup blockparts(blocks) \cup stackparts(stack)
      BY UsedParts
    <3> QED BY <3>2, <3>3, <3>4
  <2>3. Shared'
    BY <1>5, <1>8, <2>2 DEF Shared, LengthExact
  <2> QED BY <1>5, <1>6, <2>3 DEF HeapInv
<1> QED BY <1>7, <1>8

LEMMA CreateHolds ==
  ASSUME HeapInv, NEW p \in HeapProcs, create(p)
  PROVE  HeapInv'
<1> DEFINE a == stkaddr(memlist, StackSize)
           r == stackpart(a, p)
           n == StackSize
<1>1. /\ p \notin alive /\ Fits(memlist, n) # {}
      /\ stack' = [q \in alive \cup {p} |-> IF q = p THEN a ELSE stack[q]]
      /\ memlist' = allocstk(memlist, n)
      /\ mlength' = mlength - n
      /\ header' = NULL
      /\ UNCHANGED <<node, blocks, hung, wild>>
  BY DEF create
<1>2. n \in Nat \ {0}
  BY SizesPositive
<1>3. a \in Nat /\ Takes(memlist, a, n, memlist')
  BY <1>1, <1>2, StackAllocated DEF HeapInv, Shared
<1>4. Extent(r) = Units(a, n)
  BY ExtentOf DEF stackpart
<1>5. /\ a \in 1..HeapSize
      /\ FreeList(memlist')
      /\ Tiling(Used \cup {r}, FreeUnits(memlist'))
      /\ mlength' = Cardinality(FreeUnits(memlist'))
  <2> DEFINE U == Used
             F == memlist'
             x == n
  <2>1. /\ Tiling(U, FreeUnits(memlist)) /\ mlength = Cardinality(FreeUnits(memlist))
        /\ a \in Nat /\ x \in Nat \ {0} /\ Takes(memlist, a, x, F) /\ Extent(r) = Units(a, x)
    BY <1>2, <1>3, <1>4 DEF HeapInv, Shared, LengthExact
  <2> HIDE DEF U, F, x, a, r
  <2>2. /\ a \in 1..HeapSize
        /\ FreeList(F)
        /\ Tiling(U \cup {r}, FreeUnits(F))
        /\ mlength - x = Cardinality(FreeUnits(F))
    BY <2>1, TakenShared
  <2> QED BY <1>1, <2>2 DEF U, F, x
<1> HIDE DEF a
<1>6. Used' = Used \cup {r}
  <2>1. stackparts(stack') = stackparts(stack) \cup {r}
    BY <1>1, StackPartsWith DEF alive
  <2> QED BY <1>1, <2>1, UsedParts
<1>7. Shared'
  BY <1>5, <1>6 DEF Shared, LengthExact
<1>8. NodeType'
  BY <1>1 DEF HeapInv, NodeType, links
<1>9. alive' = alive \cup {p} /\ stack'[p] = a /\ \A q \in alive : stack'[q] = stack[q]
  BY <1>1 DEF alive
<1>10. OwnerType'
  <2>1. blocks' \subseteq Block /\ hung' \in BOOLEAN /\ wild' \in BOOLEAN
    BY <1>1 DEF HeapInv, OwnerType
  <2>2. alive \subseteq HeapProcs /\ \A q \in alive : stack[q] \in 1..HeapSize
    BY DEF HeapInv, OwnerType
  <2> QED BY <1>5, <1>9, <2>1, <2>2 DEF OwnerType
<1> QED BY <1>7, <1>8, <1>10 DEF HeapInv

LEMMA KillHolds ==
  ASSUME HeapInv, NEW p \in HeapProcs, kill(p)
  PROVE  HeapInv'
<1> DEFINE a == stack[p]
           r == stackpart(a, p)
           n == StackSize
<1>1. /\ p \in alive /\ alive # {p} /\ release(a, n) /\ wild' = wild
      /\ hung' => stack' = stack /\ blocks' = blocks
      /\ ~hung' => /\ stack' = [q \in alive \ {p} |-> stack[q]]
                   /\ blocks' = orphans(blocks, p)
  BY DEF kill, orphaned, orphans
<1>2. /\ a \in Nat /\ n \in Nat \ {0} /\ blocks \subseteq Block /\ wild \in BOOLEAN
      /\ alive \subseteq HeapProcs /\ \A q \in alive : stack[q] \in 1..HeapSize
  BY <1>1, SizesPositive DEF HeapInv, OwnerType
<1>3. r \in Used
  <2>1. r \in stackparts(stack)
    BY <1>1 DEF stackparts, alive
  <2> QED BY <2>1, UsedParts
<1>4. Extent(r) = Units(a, n)
  BY ExtentOf DEF stackpart
<1>5. /\ NodeType' /\ DOMAIN node' = DOMAIN node /\ hung' \in BOOLEAN
      /\ hung' => memlist' = memlist /\ mlength' = mlength
      /\ ~hung' => /\ FreeList(memlist')
                   /\ Tiling(Used \ {r}, FreeUnits(memlist'))
                   /\ mlength' = Cardinality(FreeUnits(memlist'))
  <2> HIDE DEF a, n, r
  <2> QED BY <1>1, <1>2, <1>3, <1>4, Released DEF HeapInv
<1>6. CASE hung'
  <2>1. stack' = stack /\ blocks' = blocks
    BY <1>1, <1>6
  <2>2. Used' = Used
    BY <1>5, <2>1, UsedParts, Zenon
  <2>3. FreeList(memlist) /\ Tiling(Used, FreeUnits(memlist)) /\ mlength = Cardinality(FreeUnits(memlist))
    BY DEF HeapInv, Shared, LengthExact
  <2>4. Shared'
    BY <1>5, <1>6, <2>2, <2>3 DEF Shared, LengthExact
  <2>5. alive' = alive
    BY <2>1 DEF alive
  <2>6. OwnerType'
    BY <1>1, <1>5, <2>1, <2>5 DEF HeapInv, OwnerType
  <2> QED BY <1>5, <2>4, <2>6 DEF HeapInv
<1>7. CASE ~hung'
  <2>1. stack' = [q \in alive \ {p} |-> stack[q]] /\ blocks' = orphans(blocks, p)
    BY <1>1, <1>7
  <2>2. alive' = alive \ {p} /\ \A q \in alive' : stack'[q] = stack[q]
    BY <2>1 DEF alive
  <2>3. stackparts(stack') = stackparts(stack) \ {r}
    BY <1>1, <2>1, StackPartsWithout DEF alive
  <2>4. Used \ {r} = nodeparts(DOMAIN node) \cup blockparts(blocks) \cup stackparts(stack')
    <3>1. r \notin nodeparts(DOMAIN node) \cup blockparts(blocks)
      BY KindsDiffer
    <3>2. Used = nodeparts(DOMAIN node) \cup blockparts(blocks) \cup stackparts(stack)
      BY UsedParts
    <3> HIDE DEF r
    <3> QED BY <2>3, <3>1, <3>2
  <2>5. Used' = nodeparts(DOMAIN node) \cup blockparts(blocks') \cup stackparts(stack')
    BY <1>5, UsedParts, Zenon
  <2>6. Tiling(Used', FreeUnits(memlist'))
    <3> DEFINE D == DOMAIN node
               B == blocks
               s == stack'
               F == FreeUnits(memlist')
    <3>1. B \subseteq Block
          /\ Tiling(nodeparts(D) \cup blockparts(B) \cup stackparts(s), F)
      BY <1>2, <1>5, <1>7, <2>4
    <3> HIDE DEF D, B, s, F
    <3>2. Tiling(nodeparts(D) \cup blockparts(orphans(B, p)) \cup stackparts(s), F)
      BY <3>1, OrphanedTiling
    <3> QED BY <2>1, <2>5, <3>2 DEF D, B, s, F
  <2>7. Shared'
    BY <1>5, <1>7, <2>6 DEF Shared, LengthExact
  <2>8. OwnerType'
    <3>1. blocks' \subseteq Block
      BY <1>2, <2>1, OrphanedBlock DEF orphans
    <3>2. alive' # {}
      BY <1>1, <2>2
    <3> QED BY <1>1, <1>2, <1>5, <2>2, <3>1, <3>2 DEF OwnerType
  <2> QED BY <1>5, <2>7, <2>8 DEF HeapInv
<1> QED BY <1>6, <1>7

LEMMA NextHolds ==
  ASSUME HeapInv, [Next]_heapVars
  PROVE  HeapInv'
<1>1. CASE UNCHANGED heapVars
  <2>1. Shared'
    BY <1>1, SharedStays DEF HeapInv, heapVars
  <2>2. NodeType'
    BY <1>1 DEF HeapInv, NodeType, links, heapVars
  <2>3. OwnerType'
    BY <1>1 DEF HeapInv, OwnerType, alive, heapVars
  <2> QED BY <2>1, <2>2, <2>3 DEF HeapInv
<1>2. ASSUME NEW p \in HeapProcs, create(p) PROVE HeapInv'
  BY <1>2, CreateHolds
<1>3. ASSUME NEW p \in HeapProcs, kill(p) PROVE HeapInv'
  BY <1>3, KillHolds
<1>4. ASSUME NEW p \in HeapProcs, NEW n \in Sizes, getmem(p, n) PROVE HeapInv'
  BY <1>4, GetmemHolds
<1>5. ASSUME NEW b \in blocks, freemem(b) PROVE HeapInv'
  BY <1>5, FreememHolds
<1> QED BY <1>1, <1>2, <1>3, <1>4, <1>5 DEF Next, stopped

LEMMA HeapInvariant == Spec => []HeapInv
<1>1. Init => HeapInv
  BY InitHolds
<1>2. HeapInv /\ [Next]_heapVars => HeapInv'
  BY NextHolds
<1> QED BY <1>1, <1>2, PTL DEF Spec

-----------------------------------------------------------------------------
(* The list of blocks in use is a chain or a cycle                         *)

LEMMA GetmemListed ==
  ASSUME HeapInv, ListInv, NEW p \in HeapProcs, NEW n \in Sizes, getmem(p, n)
  PROVE  ListInv'
<1> DEFINE a == allocaddr(memlist, n)
           free == alloc(memlist, n)
           m == allocaddr(free, NodeSize)
           block == [addr |-> a, len |-> n, owner |-> p]
<1>1. Fits(memlist, n) # {}
  BY DEF getmem
<1>2. \/ /\ Fits(free, NodeSize) # {}
         /\ blocks' = blocks \cup {block}
         /\ node' = [x \in DOMAIN node \cup {m} |->
                      IF x = m THEN [memblockptr |-> a, mnext |-> header] ELSE node[x]]
         /\ header' = m
      \/ UNCHANGED <<blocks, node, header>>
  BY Zenon DEF getmem
<1>3. n \in Nat \ {0} /\ NodeSize \in Nat \ {0}
  BY SizesPositive
<1>4. a \in Nat /\ Takes(memlist, a, n, free)
  BY <1>1, <1>3, Allocated DEF HeapInv, Shared
<1>5. block.addr = a
  OBVIOUS
<1> HIDE DEF a, free, block
<1>6. CASE UNCHANGED <<blocks, node, header>>
  BY <1>6 DEF ListInv
<1>7. CASE /\ Fits(free, NodeSize) # {}
           /\ blocks' = blocks \cup {block}
           /\ node' = [x \in DOMAIN node \cup {m} |->
                        IF x = m THEN [memblockptr |-> a, mnext |-> header] ELSE node[x]]
           /\ header' = m
  <2>1. m \in Nat /\ Takes(free, m, NodeSize, alloc(free, NodeSize))
    BY <1>3, <1>4, <1>7, Allocated DEF Takes
  <2> HIDE DEF m
  <2>2. a \in FreeUnits(memlist) /\ m \in FreeUnits(memlist)
    <3>1. a \in Units(a, n) /\ m \in Units(m, NodeSize)
      <4>1. a \in Int /\ a <= a /\ a < a + n /\ n \in Int
        BY <1>3, <1>4
      <4>2. m \in Int /\ m <= m /\ m < m + NodeSize /\ NodeSize \in Int
        BY <1>3, <2>1
      <4> QED BY <4>1, <4>2, InUnits
    <3>2. m \in FreeUnits(free)
      BY <2>1, <3>1 DEF Takes
    <3> QED BY <1>4, <3>1, <3>2 DEF Takes
  <2>3. m \notin DOMAIN node
    <3> SUFFICES ASSUME m \in DOMAIN node PROVE FALSE
      OBVIOUS
    <3> DEFINE r == Region("node", m, NodeSize, m)
    <3>1. r \in Used
      <4>1. r \in nodeparts(DOMAIN node)
        BY DEF nodeparts
      <4> QED BY <4>1, UsedParts
    <3>2. m \in Extent(r)
      <4>1. m \in Int /\ m <= m /\ m < m + NodeSize /\ NodeSize \in Int
        BY <1>3, <2>1
      <4> QED BY <4>1, InUnits, ExtentOf
    <3> QED BY <2>2, <3>1, <3>2, TilingIn DEF HeapInv, Shared
  <2>4. \A b \in blocks : b.addr # a
    <3> SUFFICES ASSUME NEW b \in blocks, b.addr = a PROVE FALSE
      OBVIOUS
    <3>1. blockpart(b) \in Used
      <4>1. blockpart(b) \in blockparts(blocks)
        BY DEF blockparts
      <4> QED BY <4>1, UsedParts
    <3>2. a \in Extent(blockpart(b))
      <4>1. b.len \in Nat /\ b.len > 0
        <5>1. b.len \in Sizes
          BY DEF HeapInv, OwnerType, Block
        <5>2. b.len \in Nat \ {0}
          BY <5>1, SizesPositive
        <5> QED BY <5>2
      <4>2. a \in Int /\ a <= a /\ a < a + b.len /\ b.len \in Int
        BY <1>4, <4>1
      <4>3. a \in Units(a, b.len)
        BY <4>2, InUnits
      <4> QED BY <4>3, ExtentOf DEF blockpart
    <3> QED BY <2>2, <3>1, <3>2, TilingIn DEF HeapInv, Shared
  <2>5. /\ m # NULL /\ DOMAIN node' = DOMAIN node \cup {m} /\ header' = m
        /\ node'[m].memblockptr = a /\ node'[m].mnext = header
        /\ \A x \in DOMAIN node : node'[x] = node[x]
    <3>1. m \in 1..HeapSize
      BY <2>2, TilingIn DEF HeapInv, Shared
    <3>2. m # NULL
      BY <3>1, SizesPositive DEF NULL
    <3> QED BY <1>7, <2>3, <3>2
  <2>6. ASSUME NEW R, Chain(node, header, blocks, R) PROVE ListInv'
    <3> DEFINE Q == R \cup {m}
    <3>1. R \subseteq DOMAIN node /\ m \notin R
      BY <2>3, <2>6 DEF Chain
    <3>2. /\ Q \subseteq DOMAIN node' /\ header' \in Q
          /\ \A x \in R : node'[x] = node[x]
      BY <2>5, <3>1
    <3>3. \A x \in Q : node'[x].mnext = NULL \/ (node'[x].mnext \in Q /\ node'[x].mnext # header')
      BY <2>5, <2>6, <3>1, <3>2 DEF Chain
    <3>4. \A x, y \in Q : node'[x].mnext = node'[y].mnext /\ node'[x].mnext # NULL => x = y
      <4>1. \A x \in R : node'[x].mnext # NULL => node'[x].mnext # header
        BY <2>6, <3>2 DEF Chain
      <4>2. \A x, y \in R : node'[x].mnext = node'[y].mnext /\ node'[x].mnext # NULL => x = y
        BY <2>6, <3>2 DEF Chain
      <4> QED BY <2>5, <4>1, <4>2
    <3>5. \A x, y \in Q : node'[x].memblockptr = node'[y].memblockptr => x = y
      <4>1. \A x \in R : node'[x].memblockptr # a
        BY <2>4, <2>6, <3>2 DEF Chain
      <4>2. \A x, y \in R : node'[x].memblockptr = node'[y].memblockptr => x = y
        BY <2>6, <3>2 DEF Chain
      <4> QED BY <2>5, <4>1, <4>2
    <3>6. \A x \in Q : \E b \in blocks' : b.addr = node'[x].memblockptr
      <4>1. \A x \in R : \E b \in blocks' : b.addr = node'[x].memblockptr
        <5>1. \A b \in blocks : b \in blocks'
          BY <1>7
        <5>2. \A x \in R : \E b \in blocks : b.addr = node[x].memblockptr
          BY <2>6 DEF Chain
        <5> QED BY <3>2, <5>1, <5>2
      <4>2. block \in blocks' /\ block.addr = node'[m].memblockptr
        BY <1>5, <1>7, <2>5
      <4> QED BY <4>1, <4>2
    <3> HIDE DEF Q
    <3>7. Chain(node', header', blocks', Q)
      BY <3>2, <3>3, <3>4, <3>5, <3>6 DEF Chain
    <3> QED BY <3>7 DEF ListInv
  <2>7. ASSUME NEW S, Cycle(node, header, S) PROVE ListInv'
    <3>1. Cycle(node', header', S \cup {m})
      BY <2>3, <2>5, <2>7 DEF Cycle
    <3> QED BY <3>1 DEF ListInv
  <2> QED BY <2>6, <2>7 DEF ListInv
<1> QED BY <1>2, <1>6, <1>7

LEMMA FreememListed ==
  ASSUME HeapInv, ListInv, NEW b \in blocks, freemem(b)
  PROVE  ListInv'
<1>1. memextract(b.addr) /\ blocks' = (IF hung' THEN blocks ELSE blocks \ {b})
  BY DEF freemem, release
<1>2. \A c \in blocks : c.addr = b.addr \/ \E d \in blocks' : d.addr = c.addr
  BY <1>1
<1> QED BY <1>1, <1>2, ExtractListed DEF HeapInv

LEMMA KillListed ==
  ASSUME HeapInv, ListInv, NEW p \in HeapProcs, kill(p)
  PROVE  ListInv'
<1>1. /\ memextract(stack[p])
      /\ hung' => blocks' = blocks
      /\ ~hung' => blocks' = orphans(blocks, p)
  BY DEF kill, release, orphaned, orphans
<1>2. ASSUME NEW b \in blocks PROVE \E c \in blocks' : c.addr = b.addr
  <2>1. CASE hung'
    BY <1>1, <2>1
  <2>2. CASE ~hung'
    <3>1. orphaned(b, p).addr = b.addr
      BY OrphanedBlock DEF HeapInv, OwnerType
    <3> QED BY <1>1, <2>2, <3>1 DEF orphans
  <2> QED BY <2>1, <2>2
<1> QED BY <1>1, <1>2, ExtractListed DEF HeapInv

LEMMA ListInvariant == Spec => []ListInv
<1>1. Init => ListInv
  <2> SUFFICES ASSUME Init PROVE ListInv
    OBVIOUS
  <2>1. header = NULL
    BY DEF Init
  <2>2. Chain(node, header, blocks, {})
    BY <2>1, EmptyChain
  <2> QED BY <2>2 DEF ListInv
<1>2. HeapInv /\ ListInv /\ [Next]_heapVars => ListInv'
  <2> SUFFICES ASSUME HeapInv, ListInv, [Next]_heapVars PROVE ListInv'
    OBVIOUS
  <2>1. CASE UNCHANGED heapVars
    BY <2>1 DEF ListInv, heapVars
  <2>2. ASSUME NEW p \in HeapProcs, create(p) PROVE ListInv'
    <3>1. header' = NULL
      BY <2>2 DEF create
    <3>2. Chain(node', header', blocks', {})
      BY <3>1, EmptyChain
    <3> QED BY <3>2 DEF ListInv
  <2>3. ASSUME NEW p \in HeapProcs, kill(p) PROVE ListInv'
    BY <2>3, KillListed
  <2>4. ASSUME NEW p \in HeapProcs, NEW n \in Sizes, getmem(p, n) PROVE ListInv'
    BY <2>4, GetmemListed
  <2>5. ASSUME NEW b \in blocks, freemem(b) PROVE ListInv'
    BY <2>5, FreememListed
  <2> QED BY <2>1, <2>2, <2>3, <2>4, <2>5 DEF Next, stopped
<1> QED BY <1>1, <1>2, HeapInvariant, PTL DEF Spec

-----------------------------------------------------------------------------
(* The theorems                                                            *)

\* A piece is in the memory.
LEMMA PieceInMemory ==
  ASSUME HeapInv, NEW i \in 1..Len(memlist)
  PROVE  /\ memlist[i].addr \in 1..HeapSize
         /\ memlist[i].len \in 1..HeapSize
         /\ memlist[i] \in Piece
         /\ Units(memlist[i].addr, memlist[i].len) \subseteq FreeUnits(memlist)
<1> DEFINE a == memlist[i].addr
           n == memlist[i].len
<1>1. FreeList(memlist) /\ FreeUnits(memlist) \subseteq 1..HeapSize
  BY TilingIn DEF HeapInv, Shared
<1>2. memlist[i] \in Piece /\ a \in Nat /\ n \in Nat /\ n > 0
  BY <1>1, PieceType
<1>3. Units(a, n) \subseteq FreeUnits(memlist)
  BY DEF FreeUnits
<1> HIDE DEF a, n
<1>4. a \in Units(a, n) /\ a + n - 1 \in Units(a, n)
  <2>1. /\ a \in Int /\ a <= a /\ a < a + n /\ n \in Int
        /\ a + n - 1 \in Int /\ a <= a + n - 1 /\ a + n - 1 < a + n
    BY <1>2
  <2> QED BY <2>1, InUnits
<1>5. a \in 1..HeapSize /\ a + n - 1 \in 1..HeapSize
  BY <1>1, <1>3, <1>4
<1>6. n \in 1..HeapSize
  BY <1>2, <1>5, SizesPositive
<1> QED BY <1>2, <1>3, <1>5, <1>6 DEF a, n

\* The variables keep their types: nodes and blocks are in the memory, and the
\* list of blocks in use leads from node to node (getmem.c, memextract.c).
THEOREM HeapTypeCorrect == Spec => []TypeOK
<1>1. HeapInv => TypeOK
  <2> SUFFICES ASSUME HeapInv PROVE TypeOK
    OBVIOUS
  <2> DEFINE T == [addr : 1..HeapSize, len : 1..HeapSize]
  <2>1. memlist \in Seq(T)
    <3>1. memlist \in Seq(Piece)
      BY DEF HeapInv, Shared, FreeList
    <3>2. Len(memlist) \in Nat /\ memlist \in [1..Len(memlist) -> Piece]
      BY <3>1, LenProperties
    <3>3. \A i \in 1..Len(memlist) : memlist[i] \in T
      BY PieceInMemory DEF Piece
    <3> HIDE DEF T
    <3>4. memlist \in [1..Len(memlist) -> T]
      BY <3>2, <3>3
    <3> QED BY <3>2, <3>4, SeqDef
  <2>2. mlength \in 0..HeapSize
    <3>1. FreeUnits(memlist) \subseteq 1..HeapSize
      BY TilingIn DEF HeapInv, Shared
    <3> QED BY <3>1, MemoryFinite DEF HeapInv, Shared, LengthExact
  <2> QED BY <2>1, <2>2 DEF HeapInv, NodeType, OwnerType, TypeOK, links, Block
<1> QED BY <1>1, HeapInvariant, PTL

\* Whatever is allocated and freed in whatever order, the blocks of the free list are
\* in address order with memory in use between them, and memlist.mlength is the number
\* of free units (freemem.c:37-76, getmem.c:26-57, getstk.c:26-54).
THEOREM FreeListCorrect == Spec => []FreeListExact
<1>1. HeapInv => FreeListExact
  <2> SUFFICES ASSUME HeapInv PROVE FreeListExact
    OBVIOUS
  <2>1. FreeList(memlist) /\ LengthExact
    BY DEF HeapInv, Shared
  <2>2. FreeListCoalesced
    <3> SUFFICES ASSUME NEW i \in 1..(Len(memlist) - 1)
                 PROVE  memlist[i].addr + memlist[i].len < memlist[i + 1].addr
      BY DEF FreeListCoalesced
    <3>1. i \in 1..Len(memlist) /\ i + 1 \in 1..Len(memlist) /\ i < i + 1
      BY <2>1, PieceType
    <3> QED BY <2>1, <3>1 DEF FreeList
  <2> QED BY <2>1, <2>2 DEF FreeListExact
<1> QED BY <1>1, HeapInvariant, PTL

\* The free blocks, the blocks in use, their nodes and the stacks never share a unit
\* of memory and no unit is lost (getmem.c:51, getstk.c:46, freemem.c:60).
THEOREM PartitionCorrect == Spec => []Partition
<1>1. HeapInv => Partition
  <2> SUFFICES ASSUME HeapInv PROVE Partition
    OBVIOUS
  <2> DEFINE part(i) == Region("free", memlist[i].addr, memlist[i].len, i)
             N == Len(memlist)
             F == FreeUnits(memlist)
             P == {part(i) : i \in 1..N}
             U == Used
  <2>0. Regions = P \cup U
    BY DEF Regions
  <2>1. Tiling(U, F)
    BY DEF HeapInv, Shared
  <2>2. FreeList(memlist)
    BY DEF HeapInv, Shared
  <2>3. \A i \in 1..N : Extent(part(i)) = Units(memlist[i].addr, memlist[i].len)
    BY ExtentOf
  <2>4. \A i \in 1..N : \A u : u \in Extent(part(i)) <=> Has(memlist, i, u)
    BY <2>2, <2>3, PieceType, InUnits DEF Has
  <2> HIDE DEF part, N, F, U
  <2>5. \A u : u \in F <=> \E i \in 1..N : u \in Extent(part(i))
    BY <2>2, <2>4, InFreeUnits DEF F, N
  <2>6. \A i, j \in 1..N : i # j => Extent(part(i)) \cap Extent(part(j)) = {}
    BY <2>2, <2>4, PiecesApart DEF N
  <2>7. \A r \in P : Extent(r) \subseteq F
    BY <2>5
  <2>8. \A r, s \in Regions : r # s => Extent(r) \cap Extent(s) = {}
    <3> SUFFICES ASSUME NEW r \in Regions, NEW s \in Regions, r # s
                 PROVE  Extent(r) \cap Extent(s) = {}
      OBVIOUS
    <3>1. CASE r \in P /\ s \in P
      BY <2>6, <3>1
    <3>2. CASE r \in U /\ s \in U
      BY <2>1, <3>2 DEF Tiling
    <3>3. CASE r \in P /\ s \in U
      BY <2>1, <2>7, <3>3 DEF Tiling
    <3>4. CASE r \in U /\ s \in P
      BY <2>1, <2>7, <3>4 DEF Tiling
    <3> QED BY <2>0, <3>1, <3>2, <3>3, <3>4
  <2>9. UNION {Extent(r) : r \in Regions} = 1..HeapSize
    <3>1. \A u : u \in UNION {Extent(r) : r \in Regions} <=> \E r \in Regions : u \in Extent(r)
      OBVIOUS
    <3>2. \A u : (\E r \in Regions : u \in Extent(r)) <=> u \in F \/ \E r \in U : u \in Extent(r)
      BY <2>0, <2>5
    <3>3. \A u : u \in 1..HeapSize <=> u \in F \/ \E r \in U : u \in Extent(r)
      BY <2>1 DEF Tiling
    <3> QED BY <3>1, <3>2, <3>3
  <2> QED BY <2>8, <2>9 DEF Partition
<1> QED BY <1>1, HeapInvariant, PTL

\* A node that a search can still meet stands for a block that is in use, unless the
\* search for a stack has closed the list to a cycle, on which no search ends
\* (memextract.c:21-40, meminsert.c).
THEOREM ListedCorrect == Spec => []ListedInUse
<1>1. HeapInv /\ ListInv => ListedInUse
  <2> SUFFICES ASSUME HeapInv, ListInv, NEW x \in Listed
               PROVE  \/ \E b \in blocks : b.addr = node[x].memblockptr
                      \/ NULL \notin {Walk[i] : i \in DOMAIN Walk}
    BY DEF ListedInUse
  <2>1. x # NULL /\ \E i \in DOMAIN Walk : x = Walk[i]
    BY DEF Listed
  <2>2. ASSUME NEW R, Chain(node, header, blocks, R)
        PROVE  \E b \in blocks : b.addr = node[x].memblockptr
    <3>1. x \in R
      BY <2>1, <2>2, ChainWalk DEF HeapInv
    <3> QED BY <2>2, <3>1 DEF Chain
  <2>3. ASSUME NEW S, Cycle(node, header, S)
        PROVE  NULL \notin {Walk[i] : i \in DOMAIN Walk}
    BY <2>3, CycleWalk DEF HeapInv
  <2> QED BY <2>2, <2>3 DEF ListInv
<1> QED BY <1>1, HeapInvariant, ListInvariant, PTL
=============================================================================
