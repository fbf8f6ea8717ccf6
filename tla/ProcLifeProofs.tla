--------------------------- MODULE ProcLifeProofs ---------------------------
(***************************************************************************)
(* The heap and the process table for every size and number of processes:  *)
(* the free and the used blocks tile the heap, and, where one process does *)
(* the spawning as in this system, a row being created is nobody else's,   *)
(* every process runs on a stack of its own and no stack is leaked.        *)
(***************************************************************************)
EXTENDS ProcLife, SequenceTheorems, WellFoundedInduction, TLAPS

-----------------------------------------------------------------------------
(* Least and greatest indices.                                             *)

LEMMA MinIs ==
    ASSUME NEW S \in SUBSET Nat, S # {}
    PROVE  Min(S) \in S /\ \A x \in S : Min(S) <= x
<1>1. \E x \in S : \A y \in S : ~(<<y, x>> \in OpToRel(<, Nat))
    BY NatLessThanWellFounded, WFMin
<1>2. PICK x \in S : \A y \in S : ~(<<y, x>> \in OpToRel(<, Nat))
    BY <1>1
<1>3. \A y \in S : x <= y
    <2>1. \A y \in S : ~(y < x)
        BY <1>2 DEF OpToRel
    <2> QED BY <2>1
<1>4. \E m \in S : \A y \in S : m <= y
    BY <1>3
<1>5. Min(S) = CHOOSE m \in S : \A y \in S : m <= y
    BY DEF Min
<1> QED
    BY <1>4, <1>5

LEMMA MaxIs ==
    ASSUME NEW N \in Nat, NEW S \in SUBSET (0 .. N), S # {}
    PROVE  Max(S) \in S /\ \A x \in S : x <= Max(S)
<1> DEFINE T == {N - x : x \in S}
<1>1. T \in SUBSET Nat /\ T # {}
    <2>1. \A x \in S : N - x \in Nat
        OBVIOUS
    <2> QED BY <2>1
<1>2. Min(T) \in T /\ \A y \in T : Min(T) <= y
    BY <1>1, MinIs
<1>3. PICK m \in S : Min(T) = N - m
    BY <1>2
<1>4. \A x \in S : N - m <= N - x
    BY <1>2, <1>3
<1>5. \A x \in S : m >= x
    BY <1>4
<1>6. \E k \in S : \A x \in S : k >= x
    BY <1>5
<1>7. Max(S) = CHOOSE k \in S : \A x \in S : k >= x
    BY DEF Max
<1>8. Max(S) \in S /\ \A x \in S : Max(S) >= x
    BY <1>6, <1>7
<1> QED
    BY <1>8

-----------------------------------------------------------------------------
(* Blocks that tile the heap.                                              *)

GoodBlock(b) ==
    b \in Block /\ EndOf(b) <= HeapEnd /\ b.size >= MinAlloc /\ b.size % Granule = 0

Apart(a, b) == EndOf(a) <= b.addr \/ EndOf(b) <= a.addr

Tiles(S) ==
    /\ \A b \in S : GoodBlock(b)
    /\ \A a, b \in S : a = b \/ Apart(a, b)
    /\ \A x \in HeapStart .. HeapEnd - 1 : \E b \in S : b.addr <= x /\ x < EndOf(b)

LEMMA HeapSizes ==
    /\ Granule \in Nat \ {0} /\ Header \in Nat /\ Header >= 1
    /\ HeapStart \in Nat \ {0} /\ HeapEnd \in Nat \ {0} /\ MinAlloc \in Nat \ {0}
    /\ HeapStart % Granule = 0 /\ HeapEnd % Granule = 0 /\ MinAlloc % Granule = 0
    /\ HeapStart + MinAlloc <= HeapEnd
<1>1. \A n \in {HeapStart, HeapEnd, MinAlloc} : n \in Nat \ {0} /\ n % Granule = 0
    BY HeapAssumption
<1>2. /\ HeapStart \in Nat \ {0} /\ HeapEnd \in Nat \ {0} /\ MinAlloc \in Nat \ {0}
      /\ HeapStart % Granule = 0 /\ HeapEnd % Granule = 0 /\ MinAlloc % Granule = 0
    BY <1>1, Zenon
<1>3. /\ Granule \in Nat \ {0} /\ Header \in 1 .. Granule
      /\ HeapStart + MinAlloc <= HeapEnd
    BY HeapAssumption, Zenon
<1>4. Header \in Nat /\ Header >= 1
    BY <1>3
<1> QED
    BY <1>2, <1>3, <1>4, Zenon

LEMMA BlockFields ==
    ASSUME NEW b \in Block
    PROVE  /\ b.addr \in HeapStart .. HeapEnd /\ b.size \in 1 .. HeapEnd
           /\ b.addr \in Int /\ b.size \in Int /\ b.size >= 1 /\ b.addr >= HeapStart
           /\ b = [addr |-> b.addr, size |-> b.size] /\ EndOf(b) = b.addr + b.size
           /\ EndOf(b) \in Int /\ b # NoBlock
<1>1. HeapStart \in Nat \ {0} /\ HeapEnd \in Nat
    BY HeapSizes
<1>2. b.addr \in HeapStart .. HeapEnd /\ b.size \in 1 .. HeapEnd /\ b = [addr |-> b.addr, size |-> b.size]
    BY DEF Block
<1>3. b.addr # 0
    BY <1>1, <1>2
<1>4. b # NoBlock
    BY <1>3 DEF NoBlock
<1> QED
    BY <1>1, <1>2, <1>4 DEF EndOf

LEMMA MadeBlock ==
    ASSUME NEW a \in Int, NEW n \in Int, a >= HeapStart, n >= 1, a + n <= HeapEnd
    PROVE  LET b == [addr |-> a, size |-> n]
           IN  b \in Block /\ EndOf(b) = a + n /\ b.addr = a /\ b.size = n
<1>1. a \in HeapStart .. HeapEnd /\ n \in 1 .. HeapEnd
    BY HeapSizes
<1> QED
    BY <1>1 DEF Block, EndOf

\* Two blocks that are apart are different, and a block is not apart from itself.
LEMMA ApartDiffer ==
    ASSUME NEW a \in Block, NEW b \in Block, Apart(a, b) PROVE a # b /\ a.addr # b.addr
BY BlockFields DEF Apart

\* A block is cut in two.
LEMMA CutTiles ==
    ASSUME NEW S, Tiles(S), NEW b \in S, NEW c, NEW d, GoodBlock(c), GoodBlock(d),
           c.addr = b.addr, EndOf(c) = d.addr, EndOf(d) = EndOf(b)
    PROVE  Tiles((S \ {b}) \cup {c, d})
<1> DEFINE T == (S \ {b}) \cup {c, d}
<1>1. \A x \in S : x \in Block /\ x.addr \in Int /\ EndOf(x) \in Int /\ x.addr < EndOf(x)
    BY BlockFields DEF Tiles, GoodBlock
<1>2. /\ c.addr \in Int /\ d.addr \in Int /\ EndOf(c) \in Int /\ EndOf(d) \in Int
      /\ c.addr < EndOf(c) /\ d.addr < EndOf(d)
    BY BlockFields DEF GoodBlock
<1>3. \A x \in T : GoodBlock(x)
    BY DEF Tiles
<1>4. ASSUME NEW x \in T, NEW y \in T, x # y PROVE Apart(x, y)
    <2>1. \A z \in S \ {b} : Apart(z, b)
        BY DEF Tiles
    <2>2. \A z \in S \ {b} : Apart(z, c) /\ Apart(z, d) /\ Apart(c, z) /\ Apart(d, z)
        BY <1>1, <1>2, <2>1 DEF Apart
    <2>3. Apart(c, d) /\ Apart(d, c)
        BY <1>2 DEF Apart
    <2>4. \A z, w \in S \ {b} : z = w \/ Apart(z, w)
        BY DEF Tiles
    <2> QED BY <1>4, <2>2, <2>3, <2>4
<1>5. ASSUME NEW x \in HeapStart .. HeapEnd - 1 PROVE \E z \in T : z.addr <= x /\ x < EndOf(z)
    <2>1. PICK z \in S : z.addr <= x /\ x < EndOf(z)
        BY DEF Tiles
    <2>2. CASE z # b
        BY <2>1, <2>2
    <2>3. CASE z = b
        <3>1. x \in Int
            BY HeapSizes
        <3>2. (c.addr <= x /\ x < EndOf(c)) \/ (d.addr <= x /\ x < EndOf(d))
            BY <1>1, <1>2, <2>1, <2>3, <3>1
        <3> QED BY <3>2
    <2> QED BY <2>2, <2>3
<1> QED
    BY <1>3, <1>4, <1>5 DEF Tiles

\* Two blocks that touch become one.
LEMMA JoinTiles ==
    ASSUME NEW S, Tiles(S), NEW b \in S, NEW c \in S, EndOf(b) = c.addr, NEW d, GoodBlock(d),
           d.addr = b.addr, EndOf(d) = EndOf(c)
    PROVE  Tiles((S \ {b, c}) \cup {d})
<1> DEFINE T == (S \ {b, c}) \cup {d}
<1>1. \A x \in S : x \in Block /\ x.addr \in Int /\ EndOf(x) \in Int /\ x.addr < EndOf(x)
    BY BlockFields DEF Tiles, GoodBlock
<1>2. d.addr \in Int /\ EndOf(d) \in Int /\ d.addr < EndOf(d)
    BY BlockFields DEF GoodBlock
<1>3. \A x \in T : GoodBlock(x)
    BY DEF Tiles
<1>4. ASSUME NEW x \in T, NEW y \in T, x # y PROVE Apart(x, y)
    <2>1. \A z \in S \ {b, c} : Apart(z, b) /\ Apart(z, c)
        BY DEF Tiles
    <2>2. \A z \in S \ {b, c} : Apart(z, d) /\ Apart(d, z)
        BY <1>1, <1>2, <2>1 DEF Apart
    <2>4. \A z, w \in S \ {b, c} : z = w \/ Apart(z, w)
        BY DEF Tiles
    <2> QED BY <1>4, <2>2, <2>4
<1>5. ASSUME NEW x \in HeapStart .. HeapEnd - 1 PROVE \E z \in T : z.addr <= x /\ x < EndOf(z)
    <2>1. PICK z \in S : z.addr <= x /\ x < EndOf(z)
        BY DEF Tiles
    <2>2. CASE z \notin {b, c}
        BY <2>1, <2>2
    <2>3. CASE z \in {b, c}
        <3>1. x \in Int
            BY HeapSizes
        <3>2. d.addr <= x /\ x < EndOf(d)
            BY <1>1, <1>2, <2>1, <2>3, <3>1
        <3> QED BY <3>2
    <2> QED BY <2>2, <2>3
<1> QED
    BY <1>3, <1>4, <1>5 DEF Tiles

\* What holds of multiples.
LEMMA Multiples ==
    ASSUME NEW w \in Nat \ {0}, NEW a \in Int, NEW b \in Int, a % w = 0, b % w = 0
    PROVE  (a + b) % w = 0 /\ (a - b) % w = 0
<1> DEFINE i == a \div w
           j == b \div w
<1>1. /\ i \in Int /\ a = w * i + (a % w)
      /\ j \in Int /\ b = w * j + (b % w)
    OBVIOUS
<1> HIDE DEF i, j
<1>2. \A k \in Int : (k * w) % w = 0
    BY SMTT(60)
<1>3. a + b = (i + j) * w /\ a - b = (i - j) * w
    BY <1>1
<1>4. i + j \in Int /\ i - j \in Int
    BY <1>1
<1> QED
    BY <1>2, <1>3, <1>4

\* The piece of a block is not one of the blocks it is cut from.
LEMMA PieceIsNew ==
    ASSUME NEW S, Tiles(S), NEW b \in S, NEW c \in Block, c # b,
           b.addr <= c.addr, EndOf(c) <= EndOf(b)
    PROVE  c \notin S
<1> SUFFICES ASSUME c \in S PROVE FALSE
    OBVIOUS
<1>1. b \in Block /\ Apart(c, b)
    BY DEF Tiles, GoodBlock
<1>2. /\ b.addr \in Int /\ b.size \in Int /\ b.size >= 1 /\ EndOf(b) = b.addr + b.size
      /\ c.addr \in Int /\ c.size \in Int /\ c.size >= 1 /\ EndOf(c) = c.addr + c.size
    BY <1>1, BlockFields
<1> QED
    BY <1>1, <1>2 DEF Apart

-----------------------------------------------------------------------------
(* The free list: in address order, no block touching the next.            *)

ListOK(f) ==
    /\ f \in Seq(Block)
    /\ \A i \in DOMAIN f : GoodBlock(f[i])
    /\ \A i, j \in DOMAIN f : i < j => EndOf(f[i]) < f[j].addr

HeapOK(f, held) ==
    /\ ListOK(f)
    /\ Tiles(Range(f) \cup held)
    /\ Range(f) \cap held = {}

LEMMA ListFacts ==
    ASSUME NEW f, ListOK(f)
    PROVE  /\ Len(f) \in Nat /\ DOMAIN f = 1 .. Len(f)
           /\ \A i \in DOMAIN f : f[i] \in Block /\ f[i] \in Range(f)
           /\ \A i, j \in DOMAIN f : i # j => f[i] # f[j]
<1>1. Len(f) \in Nat /\ DOMAIN f = 1 .. Len(f)
    BY LenProperties DEF ListOK
<1>2. \A i \in DOMAIN f : f[i] \in Block /\ f[i] \in Range(f)
    BY DEF ListOK, GoodBlock, Range
<1>3. ASSUME NEW i \in DOMAIN f, NEW j \in DOMAIN f, i < j PROVE f[i] # f[j]
    <2>1. EndOf(f[i]) < f[j].addr
        BY <1>3 DEF ListOK
    <2>2. /\ f[i].addr \in Int /\ f[i].size \in Int /\ f[i].size >= 1
          /\ EndOf(f[i]) = f[i].addr + f[i].size
        BY <1>2, BlockFields
    <2> QED BY <2>1, <2>2
<1>4. ASSUME NEW i \in DOMAIN f, NEW j \in DOMAIN f, i # j PROVE f[i] # f[j]
    <2>1. i < j \/ j < i
        BY <1>1, <1>4
    <2> QED BY <1>3, <2>1
<1> QED
    BY <1>1, <1>2, <1>4

\* A block of the list replaced by a part of it.
LEMMA ReplaceList ==
    ASSUME NEW f, ListOK(f), NEW i \in DOMAIN f, NEW b, GoodBlock(b),
           f[i].addr <= b.addr, EndOf(b) <= EndOf(f[i])
    PROVE  ListOK(ReplaceAt(f, i, b)) /\ Range(ReplaceAt(f, i, b)) = (Range(f) \ {f[i]}) \cup {b}
<1> DEFINE g == [f EXCEPT ![i] = b]
<1>1. /\ Len(f) \in Nat /\ DOMAIN f = 1 .. Len(f)
      /\ \A k \in DOMAIN f : f[k] \in Block
      /\ \A k \in DOMAIN f : k # i => f[k] # f[i]
    BY ListFacts
<1>2. ReplaceAt(f, i, b) = g
    BY DEF ReplaceAt
<1>3. b \in Block
    BY DEF GoodBlock
<1>4. g \in Seq(Block) /\ DOMAIN g = DOMAIN f
    BY <1>3 DEF ListOK
<1>5. g[i] = b /\ \A k \in DOMAIN f \ {i} : g[k] = f[k]
    BY DEF ListOK
<1> HIDE DEF g
<1>6. \A k \in DOMAIN g : GoodBlock(g[k])
    BY <1>4, <1>5 DEF ListOK
<1>7. ASSUME NEW j \in DOMAIN g, NEW k \in DOMAIN g, j < k PROVE EndOf(g[j]) < g[k].addr
    <2>1. EndOf(f[j]) < f[k].addr
        BY <1>4, <1>7 DEF ListOK
    <2>2. /\ f[j].addr \in Int /\ EndOf(f[j]) \in Int /\ f[k].addr \in Int /\ EndOf(f[k]) \in Int
          /\ b.addr \in Int /\ EndOf(b) \in Int
        BY <1>1, <1>3, <1>4, BlockFields
    <2>3. EndOf(g[j]) <= EndOf(f[j]) /\ f[k].addr <= g[k].addr
        BY <1>4, <1>5, <2>2
    <2>4. EndOf(g[j]) \in Int /\ g[k].addr \in Int
        BY <1>4, <1>5, <2>2
    <2> QED BY <2>1, <2>2, <2>3, <2>4
<1>8. Range(g) = (Range(f) \ {f[i]}) \cup {b}
    <2>1. Range(g) \subseteq (Range(f) \ {f[i]}) \cup {b}
        BY <1>1, <1>4, <1>5 DEF Range
    <2>2. ASSUME NEW x \in Range(f), x # f[i] PROVE x \in Range(g)
        <3>1. PICK k \in DOMAIN f : x = f[k]
            BY DEF Range
        <3>2. k # i /\ g[k] = x
            BY <1>5, <2>2, <3>1
        <3> QED BY <1>4, <3>1, <3>2 DEF Range
    <2>3. b \in Range(g)
        BY <1>4, <1>5 DEF Range
    <2> QED BY <2>1, <2>2, <2>3
<1> QED
    BY <1>2, <1>4, <1>6, <1>7, <1>8 DEF ListOK

\* What is left of the list f around a gap: its first lo blocks and those
\* from hi on.
LEMMA Around ==
    ASSUME NEW f \in Seq(Block), NEW lo \in Nat, NEW hi \in Nat, lo < hi, hi <= Len(f) + 1
    PROVE  /\ SubSeq(f, 1, lo) \in Seq(Block) /\ Len(SubSeq(f, 1, lo)) = lo
           /\ \A k \in 1 .. lo : SubSeq(f, 1, lo)[k] = f[k]
           /\ SubSeq(f, hi, Len(f)) \in Seq(Block)
           /\ Len(SubSeq(f, hi, Len(f))) = Len(f) - hi + 1
           /\ \A k \in 1 .. Len(f) - hi + 1 : SubSeq(f, hi, Len(f))[k] = f[hi + k - 1]
<1>1. Len(f) \in Nat /\ hi >= 1 /\ DOMAIN f = 1 .. Len(f)
    BY LenProperties
<1>2. \A k \in 1 .. Len(f) : f[k] \in Block
    BY <1>1, ElementOfSeq
<1>3. /\ SubSeq(f, 1, lo) \in Seq(Block) /\ Len(SubSeq(f, 1, lo)) = lo
      /\ \A k \in 1 .. lo : SubSeq(f, 1, lo)[k] = f[k]
    BY <1>1, <1>2
<1>4. /\ SubSeq(f, hi, Len(f)) \in Seq(Block)
      /\ Len(SubSeq(f, hi, Len(f))) = Len(f) - hi + 1
    BY <1>1, <1>2
<1>5. \A k \in 1 .. Len(f) - hi + 1 : SubSeq(f, hi, Len(f))[k] = f[hi + k - 1]
    BY <1>1, <1>2
<1> QED
    BY <1>3, <1>4, <1>5

LEMMA RemoveList ==
    ASSUME NEW f, ListOK(f), NEW i \in DOMAIN f
    PROVE  ListOK(RemoveAt(f, i)) /\ Range(RemoveAt(f, i)) = Range(f) \ {f[i]}
<1> DEFINE n == Len(f)
           s == SubSeq(f, 1, i - 1)
           t == SubSeq(f, i + 1, n)
           g == s \o t
           src(k) == IF k < i THEN k ELSE k + 1
<1>1. /\ n \in Nat /\ DOMAIN f = 1 .. n /\ i \in 1 .. n
      /\ \A k \in DOMAIN f : f[k] \in Block
      /\ \A k \in DOMAIN f : k # i => f[k] # f[i]
    BY ListFacts
<1>2. f \in Seq(Block)
    BY DEF ListOK
<1>3. i - 1 \in Nat /\ i + 1 \in Nat /\ i - 1 < i + 1 /\ i + 1 <= n + 1
    BY <1>1
<1>4. /\ s \in Seq(Block) /\ Len(s) = i - 1 /\ \A k \in 1 .. i - 1 : s[k] = f[k]
      /\ t \in Seq(Block) /\ Len(t) = n - (i + 1) + 1
      /\ \A k \in 1 .. n - (i + 1) + 1 : t[k] = f[i + 1 + k - 1]
    BY <1>2, <1>3, Around
<1>5. RemoveAt(f, i) = g
    BY DEF RemoveAt
<1> HIDE DEF s, t
<1>6. /\ g \in Seq(Block) /\ Len(g) = n - 1
      /\ \A k \in 1 .. n - 1 : g[k] = IF k <= i - 1 THEN s[k] ELSE t[k - (i - 1)]
    <2>1. /\ g \in Seq(Block) /\ Len(g) = Len(s) + Len(t)
          /\ \A k \in 1 .. Len(s) + Len(t) :
                g[k] = IF k <= Len(s) THEN s[k] ELSE t[k - Len(s)]
        BY <1>4, ConcatProperties
    <2>2. Len(s) + Len(t) = n - 1
        BY <1>1, <1>4
    <2> QED BY <1>4, <2>1, <2>2
<1> HIDE DEF g
<1>7. \A k \in 1 .. n - 1 : g[k] = f[src(k)] /\ src(k) \in DOMAIN f /\ src(k) # i
    <2> TAKE k \in 1 .. n - 1
    <2>1. CASE k < i
        <3>1. k \in 1 .. i - 1 /\ k <= i - 1
            BY <1>1, <2>1
        <3> QED BY <1>1, <1>4, <1>6, <2>1, <3>1
    <2>2. CASE ~(k < i)
        <3>1. /\ ~(k <= i - 1) /\ k - (i - 1) \in 1 .. n - (i + 1) + 1
              /\ i + 1 + (k - (i - 1)) - 1 = k + 1
            BY <1>1, <2>2
        <3>2. g[k] = t[k - (i - 1)]
            BY <1>6, <3>1
        <3>3. t[k - (i - 1)] = f[k + 1]
            BY <1>4, <3>1
        <3> QED BY <1>1, <2>2, <3>2, <3>3
    <2> QED BY <2>1, <2>2
<1>8. \A j, k \in 1 .. n - 1 : j < k => src(j) < src(k)
    BY <1>1
<1>9. DOMAIN g = 1 .. n - 1
    BY <1>1, <1>6, LenProperties
<1>10. ListOK(g)
    <2>1. \A k \in DOMAIN g : GoodBlock(g[k])
        BY <1>7, <1>9 DEF ListOK
    <2>2. ASSUME NEW j \in DOMAIN g, NEW k \in DOMAIN g, j < k
          PROVE  EndOf(g[j]) < g[k].addr
        <3>1. \A u, v \in DOMAIN f : u < v => EndOf(f[u]) < f[v].addr
            BY DEF ListOK
        <3>2. g[j] = f[src(j)] /\ src(j) \in DOMAIN f /\ g[k] = f[src(k)] /\ src(k) \in DOMAIN f
            BY <1>7, <1>9
        <3>3. src(j) < src(k)
            BY <1>8, <1>9, <2>2
        <3> HIDE DEF src
        <3>4. EndOf(f[src(j)]) < f[src(k)].addr
            BY <3>1, <3>2, <3>3
        <3> QED BY <3>2, <3>4
    <2> QED BY <1>6, <2>1, <2>2 DEF ListOK
<1>11. Range(g) = Range(f) \ {f[i]}
    <2>1. Range(g) \subseteq Range(f) \ {f[i]}
        <3> SUFFICES ASSUME NEW k \in DOMAIN g PROVE g[k] \in Range(f) /\ g[k] # f[i]
            BY DEF Range
        <3> QED BY <1>1, <1>7, <1>9 DEF Range
    <2>2. ASSUME NEW x \in Range(f), x # f[i] PROVE x \in Range(g)
        <3>1. PICK k \in DOMAIN f : x = f[k]
            BY DEF Range
        <3>2. k # i
            BY <2>2, <3>1
        <3>3. \E j \in 1 .. n - 1 : src(j) = k
            <4>1. CASE k < i
                <5>1. k \in 1 .. n - 1 /\ src(k) = k
                    BY <1>1, <4>1
                <5> QED BY <5>1
            <4>2. CASE ~(k < i)
                <5>1. k - 1 \in 1 .. n - 1 /\ src(k - 1) = k
                    BY <1>1, <3>2, <4>2
                <5> QED BY <5>1
            <4> QED BY <4>1, <4>2
        <3> QED BY <1>7, <1>9, <3>1, <3>3 DEF Range
    <2> QED BY <2>1, <2>2
<1> QED
    BY <1>5, <1>10, <1>11

\* The list f with m in place of what is after lo and before hi.
Spliced(f, lo, hi, m) == SubSeq(f, 1, lo) \o <<m>> \o SubSeq(f, hi, Len(f))

SplicedOf(g, f, lo, hi, m) ==
    /\ g \in Seq(Block) /\ Len(g) = lo + 1 + (Len(f) - hi + 1)
    /\ \A k \in 1 .. lo : g[k] = f[k]
    /\ g[lo + 1] = m
    /\ \A k \in hi .. Len(f) : g[k - hi + lo + 2] = f[k]

LEMMA SplicedBlocks ==
    ASSUME NEW f \in Seq(Block), NEW lo \in Nat, NEW hi \in Nat, lo < hi, hi <= Len(f) + 1,
           NEW m \in Block, NEW g, g = Spliced(f, lo, hi, m)
    PROVE  SplicedOf(g, f, lo, hi, m)
<1> DEFINE n == Len(f)
           s == SubSeq(f, 1, lo)
           t == SubSeq(f, hi, n)
           u == s \o <<m>>
<1>0. g = u \o t
    BY DEF Spliced
<1>1. n \in Nat
    BY LenProperties
<1>2. /\ s \in Seq(Block) /\ Len(s) = lo /\ \A k \in 1 .. lo : s[k] = f[k]
      /\ t \in Seq(Block) /\ Len(t) = n - hi + 1
      /\ \A k \in 1 .. n - hi + 1 : t[k] = f[hi + k - 1]
    BY Around
<1> HIDE DEF s, t
<1>3. /\ u \in Seq(Block) /\ Len(u) = lo + 1
      /\ \A k \in 1 .. lo : u[k] = f[k]
      /\ u[lo + 1] = m
    <2>1. <<m>> \in Seq(Block) /\ Len(<<m>>) = 1 /\ <<m>>[1] = m
        OBVIOUS
    <2>2. /\ u \in Seq(Block) /\ Len(u) = Len(s) + Len(<<m>>)
          /\ \A k \in 1 .. Len(s) + Len(<<m>>) :
                u[k] = IF k <= Len(s) THEN s[k] ELSE <<m>>[k - Len(s)]
        BY <1>2, <2>1, ConcatProperties
    <2>3. \A k \in 1 .. lo : k \in 1 .. lo + 1 /\ k <= lo
        OBVIOUS
    <2>4. lo + 1 \in 1 .. lo + 1 /\ ~(lo + 1 <= lo) /\ lo + 1 - lo = 1
        OBVIOUS
    <2> QED BY <1>2, <2>1, <2>2, <2>3, <2>4
<1> HIDE DEF u
<1>4. /\ g \in Seq(Block) /\ Len(g) = lo + 1 + (n - hi + 1)
      /\ \A k \in 1 .. lo + 1 + (n - hi + 1) :
            g[k] = IF k <= lo + 1 THEN u[k] ELSE t[k - (lo + 1)]
    <2>0. u \in Seq(Block) /\ t \in Seq(Block)
        BY <1>2, <1>3
    <2>1. /\ u \o t \in Seq(Block) /\ Len(u \o t) = Len(u) + Len(t)
          /\ \A k \in 1 .. Len(u) + Len(t) :
                (u \o t)[k] = IF k <= Len(u) THEN u[k] ELSE t[k - Len(u)]
        BY <2>0, ConcatProperties
    <2>2. Len(u) = lo + 1 /\ Len(t) = n - hi + 1
        BY <1>2, <1>3
    <2> QED BY <1>0, <2>1, <2>2, Zenon
<1>5. \A k \in 1 .. lo : g[k] = f[k]
    <2> TAKE k \in 1 .. lo
    <2>1. k \in 1 .. lo + 1 + (n - hi + 1) /\ k <= lo + 1
        BY <1>1
    <2> QED BY <1>3, <1>4, <2>1
<1>6. g[lo + 1] = m
    <2>1. lo + 1 \in 1 .. lo + 1 + (n - hi + 1) /\ lo + 1 <= lo + 1
        BY <1>1
    <2> QED BY <1>3, <1>4, <2>1
<1>7. \A k \in hi .. n : g[k - hi + lo + 2] = f[k]
    <2> TAKE k \in hi .. n
    <2> DEFINE j == k - hi + lo + 2
    <2>1. /\ j \in 1 .. lo + 1 + (n - hi + 1) /\ ~(j <= lo + 1)
          /\ j - (lo + 1) \in 1 .. n - hi + 1 /\ hi + (j - (lo + 1)) - 1 = k
        BY <1>1
    <2> HIDE DEF j
    <2>2. g[j] = t[j - (lo + 1)]
        BY <1>4, <2>1
    <2>3. t[j - (lo + 1)] = f[k]
        BY <1>2, <2>1
    <2> QED BY <2>2, <2>3 DEF j
<1> QED
    BY <1>4, <1>5, <1>6, <1>7 DEF SplicedOf

LEMMA SplicedList ==
    ASSUME NEW f, ListOK(f), NEW lo \in Nat, NEW hi \in Nat, lo < hi, hi <= Len(f) + 1,
           NEW m, GoodBlock(m), lo >= 1 => EndOf(f[lo]) < m.addr,
           hi <= Len(f) => EndOf(m) < f[hi].addr
    PROVE  /\ ListOK(Spliced(f, lo, hi, m))
           /\ Range(Spliced(f, lo, hi, m)) =
                 {f[k] : k \in 1 .. lo} \cup {m} \cup {f[k] : k \in hi .. Len(f)}
<1> DEFINE g == Spliced(f, lo, hi, m)
           n == Len(f)
           e == lo + 1 + (n - hi + 1)
           src(j) == j + hi - lo - 2
<1>1. /\ n \in Nat /\ DOMAIN f = 1 .. n /\ f \in Seq(Block) /\ m \in Block
      /\ \A k \in 1 .. n : f[k] \in Block
    BY ListFacts DEF ListOK, GoodBlock
<1>2. /\ g \in Seq(Block) /\ Len(g) = e
      /\ \A k \in 1 .. lo : g[k] = f[k]
      /\ g[lo + 1] = m
      /\ \A k \in hi .. n : g[k - hi + lo + 2] = f[k]
    <2>1. f \in Seq(Block) /\ m \in Block /\ g = Spliced(f, lo, hi, m)
        BY <1>1
    <2> HIDE DEF g
    <2>2. SplicedOf(g, f, lo, hi, m)
        BY <2>1, SplicedBlocks
    <2> QED BY <2>2 DEF SplicedOf
<1> HIDE DEF g
<1>3. e \in Nat /\ DOMAIN g = 1 .. e
    <2>1. e \in Nat
        BY <1>1
    <2> QED BY <1>2, <2>1, LenProperties
<1>4. \A j \in lo + 2 .. e : src(j) \in hi .. n /\ g[j] = f[src(j)]
    <2> TAKE j \in lo + 2 .. e
    <2> DEFINE k == src(j)
    <2>1. k \in hi .. n /\ k - hi + lo + 2 = j
        BY <1>1
    <2> HIDE DEF k
    <2>2. g[j] = f[k]
        BY <1>2, <2>1
    <2> QED BY <2>1, <2>2 DEF k
<1>5. \A j \in 1 .. e : j \in 1 .. lo \/ j = lo + 1 \/ j \in lo + 2 .. e
    BY <1>1
<1>6. /\ \A k \in 1 .. n : f[k].addr \in Int /\ EndOf(f[k]) \in Int /\ f[k].addr < EndOf(f[k])
      /\ m.addr \in Int /\ EndOf(m) \in Int /\ m.addr < EndOf(m)
    BY <1>1, BlockFields
<1>7. \A j, k \in 1 .. n : j < k => EndOf(f[j]) < f[k].addr
    BY <1>1 DEF ListOK
<1>8. \A k \in 1 .. lo : k \in 1 .. n
    BY <1>1
<1>9. \A k \in hi .. n : k \in 1 .. n
    BY <1>1
<1>10. \A k \in 1 .. lo : EndOf(f[k]) < m.addr
    <2> TAKE k \in 1 .. lo
    <2>1. lo >= 1 /\ lo \in 1 .. n /\ EndOf(f[lo]) < m.addr
        BY <1>1
    <2>2. k = lo \/ k < lo
        OBVIOUS
    <2>3. CASE k < lo
        <3>1. EndOf(f[k]) < f[lo].addr
            BY <1>7, <1>8, <2>1, <2>3
        <3>2. f[lo].addr < EndOf(f[lo]) /\ f[lo].addr \in Int /\ EndOf(f[lo]) \in Int /\ EndOf(f[k]) \in Int
            BY <1>6, <1>8, <2>1
        <3> QED BY <1>6, <2>1, <3>1, <3>2
    <2> QED BY <2>1, <2>2, <2>3
<1>11. \A k \in hi .. n : EndOf(m) < f[k].addr
    <2> TAKE k \in hi .. n
    <2>1. hi <= n /\ hi \in 1 .. n /\ EndOf(m) < f[hi].addr
        BY <1>1
    <2>2. k = hi \/ hi < k
        OBVIOUS
    <2>3. CASE hi < k
        <3>1. EndOf(f[hi]) < f[k].addr
            BY <1>7, <1>9, <2>1, <2>3
        <3>2. f[hi].addr < EndOf(f[hi]) /\ f[hi].addr \in Int /\ EndOf(f[hi]) \in Int /\ f[k].addr \in Int
            BY <1>6, <1>9, <2>1
        <3> QED BY <1>6, <2>1, <3>1, <3>2
    <2> QED BY <2>1, <2>2, <2>3
<1>12. \A j \in DOMAIN g : GoodBlock(g[j])
    <2>1. \A k \in 1 .. n : GoodBlock(f[k])
        BY <1>1 DEF ListOK
    <2> HIDE DEF src, e, n
    <2> QED BY <1>2, <1>3, <1>4, <1>5, <1>8, <1>9, <2>1
<1>13. \A i, j \in DOMAIN g : i < j => EndOf(g[i]) < g[j].addr
    <2> SUFFICES ASSUME NEW i \in 1 .. e, NEW j \in 1 .. e, i < j
                 PROVE  EndOf(g[i]) < g[j].addr
        BY <1>3
    <2>1. CASE i \in 1 .. lo /\ j \in 1 .. lo
        BY <1>2, <1>7, <1>8, <2>1
    <2>2. CASE i \in 1 .. lo /\ j = lo + 1
        BY <1>2, <1>10, <2>2
    <2>3. CASE i \in 1 .. lo /\ j \in lo + 2 .. e
        <3>1. i < src(j) /\ src(j) \in hi .. n
            BY <1>1, <1>4, <2>3
        <3>2. EndOf(f[i]) < f[src(j)].addr
            BY <1>7, <1>8, <1>9, <2>3, <3>1
        <3> QED BY <1>2, <1>4, <2>3, <3>2
    <2>4. CASE i = lo + 1 /\ j \in lo + 2 .. e
        <3>1. EndOf(m) < f[src(j)].addr
            BY <1>4, <1>11, <2>4
        <3> QED BY <1>2, <1>4, <2>4, <3>1
    <2>5. CASE i \in lo + 2 .. e /\ j \in lo + 2 .. e
        <3>1. src(i) < src(j)
            BY <1>1, <2>5
        <3>2. src(i) \in 1 .. n /\ src(j) \in 1 .. n
            BY <1>4, <1>9, <2>5
        <3>3. EndOf(f[src(i)]) < f[src(j)].addr
            BY <1>7, <3>1, <3>2
        <3> QED BY <1>4, <2>5, <3>3
    <2>6. /\ j \in 1 .. lo => i \in 1 .. lo
          /\ j = lo + 1 => i \in 1 .. lo
          /\ i = lo + 1 => j \in lo + 2 .. e
          /\ i \in lo + 2 .. e => j \in lo + 2 .. e
        BY <1>1
    <2> QED BY <1>5, <2>1, <2>2, <2>3, <2>4, <2>5, <2>6
<1>14. Range(g) = {f[k] : k \in 1 .. lo} \cup {m} \cup {f[k] : k \in hi .. n}
    <2>1. Range(g) = {g[j] : j \in 1 .. e}
        BY <1>3 DEF Range
    <2>2. \A j \in 1 .. e : g[j] \in {f[k] : k \in 1 .. lo} \cup {m} \cup {f[k] : k \in hi .. n}
        BY <1>2, <1>4, <1>5
    <2>3. \A k \in 1 .. lo : k \in 1 .. e /\ g[k] = f[k]
        BY <1>1, <1>2
    <2>4. \A k \in hi .. n : k - hi + lo + 2 \in 1 .. e /\ g[k - hi + lo + 2] = f[k]
        BY <1>1, <1>2
    <2>5. lo + 1 \in 1 .. e /\ g[lo + 1] = m
        BY <1>1, <1>2
    <2> HIDE DEF e, n, src
    <2>6. \A k \in 1 .. lo : f[k] \in {g[j] : j \in 1 .. e}
        BY <2>3
    <2>7. \A k \in hi .. n : f[k] \in {g[j] : j \in 1 .. e}
        BY <2>4
    <2>8. m \in {g[j] : j \in 1 .. e}
        BY <2>5
    <2> QED BY <2>1, <2>2, <2>6, <2>7, <2>8
<1> QED
    BY <1>2, <1>12, <1>13, <1>14 DEF ListOK, g

-----------------------------------------------------------------------------
(* first_fit, last_fit and insert_free keep the heap tiled.                 *)

LEMMA TakeWhole ==
    ASSUME NEW f, NEW held, HeapOK(f, held), NEW i \in DOMAIN f
    PROVE  HeapOK(RemoveAt(f, i), held \cup {f[i]}) /\ GoodBlock(f[i]) /\ f[i] \notin held
<1> DEFINE b == f[i]
           g == RemoveAt(f, i)
<1>1. /\ ListOK(f) /\ Tiles(Range(f) \cup held) /\ Range(f) \cap held = {}
      /\ b \in Range(f) /\ GoodBlock(b)
    BY ListFacts DEF HeapOK, ListOK
<1>2. ListOK(g) /\ Range(g) = Range(f) \ {b}
    BY <1>1, RemoveList
<1> HIDE DEF b, g
<1>3. Range(g) \cup (held \cup {b}) = Range(f) \cup held
    BY <1>1, <1>2
<1>4. Range(g) \cap (held \cup {b}) = {} /\ b \notin held
    BY <1>1, <1>2
<1> QED
    BY <1>1, <1>2, <1>3, <1>4 DEF HeapOK, b, g

LEMMA TakePart ==
    ASSUME NEW f, NEW held, HeapOK(f, held), NEW i \in DOMAIN f, NEW c, NEW d,
           GoodBlock(c), GoodBlock(d),
           \/ c.addr = f[i].addr /\ EndOf(c) = d.addr /\ EndOf(d) = EndOf(f[i])
           \/ d.addr = f[i].addr /\ EndOf(d) = c.addr /\ EndOf(c) = EndOf(f[i])
    PROVE  HeapOK(ReplaceAt(f, i, c), held \cup {d}) /\ d \notin held
<1> DEFINE b == f[i]
           g == ReplaceAt(f, i, c)
           S == Range(f) \cup held
<1>1. /\ ListOK(f) /\ Tiles(S) /\ Range(f) \cap held = {}
      /\ b \in Range(f) /\ b \in Block /\ c \in Block /\ d \in Block
    BY ListFacts DEF HeapOK, ListOK, GoodBlock
<1>2. /\ b.addr \in Int /\ EndOf(b) \in Int /\ b.addr < EndOf(b)
      /\ c.addr \in Int /\ EndOf(c) \in Int /\ c.addr < EndOf(c)
      /\ d.addr \in Int /\ EndOf(d) \in Int /\ d.addr < EndOf(d)
    BY <1>1, BlockFields
<1>3. /\ b.addr <= c.addr /\ EndOf(c) <= EndOf(b) /\ c # b
      /\ b.addr <= d.addr /\ EndOf(d) <= EndOf(b) /\ d # b
      /\ c # d
    BY <1>2
<1>4. ListOK(g) /\ Range(g) = (Range(f) \ {b}) \cup {c}
    BY <1>1, <1>3, ReplaceList
<1>5. c \notin S /\ d \notin S
    BY <1>1, <1>3, PieceIsNew
<1>6. Tiles((S \ {b}) \cup {c, d})
    <2>1. b \in S
        BY <1>1
    <2>2. CASE c.addr = b.addr /\ EndOf(c) = d.addr /\ EndOf(d) = EndOf(b)
        BY <1>1, <2>1, <2>2, CutTiles
    <2>3. CASE d.addr = b.addr /\ EndOf(d) = c.addr /\ EndOf(c) = EndOf(b)
        <3>1. Tiles((S \ {b}) \cup {d, c})
            BY <1>1, <2>1, <2>3, CutTiles
        <3>2. {d, c} = {c, d}
            OBVIOUS
        <3> QED BY <3>1, <3>2
    <2> QED BY <2>2, <2>3
<1> HIDE DEF b, g
<1>7. Range(g) \cup (held \cup {d}) = (S \ {b}) \cup {c, d}
    BY <1>1, <1>4
<1>8. Range(g) \cap (held \cup {d}) = {} /\ d \notin held
    BY <1>1, <1>3, <1>4, <1>5
<1> QED
    BY <1>4, <1>6, <1>7, <1>8 DEF HeapOK, g

\* What an allocation may leave.
Taken(f, held, got) ==
    got.block # NoBlock =>
        /\ HeapOK(got.free, held \cup {got.block})
        /\ GoodBlock(got.block) /\ got.block \notin held

LEMMA BlockSizeIs ==
    ASSUME NEW n \in Nat
    PROVE  BlockSize(n) \in Nat /\ BlockSize(n) >= MinAlloc /\ BlockSize(n) % Granule = 0
<1> DEFINE a == n + Header + Granule - 1
           k == a \div Granule
           up == k * Granule
<1>1. a \in Int /\ Granule \in Nat \ {0}
    BY HeapSizes
<1> HIDE DEF a
<1>2. k \in Int
    BY <1>1
<1> HIDE DEF k
<1>3. up \in Int /\ up % Granule = 0
    BY <1>1, <1>2, SMTT(60)
<1>4. BlockSize(n) = IF up < MinAlloc THEN MinAlloc ELSE up
    BY DEF BlockSize, a, k
<1> HIDE DEF up
<1>5. MinAlloc \in Nat /\ MinAlloc % Granule = 0
    BY HeapSizes
<1> QED
    BY <1>3, <1>4, <1>5

\* A block that fits leaves a good rest when it is large enough to cut.
LEMMA CutSizes ==
    ASSUME NEW b, GoodBlock(b), NEW n \in Nat, n >= MinAlloc, n % Granule = 0,
           ~(b.size < n + MinAlloc)
    PROVE  /\ LET c == [addr |-> b.addr + n, size |-> b.size - n]
                  d == [addr |-> b.addr, size |-> n]
              IN  /\ GoodBlock(c) /\ GoodBlock(d)
                  /\ d.addr = b.addr /\ EndOf(d) = c.addr /\ EndOf(c) = EndOf(b)
           /\ LET c == [b EXCEPT !.size = @ - n]
                  d == [addr |-> EndOf(b) - n, size |-> n]
              IN  /\ GoodBlock(c) /\ GoodBlock(d)
                  /\ c.addr = b.addr /\ EndOf(c) = d.addr /\ EndOf(d) = EndOf(b)
<1> DEFINE a == b.addr
           z == b.size
           r == z - n
<1>1. /\ a \in Int /\ z \in Int /\ a >= HeapStart /\ EndOf(b) = a + z /\ a + z <= HeapEnd
      /\ b = [addr |-> a, size |-> z] /\ z % Granule = 0
      /\ HeapStart \in Nat /\ HeapEnd \in Nat /\ MinAlloc \in Nat /\ MinAlloc >= 1
      /\ Granule \in Nat \ {0}
    BY BlockFields, HeapSizes DEF GoodBlock
<1> HIDE DEF a, z
<1>2. /\ r \in Int /\ r >= MinAlloc /\ r >= 1 /\ n >= 1 /\ r % Granule = 0
    <2>1. ~(z < n + MinAlloc)
        BY DEF z
    <2>2. r \in Int /\ r >= MinAlloc /\ r >= 1 /\ n >= 1
        BY <1>1, <2>1
    <2>3. (z - n) % Granule = 0
        <3>1. n \in Int /\ n % Granule = 0 /\ z \in Int /\ z % Granule = 0 /\ Granule \in Nat \ {0}
            BY <1>1
        <3> QED BY ONLY <3>1, Multiples
    <2> QED BY <2>2, <2>3
<1> HIDE DEF r
<1>3. ASSUME NEW x \in Int, NEW y \in Int, x >= HeapStart, x + y <= HeapEnd, y >= MinAlloc, y % Granule = 0
      PROVE  LET c == [addr |-> x, size |-> y]
             IN  GoodBlock(c) /\ c.addr = x /\ EndOf(c) = x + y
    <2>1. y >= 1
        BY <1>1, <1>3
    <2> QED BY <1>3, <2>1, MadeBlock DEF GoodBlock
<1>4. a + z = a + n + r /\ a + r = a + z - n /\ r = z - n
    BY <1>1 DEF r
<1>5. LET c == [addr |-> a + n, size |-> r]
          d == [addr |-> a, size |-> n]
      IN  /\ GoodBlock(c) /\ GoodBlock(d)
          /\ d.addr = a /\ EndOf(d) = c.addr /\ EndOf(c) = a + z
    <2>1. /\ a + n \in Int /\ a + n >= HeapStart /\ a + n + r <= HeapEnd /\ a + n <= HeapEnd
        BY <1>1, <1>2, <1>4
    <2> QED BY <1>1, <1>2, <1>3, <1>4, <2>1
<1>6. LET c == [addr |-> a, size |-> r]
          d == [addr |-> a + z - n, size |-> n]
      IN  /\ GoodBlock(c) /\ GoodBlock(d)
          /\ c.addr = a /\ EndOf(c) = d.addr /\ EndOf(d) = a + z
    <2>1. /\ a + z - n \in Int /\ a + z - n >= HeapStart /\ a + z - n + n = a + z /\ a + r <= HeapEnd
        BY <1>1, <1>2, <1>4
    <2> QED BY <1>1, <1>2, <1>3, <1>4, <2>1
<1>7. [b EXCEPT !.size = @ - n] = [addr |-> a, size |-> r]
    BY <1>1, <1>4
<1> QED
    BY <1>1, <1>4, <1>5, <1>6, <1>7 DEF a, z

LEMMA FitIndex ==
    ASSUME NEW f, ListOK(f), NEW n \in Nat, Fits(f, n) # {}
    PROVE  /\ Min(Fits(f, n)) \in DOMAIN f /\ f[Min(Fits(f, n))].size >= n
           /\ Max(Fits(f, n)) \in DOMAIN f /\ f[Max(Fits(f, n))].size >= n
<1> DEFINE S == Fits(f, n)
<1>1. Len(f) \in Nat /\ DOMAIN f = 1 .. Len(f)
    BY ListFacts
<1>2. S \in SUBSET DOMAIN f /\ \A i \in S : f[i].size >= n
    BY DEF Fits
<1>3. DOMAIN f \subseteq Nat /\ DOMAIN f \subseteq 0 .. Len(f)
    BY <1>1
<1>4. S \in SUBSET Nat /\ S \in SUBSET (0 .. Len(f)) /\ S # {}
    BY <1>2, <1>3
<1> HIDE DEF S
<1>5. Min(S) \in S
    BY <1>4, MinIs
<1>6. Max(S) \in S
    BY <1>1, <1>4, MaxIs
<1> QED
    BY <1>2, <1>5, <1>6 DEF S

LEMMA FirstFitTakes ==
    ASSUME NEW f, NEW held, HeapOK(f, held), NEW n \in Nat, n >= MinAlloc, n % Granule = 0
    PROVE  Taken(f, held, first_fit(f, n))
<1> DEFINE i == Min(Fits(f, n))
           b == f[i]
           c == [addr |-> b.addr + n, size |-> b.size - n]
           d == [addr |-> b.addr, size |-> n]
<1>1. CASE Fits(f, n) = {}
    BY <1>1 DEF first_fit, Taken
<1>2. CASE Fits(f, n) # {}
    <2>1. i \in DOMAIN f /\ GoodBlock(b)
        BY <1>2, FitIndex DEF HeapOK, ListOK
    <2>2. first_fit(f, n) = IF b.size < n + MinAlloc
                            THEN [block |-> b, free |-> RemoveAt(f, i)]
                            ELSE [block |-> d, free |-> ReplaceAt(f, i, c)]
        BY <1>2 DEF first_fit
    <2> HIDE DEF i
    <2>3. CASE b.size < n + MinAlloc
        <3>1. first_fit(f, n) = [block |-> b, free |-> RemoveAt(f, i)]
            BY <2>2, <2>3
        <3> HIDE DEF b
        <3>2. HeapOK(RemoveAt(f, i), held \cup {b}) /\ b \notin held
            BY <2>1, TakeWhole DEF b
        <3> QED BY <2>1, <3>1, <3>2 DEF Taken
    <2>4. CASE ~(b.size < n + MinAlloc)
        <3>1. first_fit(f, n) = [block |-> d, free |-> ReplaceAt(f, i, c)]
            BY <2>2, <2>4
        <3>2. /\ GoodBlock(c) /\ GoodBlock(d)
              /\ d.addr = b.addr /\ EndOf(d) = c.addr /\ EndOf(c) = EndOf(b)
            BY <2>1, <2>4, CutSizes
        <3> HIDE DEF c, d
        <3>3. HeapOK(ReplaceAt(f, i, c), held \cup {d}) /\ d \notin held
            BY <2>1, <3>2, TakePart
        <3> QED BY <3>1, <3>2, <3>3 DEF Taken
    <2> QED BY <2>3, <2>4
<1> QED
    BY <1>1, <1>2

LEMMA LastFitTakes ==
    ASSUME NEW f, NEW held, HeapOK(f, held), NEW n \in Nat, n >= MinAlloc, n % Granule = 0
    PROVE  Taken(f, held, last_fit(f, n))
<1> DEFINE i == Max(Fits(f, n))
           b == f[i]
           c == [b EXCEPT !.size = @ - n]
           d == [addr |-> EndOf(b) - n, size |-> n]
<1>1. CASE Fits(f, n) = {}
    BY <1>1 DEF last_fit, Taken
<1>2. CASE Fits(f, n) # {}
    <2>1. i \in DOMAIN f /\ GoodBlock(b)
        BY <1>2, FitIndex DEF HeapOK, ListOK
    <2>2. last_fit(f, n) = IF b.size < n + MinAlloc
                           THEN [block |-> b, free |-> RemoveAt(f, i)]
                           ELSE [block |-> d, free |-> ReplaceAt(f, i, c)]
        BY <1>2 DEF last_fit
    <2> HIDE DEF i
    <2>3. CASE b.size < n + MinAlloc
        <3>1. last_fit(f, n) = [block |-> b, free |-> RemoveAt(f, i)]
            BY <2>2, <2>3
        <3> HIDE DEF b
        <3>2. HeapOK(RemoveAt(f, i), held \cup {b}) /\ b \notin held
            BY <2>1, TakeWhole DEF b
        <3> QED BY <2>1, <3>1, <3>2 DEF Taken
    <2>4. CASE ~(b.size < n + MinAlloc)
        <3>1. last_fit(f, n) = [block |-> d, free |-> ReplaceAt(f, i, c)]
            BY <2>2, <2>4
        <3>2. /\ GoodBlock(c) /\ GoodBlock(d)
              /\ c.addr = b.addr /\ EndOf(c) = d.addr /\ EndOf(d) = EndOf(b)
            BY <2>1, <2>4, CutSizes
        <3> HIDE DEF c, d
        <3>3. HeapOK(ReplaceAt(f, i, c), held \cup {d}) /\ d \notin held
            BY <2>1, <3>2, TakePart
        <3> QED BY <3>1, <3>2, <3>3 DEF Taken
    <2> QED BY <2>3, <2>4
<1> QED
    BY <1>1, <1>2

\* Where the walk stops: the blocks before it end below blk, those from it on
\* begin above.
LEMMA SuccessorIs ==
    ASSUME NEW f, NEW held, HeapOK(f, held), NEW blk \in held
    PROVE  LET at == Successor(f, blk)
           IN  /\ at \in 1 .. Len(f) + 1
               /\ \A i \in 1 .. at - 1 : EndOf(f[i]) <= blk.addr
               /\ \A i \in at .. Len(f) : EndOf(blk) <= f[i].addr
<1> DEFINE n == Len(f)
           S == {i \in DOMAIN f : f[i].addr >= blk.addr} \cup {n + 1}
           at == Min(S)
<1>1. /\ n \in Nat /\ DOMAIN f = 1 .. n /\ ListOK(f)
      /\ \A i \in 1 .. n : f[i] \in Block /\ f[i] \in Range(f)
    BY ListFacts DEF HeapOK
<1>2. S \in SUBSET Nat /\ S # {} /\ S \in SUBSET (1 .. n + 1)
    BY <1>1
<1>3. at \in S /\ \A i \in S : at <= i
    <2> HIDE DEF S
    <2> QED BY <1>2, MinIs
<1>4. Successor(f, blk) = at
    BY DEF Successor
<1>5. at \in 1 .. n + 1
    BY <1>2, <1>3
<1> HIDE DEF at
<1>6. blk \in Block /\ \A i \in 1 .. n : f[i] # blk /\ Apart(f[i], blk)
    BY <1>1 DEF HeapOK, Tiles, GoodBlock
<1>7. /\ blk.addr \in Int /\ EndOf(blk) \in Int /\ blk.addr < EndOf(blk)
      /\ \A i \in 1 .. n : f[i].addr \in Int /\ EndOf(f[i]) \in Int /\ f[i].addr < EndOf(f[i])
    BY <1>1, <1>6, BlockFields
<1>8. \A i \in 1 .. at - 1 : EndOf(f[i]) <= blk.addr
    <2> TAKE i \in 1 .. at - 1
    <2>1. i \in 1 .. n /\ i < at
        BY <1>1, <1>5
    <2>2. i \notin S
        BY <1>3, <1>5, <2>1
    <2>3. ~(f[i].addr >= blk.addr)
        BY <1>1, <2>1, <2>2
    <2> QED BY <1>6, <1>7, <2>1, <2>3 DEF Apart
<1>9. \A i \in at .. n : EndOf(blk) <= f[i].addr
    <2> TAKE i \in at .. n
    <2>1. at \in 1 .. n /\ i \in 1 .. n /\ (i = at \/ at < i)
        BY <1>1, <1>5
    <2>2. f[at].addr >= blk.addr
        BY <1>1, <1>3, <2>1
    <2>3. EndOf(blk) <= f[at].addr
        BY <1>6, <1>7, <2>1, <2>2 DEF Apart
    <2>4. CASE at < i
        <3>1. EndOf(f[at]) < f[i].addr
            BY <1>1, <2>1, <2>4 DEF ListOK
        <3> QED BY <1>7, <2>1, <2>3, <3>1
    <2> QED BY <2>1, <2>3, <2>4
<1> QED
    BY <1>4, <1>5, <1>8, <1>9

\* A block that covers one of the heap's and more is not one of them.
LEMMA GrownIsNew ==
    ASSUME NEW S, Tiles(S), NEW b \in S, NEW d \in Block, d # b,
           d.addr <= b.addr, EndOf(b) <= EndOf(d)
    PROVE  d \notin S
<1> SUFFICES ASSUME d \in S PROVE FALSE
    OBVIOUS
<1>1. b \in Block /\ Apart(d, b)
    BY DEF Tiles, GoodBlock
<1>2. /\ b.addr \in Int /\ b.size \in Int /\ b.size >= 1 /\ EndOf(b) = b.addr + b.size
      /\ d.addr \in Int /\ d.size \in Int /\ d.size >= 1 /\ EndOf(d) = d.addr + d.size
    BY <1>1, BlockFields
<1> QED
    BY <1>1, <1>2 DEF Apart

LEMMA MergedIs ==
    ASSUME NEW a, NEW c, GoodBlock(a), GoodBlock(c), EndOf(a) = c.addr
    PROVE  /\ GoodBlock(Merged(a, c)) /\ Merged(a, c) # a /\ Merged(a, c) # c
           /\ Merged(a, c).addr = a.addr /\ EndOf(Merged(a, c)) = EndOf(c)
<1>1. /\ a.addr \in Int /\ a.size \in Int /\ a.size >= 1 /\ a.addr >= HeapStart
      /\ EndOf(a) = a.addr + a.size /\ a.size % Granule = 0 /\ a.size >= MinAlloc
      /\ c.addr \in Int /\ c.size \in Int /\ c.size >= 1 /\ EndOf(c) = c.addr + c.size
      /\ c.size % Granule = 0 /\ EndOf(c) <= HeapEnd
    BY BlockFields DEF GoodBlock
<1> DEFINE m == a.size + c.size
<1>2. /\ m \in Int /\ m >= 1 /\ m >= MinAlloc /\ a.addr + m <= HeapEnd /\ a.addr + m = EndOf(c)
    <2>1. MinAlloc \in Nat /\ HeapEnd \in Nat
        BY HeapSizes
    <2>2. a.addr + a.size = c.addr
        BY <1>1
    <2>3. a.addr + m = EndOf(c)
        <3>1. /\ a.addr \in Int /\ a.size \in Int /\ c.addr \in Int /\ c.size \in Int
              /\ EndOf(c) = c.addr + c.size
            BY <1>1
        <3> QED BY ONLY <2>2, <3>1 DEF m
    <2>4. m \in Int /\ m >= 1 /\ m >= MinAlloc
        BY <1>1, <2>1
    <2> QED BY <1>1, <2>3, <2>4
<1>3. m % Granule = 0
    <2>1. Granule \in Nat \ {0}
        BY HeapSizes
    <2> QED BY ONLY <1>1, <2>1, Multiples
<1> HIDE DEF m
<1>4. Merged(a, c) = [addr |-> a.addr, size |-> m]
    BY DEF Merged, m
<1>5. /\ Merged(a, c) \in Block /\ EndOf(Merged(a, c)) = a.addr + m
      /\ Merged(a, c).addr = a.addr /\ Merged(a, c).size = m
    BY <1>1, <1>2, <1>4, MadeBlock
<1>6. m > a.size /\ m > c.size
    BY <1>1 DEF m
<1> QED
    BY <1>1, <1>2, <1>3, <1>5, <1>6 DEF GoodBlock

\* The list insert_free builds, as f around a gap.
LEMMA InsertSplices ==
    ASSUME NEW f \in Seq(Block), NEW blk, Successor(f, blk) \in 1 .. Len(f) + 1
    PROVE  LET at == Successor(f, blk)
               joins == at <= Len(f) /\ EndOf(blk) = f[at].addr
               touches == at > 1 /\ EndOf(f[at - 1]) = blk.addr
               right == IF joins THEN Merged(blk, f[at]) ELSE blk
           IN  insert_free(f, blk) =
                  Spliced(f, IF touches THEN at - 2 ELSE at - 1,
                             IF joins THEN at + 1 ELSE at,
                             IF touches THEN Merged(f[at - 1], right) ELSE right)
<1> DEFINE n == Len(f)
           at == Successor(f, blk)
           below == SubSeq(f, 1, at - 1)
           above == SubSeq(f, at, n)
           J == above # <<>> /\ EndOf(blk) = Head(above).addr
           T == below # <<>> /\ EndOf(Last(below)) = blk.addr
           right == IF J THEN Merged(blk, Head(above)) ELSE blk
           rest == IF J THEN Tail(above) ELSE above
<1>1. /\ n \in Nat /\ at \in 1 .. n + 1 /\ at - 1 \in Nat /\ at \in Nat /\ at - 1 < at
      /\ at <= n + 1
    BY LenProperties
<1>2. insert_free(f, blk) = IF T THEN Front(below) \o <<Merged(Last(below), right)>> \o rest
                                 ELSE below \o <<right>> \o rest
    BY DEF insert_free
<1> HIDE DEF at
<1>3. /\ below \in Seq(Block) /\ Len(below) = at - 1 /\ \A k \in 1 .. at - 1 : below[k] = f[k]
      /\ above \in Seq(Block) /\ Len(above) = n - at + 1
      /\ \A k \in 1 .. n - at + 1 : above[k] = f[at + k - 1]
    BY <1>1, Around
<1> HIDE DEF below, above
<1>4. (above # <<>> <=> at <= n) /\ (at <= n => Head(above) = f[at])
    <2>1. above = <<>> <=> Len(above) = 0
        BY <1>3, EmptySeq
    <2>2. at <= n => 1 \in 1 .. n - at + 1 /\ at + 1 - 1 = at
        BY <1>1
    <2>3. at <= n => Head(above) = above[1]
        BY <1>3
    <2> QED BY <1>1, <1>3, <2>1, <2>2, <2>3
<1>5. (below # <<>> <=> at > 1) /\ (at > 1 => Last(below) = f[at - 1])
    <2>1. below = <<>> <=> Len(below) = 0
        BY <1>3, EmptySeq
    <2>2. at > 1 => at - 1 \in 1 .. at - 1
        BY <1>1
    <2> QED BY <1>1, <1>3, <2>1, <2>2 DEF Last
<1>6. at <= n => Tail(above) = SubSeq(f, at + 1, n)
    <2> SUFFICES ASSUME at <= n PROVE Tail(above) = SubSeq(f, at + 1, n)
        OBVIOUS
    <2> DEFINE s == Tail(above)
               t == SubSeq(f, at + 1, n)
    <2>1. above # <<>>
        BY <1>4
    <2>2. s \in Seq(Block) /\ Len(s) = n - at /\ \A k \in 1 .. Len(s) : s[k] = above[k + 1]
        <3>1. /\ s \in Seq(Block) /\ Len(s) = Len(above) - 1
              /\ \A k \in 1 .. Len(s) : s[k] = above[k + 1]
            BY <1>3, <2>1, HeadTailProperties
        <3> QED BY <1>1, <1>3, <3>1
    <2>3. /\ t \in Seq(Block) /\ Len(t) = n - (at + 1) + 1
          /\ \A k \in 1 .. n - (at + 1) + 1 : t[k] = f[at + 1 + k - 1]
        BY <1>1, Around
    <2> HIDE DEF s, t
    <2>4. Len(s) = Len(t)
        BY <1>1, <2>2, <2>3
    <2>5. \A k \in 1 .. Len(s) : s[k] = t[k]
        <3> TAKE k \in 1 .. Len(s)
        <3>1. /\ k + 1 \in 1 .. n - at + 1 /\ k \in 1 .. n - (at + 1) + 1
              /\ at + (k + 1) - 1 = at + 1 + k - 1
            BY <1>1, <2>2
        <3> QED BY <1>3, <2>2, <2>3, <3>1
    <2>6. s = t
        BY <2>2, <2>3, <2>4, <2>5, SeqEqual
    <2> QED BY <2>6 DEF s, t
<1>7. at > 1 => Front(below) = SubSeq(f, 1, at - 2)
    <2> SUFFICES ASSUME at > 1 PROVE Front(below) = SubSeq(f, 1, at - 2)
        OBVIOUS
    <2> DEFINE s == SubSeq(below, 1, at - 2)
               t == SubSeq(f, 1, at - 2)
    <2>1. at - 2 \in Nat /\ at - 2 < at /\ at - 1 - 1 = at - 2 /\ at - 2 < (at - 1) + 1 /\ (at - 1) + 1 \in Nat
        BY <1>1
    <2>2. Front(below) = s
        BY <1>3, <2>1 DEF Front
    <2>3. t \in Seq(Block) /\ Len(t) = at - 2 /\ \A k \in 1 .. at - 2 : t[k] = f[k]
        BY <1>1, <2>1, Around
    <2>4. s \in Seq(Block) /\ Len(s) = at - 2 /\ \A k \in 1 .. at - 2 : s[k] = below[k]
        BY <1>1, <1>3, <2>1, Around
    <2> HIDE DEF s, t
    <2>5. \A k \in 1 .. at - 2 : k \in 1 .. at - 1
        BY <1>1
    <2>6. \A k \in 1 .. Len(s) : s[k] = t[k]
        BY <1>3, <2>3, <2>4, <2>5
    <2>7. s = t
        BY <2>3, <2>4, <2>6, SeqEqual
    <2> QED BY <2>2, <2>7 DEF t
<1>8. J <=> at <= n /\ EndOf(blk) = f[at].addr
    BY <1>4
<1>9. T <=> at > 1 /\ EndOf(f[at - 1]) = blk.addr
    BY <1>5
<1>10. right = IF J THEN Merged(blk, f[at]) ELSE blk
    BY <1>4
<1>11. rest = SubSeq(f, IF J THEN at + 1 ELSE at, n)
    BY <1>4, <1>6 DEF above
<1>12. insert_free(f, blk) =
          IF T THEN SubSeq(f, 1, at - 2) \o <<Merged(f[at - 1], right)>> \o rest
          ELSE SubSeq(f, 1, at - 1) \o <<right>> \o rest
    BY <1>2, <1>5, <1>7 DEF below
<1> HIDE DEF J, T, right, rest
<1>13. insert_free(f, blk) =
          Spliced(f, IF T THEN at - 2 ELSE at - 1, IF J THEN at + 1 ELSE at,
                  IF T THEN Merged(f[at - 1], right) ELSE right)
    BY <1>11, <1>12 DEF Spliced
<1> QED
    BY <1>8, <1>9, <1>10, <1>13 DEF at

\* A block given back to the list.
LEMMA FreeList ==
    ASSUME NEW f, NEW held, HeapOK(f, held), NEW blk \in held
    PROVE  HeapOK(insert_free(f, blk), held \ {blk})
<1> DEFINE n == Len(f)
           at == Successor(f, blk)
           S == Range(f) \cup held
           joins == at <= n /\ EndOf(blk) = f[at].addr
           touches == at > 1 /\ EndOf(f[at - 1]) = blk.addr
           right == IF joins THEN Merged(blk, f[at]) ELSE blk
           m == IF touches THEN Merged(f[at - 1], right) ELSE right
           lo == IF touches THEN at - 2 ELSE at - 1
           hi == IF joins THEN at + 1 ELSE at
           S1 == IF joins THEN (S \ {blk, f[at]}) \cup {right} ELSE S
           S2 == IF touches THEN (S1 \ {f[at - 1], right}) \cup {m} ELSE S1
           g == Spliced(f, lo, hi, m)
<1>1. /\ ListOK(f) /\ Tiles(S) /\ Range(f) \cap held = {}
      /\ n \in Nat /\ DOMAIN f = 1 .. n /\ f \in Seq(Block)
      /\ \A i \in 1 .. n : f[i] \in Block /\ f[i] \in Range(f) /\ GoodBlock(f[i])
      /\ \A i, j \in 1 .. n : i # j => f[i] # f[j]
    BY ListFacts DEF HeapOK, ListOK
<1>2. /\ at \in 1 .. n + 1
      /\ \A i \in 1 .. at - 1 : EndOf(f[i]) <= blk.addr
      /\ \A i \in at .. n : EndOf(blk) <= f[i].addr
    BY SuccessorIs
<1>3. insert_free(f, blk) = g
    BY <1>1, <1>2, InsertSplices
<1> HIDE DEF at
<1>4. blk \in S /\ blk \in Block /\ GoodBlock(blk) /\ \A i \in 1 .. n : f[i] # blk
    BY <1>1 DEF Tiles, GoodBlock
<1>5. /\ blk.addr \in Int /\ EndOf(blk) \in Int /\ blk.addr < EndOf(blk)
      /\ \A i \in 1 .. n : f[i].addr \in Int /\ EndOf(f[i]) \in Int /\ f[i].addr < EndOf(f[i])
    BY <1>1, <1>4, BlockFields
<1>6. at <= n => at \in 1 .. n
    BY <1>2
<1>7. at > 1 => at - 1 \in 1 .. n /\ at - 1 # at
    BY <1>1, <1>2
<1>8. /\ GoodBlock(right) /\ right.addr = blk.addr
      /\ joins => right # blk /\ right # f[at] /\ EndOf(right) = EndOf(f[at])
      /\ ~joins => right = blk
    <2>1. CASE joins
        <3>1. GoodBlock(f[at])
            BY <1>1, <1>6, <2>1
        <3> QED BY <1>4, <2>1, <3>1, MergedIs
    <2>2. CASE ~joins
        BY <1>4, <2>2
    <2> QED BY <2>1, <2>2
<1>9. Tiles(S1) /\ (joins => right \notin S)
    <2>1. CASE joins
        <3>1. f[at] \in S /\ f[at] \in Block /\ EndOf(blk) = f[at].addr
            BY <1>1, <1>6, <2>1
        <3>2. Tiles((S \ {blk, f[at]}) \cup {right})
            BY <1>1, <1>4, <1>8, <2>1, <3>1, JoinTiles
        <3>3. right.addr <= blk.addr /\ EndOf(blk) <= EndOf(right) /\ right \in Block
            BY <1>5, <1>6, <1>8, <2>1 DEF GoodBlock
        <3>4. right \notin S
            BY <1>1, <1>4, <1>8, <2>1, <3>3, GrownIsNew
        <3> QED BY <2>1, <3>2, <3>4
    <2>2. CASE ~joins
        BY <1>1, <2>2
    <2> QED BY <2>1, <2>2
<1>10. right \in S1 /\ (touches => f[at - 1] \in S1 /\ GoodBlock(f[at - 1]))
    <2>1. right \in S1
        BY <1>4, <1>8
    <2>2. ASSUME touches PROVE f[at - 1] \in S1 /\ GoodBlock(f[at - 1])
        <3>1. f[at - 1] \in S /\ f[at - 1] # blk /\ GoodBlock(f[at - 1])
            BY <1>1, <1>4, <1>7, <2>2
        <3>2. joins => f[at - 1] # f[at]
            BY <1>1, <1>6, <1>7, <2>2
        <3> QED BY <3>1, <3>2
    <2> QED BY <2>1, <2>2
<1> HIDE DEF right
<1>11. /\ GoodBlock(m) /\ EndOf(m) = EndOf(right)
       /\ touches => m # f[at - 1] /\ m # right /\ m.addr = f[at - 1].addr
       /\ ~touches => m = right
    <2>1. CASE touches
        <3>1. EndOf(f[at - 1]) = right.addr
            BY <1>8, <2>1
        <3> QED BY <1>8, <1>10, <2>1, <3>1, MergedIs
    <2>2. CASE ~touches
        BY <1>8, <2>2
    <2> QED BY <2>1, <2>2
<1> HIDE DEF S1
<1>12. Tiles(S2) /\ (touches => m \notin S1)
    <2>1. CASE touches
        <3>1. EndOf(f[at - 1]) = right.addr
            BY <1>8, <2>1
        <3>2. Tiles((S1 \ {f[at - 1], right}) \cup {m})
            BY <1>9, <1>10, <1>11, <2>1, <3>1, JoinTiles
        <3>3. m.addr <= f[at - 1].addr /\ EndOf(f[at - 1]) <= EndOf(m) /\ m \in Block
            <4>1. EndOf(f[at - 1]) <= EndOf(right)
                <5>1. right \in Block
                    BY <1>8 DEF GoodBlock
                <5>2. right.addr \in Int /\ right.size \in Int /\ right.size >= 1 /\ EndOf(right) = right.addr + right.size
                    BY <5>1, BlockFields
                <5> QED BY <3>1, <5>2
            <4>2. f[at - 1].addr \in Int
                BY <1>5, <1>7, <2>1
            <4> QED BY <1>11, <2>1, <4>1, <4>2 DEF GoodBlock
        <3>4. m \notin S1
            BY <1>9, <1>10, <1>11, <2>1, <3>3, GrownIsNew
        <3> QED BY <2>1, <3>2, <3>4
    <2>2. CASE ~touches
        BY <1>9, <2>2
    <2> QED BY <2>1, <2>2
<1> HIDE DEF m, S2
<1>13. lo \in Nat /\ hi \in Nat /\ lo < hi /\ hi <= n + 1
    BY <1>1, <1>2
<1>14. lo >= 1 => EndOf(f[lo]) < m.addr
    <2> SUFFICES ASSUME lo >= 1 PROVE EndOf(f[lo]) < m.addr
        OBVIOUS
    <2>1. CASE touches
        <3>1. lo \in 1 .. n /\ at - 1 \in 1 .. n /\ lo < at - 1
            BY <1>1, <1>2, <2>1
        <3> QED BY <1>1, <1>11, <2>1, <3>1 DEF ListOK
    <2>2. CASE ~touches
        <3>1. lo = at - 1 /\ at > 1 /\ lo \in 1 .. at - 1 /\ lo \in 1 .. n
            BY <1>1, <1>2, <2>2
        <3>2. EndOf(f[lo]) <= blk.addr /\ EndOf(f[lo]) # blk.addr /\ EndOf(f[lo]) \in Int
            BY <1>2, <1>5, <2>2, <3>1
        <3>3. m.addr = blk.addr
            BY <1>8, <1>11, <2>2
        <3> QED BY <1>5, <3>2, <3>3
    <2> QED BY <2>1, <2>2
<1>15. hi <= n => EndOf(m) < f[hi].addr
    <2> SUFFICES ASSUME hi <= n PROVE EndOf(m) < f[hi].addr
        OBVIOUS
    <2>1. CASE joins
        <3>1. at \in 1 .. n /\ hi \in 1 .. n /\ at < hi
            BY <1>1, <1>2, <2>1
        <3>2. EndOf(m) = EndOf(f[at])
            BY <1>8, <1>11, <2>1
        <3> QED BY <1>1, <2>1, <3>1, <3>2 DEF ListOK
    <2>2. CASE ~joins
        <3>1. hi = at /\ at \in at .. n /\ at \in 1 .. n /\ at <= n
            BY <1>1, <1>2, <2>2
        <3>2. EndOf(blk) <= f[at].addr /\ EndOf(blk) # f[at].addr /\ f[at].addr \in Int
            BY <1>2, <1>5, <2>2, <3>1
        <3>3. EndOf(m) = EndOf(blk)
            BY <1>8, <1>11, <2>2
        <3> QED BY <1>5, <3>1, <3>2, <3>3
    <2> QED BY <2>1, <2>2
<1>16. /\ ListOK(g)
       /\ Range(g) = {f[k] : k \in 1 .. lo} \cup {m} \cup {f[k] : k \in hi .. n}
    <2> HIDE DEF lo, hi, n
    <2>1. /\ lo \in Nat /\ hi \in Nat /\ lo < hi /\ hi <= Len(f) + 1
          /\ lo >= 1 => EndOf(f[lo]) < m.addr
          /\ hi <= Len(f) => EndOf(m) < f[hi].addr
        BY <1>13, <1>14, <1>15 DEF n
    <2>2. ListOK(f) /\ GoodBlock(m)
        BY <1>1, <1>11
    <2>3. /\ ListOK(Spliced(f, lo, hi, m))
          /\ Range(Spliced(f, lo, hi, m)) =
                {f[k] : k \in 1 .. lo} \cup {m} \cup {f[k] : k \in hi .. Len(f)}
        BY <2>1, <2>2, SplicedList
    <2> QED BY <2>3 DEF n
<1> DEFINE A == {f[k] : k \in 1 .. lo} \cup {f[k] : k \in hi .. n}
<1>17. A = {x \in Range(f) : (touches => x # f[at - 1]) /\ (joins => x # f[at])}
    <2> DEFINE gone == {k \in 1 .. n : (touches /\ k = at - 1) \/ (joins /\ k = at)}
    <2>1. Range(f) = {f[k] : k \in 1 .. n}
        BY <1>1 DEF Range
    <2>2. \A k \in 1 .. n : k \in gone <=> ~(k \in 1 .. lo \/ k \in hi .. n)
        BY <1>1, <1>2
    <2>3. \A k \in (1 .. lo) \cup (hi .. n) : k \in 1 .. n /\ k \notin gone
        BY <1>1, <1>2, <1>13
    <2>4. A = {f[k] : k \in (1 .. n) \ gone}
        <3> HIDE DEF gone, lo, hi
        <3>1. \A x \in A : x \in {f[k] : k \in (1 .. n) \ gone}
            BY <2>3
        <3>2. \A k \in (1 .. n) \ gone : f[k] \in A
            BY <2>2
        <3> QED BY <3>1, <3>2
    <2>5. \A k \in 1 .. n : k \in gone <=> ((touches /\ f[k] = f[at - 1]) \/ (joins /\ f[k] = f[at]))
        BY <1>1, <1>6, <1>7
    <2> HIDE DEF gone, A, touches, joins
    <2> QED BY <2>1, <2>4, <2>5
<1> HIDE DEF g, A, lo, hi
<1>18. Range(g) = A \cup {m}
    BY <1>16 DEF A
<1>19. S2 = A \cup {m} \cup (held \ {blk})
    <2>1. CASE touches /\ joins
        BY <1>1, <1>4, <1>6, <1>7, <1>8, <1>9, <1>11, <1>12, <1>17, <2>1 DEF S1, S2
    <2>2. CASE touches /\ ~joins
        BY <1>1, <1>4, <1>6, <1>7, <1>8, <1>9, <1>11, <1>12, <1>17, <2>2 DEF S1, S2
    <2>3. CASE ~touches /\ joins
        BY <1>1, <1>4, <1>6, <1>7, <1>8, <1>9, <1>11, <1>12, <1>17, <2>3 DEF S1, S2
    <2>4. CASE ~touches /\ ~joins
        BY <1>1, <1>4, <1>6, <1>7, <1>8, <1>9, <1>11, <1>12, <1>17, <2>4 DEF S1, S2
    <2> QED BY <2>1, <2>2, <2>3, <2>4
<1>20. m \notin held \ {blk}
    <2>1. CASE touches
        <3>1. \A x \in held \ {blk} : x \in S1
            BY <1>1, <1>6, <2>1 DEF S1
        <3> QED BY <1>12, <2>1, <3>1
    <2>2. CASE ~touches
        BY <1>8, <1>9, <1>11, <2>2
    <2> QED BY <2>1, <2>2
<1>21. Range(g) \cap (held \ {blk}) = {}
    BY <1>1, <1>17, <1>18, <1>20
<1>22. Range(g) \cup (held \ {blk}) = S2
    BY <1>18, <1>19
<1> QED
    BY <1>3, <1>12, <1>16, <1>21, <1>22 DEF HeapOK

-----------------------------------------------------------------------------
(* What a step of the system keeps, where Main is the one spawner.  The    *)
(* parts are stated over values, so that a step is compared part by part.  *)

Live == ready \cup {curr}
Own == used \ data

\* create() past the row it found, with a stack of its own, and with the row
\* published.
Claimed == {"claim", "alloc", "unclaim", "publish", "base", "canary", "ready"}
Stacked == {"publish", "base", "canary", "ready"}
Published == {"base", "canary", "ready"}

\* create() with the row taken but not yet published.
HalfMade == {"alloc", "unclaim", "publish"}

\* The one running process is out of the ready list, Main is never gone.
Turns(st, rd, c) ==
    /\ st[c] = "CURR" /\ c \notin rd /\ Main \in rd \cup {c}
    /\ \A p \in rd : st[p] = "AVAIL"

\* The row create() has found belongs to no process that may run.
RowFound(st, L, s, r) ==
    /\ s = "scan" => r \in 1 .. NumProc
    /\ s \in Claimed => r \in 1 .. NumProc - 1 /\ r \notin L
    /\ s \in Published => st[r] = "AVAIL"

\* Only the row create() has taken and not yet published is UNAVAIL.
Taking(st, s, r) == \A q \in Pid : st[q] = "UNAVAIL" => s \in HalfMade /\ r = q

\* A process that may run has a stack with its canary in it.
HasStack(base, w, own, p) == (\E b \in own : b.addr = base[p]) /\ w[base[p]] = p

\* The stack create() holds is nobody's yet.
NewStack(base, w, own, L, s, r, k) ==
    /\ s \in Stacked => /\ \E b \in own : b.addr = k
                        /\ \A q \in L \ {NullProc} : base[q] # k
    /\ s \in {"canary", "ready"} => base[r] = k
    /\ s = "ready" => w[k] = r

\* Every stack handed out is a live process's or create()'s.
Kept(base, own, L, s, k) ==
    \A b \in own : \/ \E p \in L \ {NullProc} : base[p] = b.addr
                   \/ s \in Stacked /\ k = b.addr

Rows ==
    /\ Turns(status, ready, curr)
    /\ RowFound(status, Live, pc[Main], row[Main])
    /\ Taking(status, pc[Main], row[Main])
    /\ \A p \in Live \ {NullProc} : HasStack(stk_base, word, Own, p)
    /\ NewStack(stk_base, word, Own, Live, pc[Main], row[Main], stk[Main])
    /\ Kept(stk_base, Own, Live, pc[Main], stk[Main])

LifeInv ==
    /\ TypeOK /\ RowExclusive
    /\ HeapOK(freelist, used)
    /\ \A p \in Pid \ {Main} : pc[p] = "run"
    /\ ~rebooted => Rows

Statuses == {"UNUSED", "UNAVAIL", "AVAIL", "CURR"}

\* What sched() does when it finds every canary: one process of those that
\* may run gets the processor, the others wait.
LEMMA SchedTurns ==
    ASSUME NEW st \in [Pid -> Statuses], NEW w, NEW others \in SUBSET Pid, curr \in Pid,
           sched(st, w, others), ~rebooted', curr \notin others,
           \A p \in others : st[p] = "AVAIL",
           NEW L, L = IF st[curr] = "CURR" THEN others \cup {curr} ELSE others, Main \in L
    PROVE  /\ ready' \cup {curr'} = L /\ ready' \subseteq Pid /\ curr' \in Pid
           /\ status' \in [Pid -> Statuses]
           /\ Turns(status', ready', curr')
           /\ \A p \in Pid \ L : status'[p] = st[p]
<1> DEFINE old == IF st[curr] = "CURR" THEN [st EXCEPT ![curr] = "AVAIL"] ELSE st
<1>1. ~Smashed(st, w)
    BY DEF sched
<1>2. \E next \in IF L = {} THEN {NullProc} ELSE L :
          /\ curr' = next /\ ready' = L \ {next} /\ status' = [old EXCEPT ![next] = "CURR"]
    BY <1>1 DEF sched
<1>3. PICK next \in L :
          /\ curr' = next /\ ready' = L \ {next} /\ status' = [old EXCEPT ![next] = "CURR"]
    BY <1>2
<1>4. L \subseteq Pid /\ next \in Pid
    BY <1>3
<1>5. old \in [Pid -> Statuses] /\ \A p \in L : old[p] = "AVAIL"
    BY DEF Statuses
<1>6. \A p \in Pid \ L : old[p] = st[p]
    OBVIOUS
<1> HIDE DEF old
<1>7. /\ status' \in [Pid -> Statuses] /\ status'[next] = "CURR"
      /\ \A p \in Pid \ {next} : status'[p] = old[p]
    BY <1>3, <1>4, <1>5 DEF Statuses
<1>8. ready' \cup {curr'} = L /\ ready' \subseteq Pid /\ curr' \in Pid
    BY <1>3, <1>4
<1>9. Turns(status', ready', curr')
    BY <1>3, <1>4, <1>5, <1>7, <1>8 DEF Turns
<1>10. \A p \in Pid \ L : status'[p] = st[p]
    BY <1>3, <1>6, <1>7
<1> QED
    BY <1>7, <1>8, <1>9, <1>10

\* sched() that reboots leaves the lists as they are.
LEMMA SchedStops ==
    ASSUME NEW st, NEW w, NEW others, rebooted \in BOOLEAN, ~rebooted, sched(st, w, others), rebooted'
    PROVE  rebooted' = TRUE /\ status' = st /\ ready' = others /\ curr' = curr
BY DEF sched

LEMMA SchedEnds ==
    ASSUME NEW st, NEW w, NEW others, rebooted \in BOOLEAN, ~rebooted, sched(st, w, others)
    PROVE  rebooted' \in BOOLEAN
BY DEF sched

\* Two blocks of a tiled heap that begin at one address are one.
LEMMA SameBlock ==
    ASSUME NEW f, NEW held, HeapOK(f, held), NEW a \in held, NEW b \in held, a.addr = b.addr
    PROVE  a = b
<1>1. a \in Block /\ b \in Block /\ (a = b \/ Apart(a, b))
    BY DEF HeapOK, Tiles, GoodBlock
<1> QED
    BY <1>1, ApartDiffer

-----------------------------------------------------------------------------
(* The parts of an invariant that holds in every state.                    *)

LEMMA TypeParts ==
    ASSUME LifeInv
    PROVE  /\ status \in [Pid -> Statuses]
           /\ stk_base \in [Pid -> {0} \cup HeapStart .. HeapEnd]
           /\ ready \in SUBSET Pid /\ curr \in Pid /\ rebooted \in BOOLEAN
           /\ freelist \in Seq(Block) /\ used \subseteq Block /\ data \subseteq used
           /\ word \in [HeapStart .. HeapEnd -> Pid \cup {Junk}]
           /\ pc \in [Pid -> Step] /\ row \in [Pid -> 0 .. NumProc]
           /\ stk \in [Pid -> {0} \cup HeapStart .. HeapEnd]
           /\ HeapOK(freelist, used)
           /\ \A p \in Pid \ {Main} : pc[p] = "run"
BY DEF LifeInv, TypeOK, Statuses

LEMMA PidFacts ==
    /\ NumProc \in Nat /\ NumProc > 1 /\ NullProc \in Pid /\ Main \in Pid /\ Main # NullProc
    /\ 1 .. NumProc - 1 \subseteq Pid /\ Main \in Lasting /\ NullProc \in Lasting
    /\ \A p \in Pid : p \in Int
BY LifeAssumption DEF Pid, Main, NullProc

\* Only Main is ever in create().
LEMMA MainCreates ==
    ASSUME LifeInv, NEW p \in Pid, pc[p] # "run"
    PROVE  p = Main
BY TypeParts

\* The row in hand keeps out of every process that may run.
LEMMA ExclusiveRow ==
    ASSUME Spawners = {Main}, ~rebooted => Rows, ~rebooted
    PROVE  RowExclusive
<1>1. RowFound(status, Live, pc[Main], row[Main]) /\ Taking(status, pc[Main], row[Main])
    BY DEF Rows
<1> QED
    BY <1>1 DEF RowFound, Taking, RowExclusive, Live, Claimed, HalfMade

-----------------------------------------------------------------------------
(* The first tick.                                                         *)

LEMMA WholeHeap == HeapOK(initmem, {})
<1> DEFINE z == HeapEnd - HeapStart
           b == [addr |-> HeapStart, size |-> z]
<1>1. /\ HeapStart \in Int /\ HeapEnd \in Int /\ MinAlloc \in Int /\ MinAlloc >= 1
      /\ HeapStart + MinAlloc <= HeapEnd /\ Granule \in Nat \ {0}
      /\ HeapStart % Granule = 0 /\ HeapEnd % Granule = 0
    BY HeapSizes
<1>2. z \in Int /\ z >= MinAlloc /\ z >= 1 /\ HeapStart + z = HeapEnd
    BY <1>1
<1>3. z % Granule = 0
    BY ONLY <1>1, Multiples
<1> HIDE DEF z
<1>4. GoodBlock(b) /\ b.addr = HeapStart /\ EndOf(b) = HeapEnd
    BY <1>1, <1>2, <1>3, MadeBlock DEF GoodBlock
<1>5. initmem = <<b>>
    BY DEF initmem, z
<1> HIDE DEF b
<1>6. b \in Block
    BY <1>4 DEF GoodBlock
<1>7. initmem \in Seq(Block) /\ DOMAIN initmem = {1} /\ initmem[1] = b /\ Range(initmem) = {b}
    <2>1. initmem \in Seq(Block) /\ Len(initmem) = 1 /\ initmem[1] = b
        BY <1>5, <1>6
    <2>2. DOMAIN initmem = {1}
        BY <2>1
    <2> QED BY <2>1, <2>2 DEF Range
<1>8. ListOK(initmem)
    <2>1. \A i, j \in DOMAIN initmem : i < j => EndOf(initmem[i]) < initmem[j].addr
        BY <1>7
    <2> QED BY <1>4, <1>7, <2>1 DEF ListOK
<1>9. Tiles({b})
    <2>1. \A x \in HeapStart .. HeapEnd - 1 : b.addr <= x /\ x < EndOf(b)
        BY <1>1, <1>4
    <2> QED BY <1>4, <2>1 DEF Tiles
<1> QED
    BY <1>7, <1>8, <1>9 DEF HeapOK

LEMMA InitHeap ==
    ASSUME NEW n \in StackSizes, MainStack(n).block # NoBlock
    PROVE  /\ HeapOK(MainStack(n).free, {MainStack(n).block})
           /\ MainStack(n).block \in Block /\ MainStack(n).free \in Seq(Block)
<1>1. n \in Nat
    BY LifeAssumption
<1>2. BlockSize(n) \in Nat /\ BlockSize(n) >= MinAlloc /\ BlockSize(n) % Granule = 0
    BY <1>1, BlockSizeIs
<1>3. Taken(initmem, {}, MainStack(n))
    BY <1>2, WholeHeap, LastFitTakes DEF MainStack
<1> HIDE DEF MainStack
<1>4. {} \cup {MainStack(n).block} = {MainStack(n).block}
    OBVIOUS
<1> QED
    BY <1>3, <1>4 DEF Taken, HeapOK, ListOK, GoodBlock

LEMMA InitLife == Spawners = {Main} /\ Init => LifeInv
<1> SUFFICES ASSUME Spawners = {Main}, Init PROVE LifeInv
    OBVIOUS
<1>1. PICK n \in StackSizes :
        /\ MainStack(n).block # NoBlock
        /\ status = [p \in Pid |-> CASE p = NullProc -> "CURR"
                                     [] p = Main -> "AVAIL"
                                     [] OTHER -> "UNUSED"]
        /\ stk_base = [p \in Pid |-> IF p = Main THEN MainStack(n).block.addr ELSE 0]
        /\ ready = {Main} /\ curr = NullProc /\ rebooted = FALSE
        /\ freelist = MainStack(n).free
        /\ used = {MainStack(n).block}
        /\ word = [a \in HeapStart .. HeapEnd |->
                      IF a = MainStack(n).block.addr THEN Main ELSE Junk]
        /\ data = {}
        /\ pc = [p \in Pid |-> "run"]
        /\ row = [p \in Pid |-> 0]
        /\ stk = [p \in Pid |-> 0]
    BY DEF Init
<1> DEFINE b == MainStack(n).block
<1>2. HeapOK(freelist, used) /\ b \in Block /\ freelist \in Seq(Block)
    BY <1>1, InitHeap
<1> HIDE DEF b
<1>3. b.addr \in HeapStart .. HeapEnd /\ b.addr \in Int
    BY <1>2, BlockFields
<1>4. /\ status \in [Pid -> {"UNUSED", "UNAVAIL", "AVAIL", "CURR"}]
      /\ status[NullProc] = "CURR" /\ status[Main] = "AVAIL"
    <2>1. NullProc \in Pid /\ Main \in Pid /\ Main # NullProc
        BY PidFacts
    <2> QED BY <1>1, <2>1
<1>5. /\ stk_base \in [Pid -> {0} \cup HeapStart .. HeapEnd]
      /\ stk_base[Main] = b.addr
    BY <1>1, <1>3, PidFacts DEF b
<1>6. /\ word \in [HeapStart .. HeapEnd -> Pid \cup {Junk}] /\ word[b.addr] = Main
    <2>1. word = [a \in HeapStart .. HeapEnd |-> IF a = b.addr THEN Main ELSE Junk]
        BY <1>1 DEF b
    <2> QED BY <1>3, <2>1, PidFacts
<1>7. /\ pc \in [Pid -> Step] /\ row \in [Pid -> 0 .. NumProc]
      /\ stk \in [Pid -> {0} \cup HeapStart .. HeapEnd]
      /\ \A p \in Pid : pc[p] = "run"
    BY <1>1, PidFacts DEF Step
<1>8. TypeOK
    BY <1>1, <1>2, <1>4, <1>5, <1>6, <1>7, PidFacts DEF TypeOK, b
<1>9. \A p \in Pid : status[p] # "UNAVAIL"
    BY <1>1
<1>10. Live = {Main, NullProc} /\ Own = {b} /\ Live \ {NullProc} = {Main}
    BY <1>1, PidFacts DEF Live, Own, b
<1>11. Rows
    <2>1. Turns(status, ready, curr)
        BY <1>1, <1>4, PidFacts DEF Turns
    <2>2. HasStack(stk_base, word, Own, Main)
        BY <1>5, <1>6, <1>10 DEF HasStack
    <2>3. Kept(stk_base, Own, Live, pc[Main], stk[Main])
        BY <1>5, <1>10 DEF Kept
    <2>4. /\ RowFound(status, Live, pc[Main], row[Main])
          /\ NewStack(stk_base, word, Own, Live, pc[Main], row[Main], stk[Main])
        BY <1>7, PidFacts DEF RowFound, NewStack, Claimed, Stacked, Published
    <2>5. Taking(status, pc[Main], row[Main])
        BY <1>9 DEF Taking
    <2> QED BY <1>10, <2>1, <2>2, <2>3, <2>4, <2>5 DEF Rows
<1>12. RowExclusive
    BY <1>1, <1>11, ExclusiveRow
<1> QED
    BY <1>2, <1>7, <1>8, <1>11, <1>12 DEF LifeInv

-----------------------------------------------------------------------------
(* The steps of create().                                                  *)

LEMMA RowParts ==
    ASSUME LifeInv, ~rebooted
    PROVE  /\ Turns(status, ready, curr)
           /\ RowFound(status, Live, pc[Main], row[Main])
           /\ Taking(status, pc[Main], row[Main])
           /\ \A p \in Live \ {NullProc} : HasStack(stk_base, word, Own, p)
           /\ NewStack(stk_base, word, Own, Live, pc[Main], row[Main], stk[Main])
           /\ Kept(stk_base, Own, Live, pc[Main], stk[Main])
           /\ Live \in SUBSET Pid /\ Main \in Live
           /\ \A p \in Live : status[p] \in {"AVAIL", "CURR"}
<1>1. Rows
    BY DEF LifeInv
<1>2. Live \in SUBSET Pid
    BY TypeParts DEF Live
<1>3. Turns(status, ready, curr)
    BY <1>1 DEF Rows
<1>4. Main \in Live /\ \A p \in Live : status[p] \in {"AVAIL", "CURR"}
    BY <1>3 DEF Turns, Live
<1> QED
    BY <1>1, <1>2, <1>4 DEF Rows

\* A state whose parts hold is one of the invariant's.
LEMMA LifeParts ==
    ASSUME Spawners = {Main}, TypeOK', HeapOK(freelist', used'),
           \A p \in Pid \ {Main} : pc'[p] = "run",
           NEW L, L = ready' \cup {curr'}, NEW own, own = used' \ data',
           Turns(status', ready', curr'),
           RowFound(status', L, pc'[Main], row'[Main]),
           Taking(status', pc'[Main], row'[Main]),
           \A p \in L \ {NullProc} : HasStack(stk_base', word', own, p),
           NewStack(stk_base', word', own, L, pc'[Main], row'[Main], stk'[Main]),
           Kept(stk_base', own, L, pc'[Main], stk'[Main])
    PROVE  LifeInv'
<1>1. Live' = L /\ Own' = own
    BY DEF Live, Own
<1>2. Rows'
    BY <1>1 DEF Rows
<1>3. RowExclusive'
    BY <1>1 DEF RowFound, Taking, RowExclusive, Live, Claimed, HalfMade
<1> QED
    BY <1>2, <1>3 DEF LifeInv

\* Where create() changes nothing but its place and the row it looks at.
LEMMA LookingKeeps ==
    ASSUME LifeInv, Spawners = {Main}, ~rebooted,
           UNCHANGED <<table, run, heap, stk>>,
           NEW s \in {"run", "scan", "claim"}, NEW r \in 0 .. NumProc,
           pc' = [pc EXCEPT ![Main] = s], row' = [row EXCEPT ![Main] = r],
           pc[Main] \notin Stacked, pc[Main] \notin HalfMade,
           s = "scan" => r \in 1 .. NumProc,
           s = "claim" => r \in 1 .. NumProc - 1 /\ r \notin Live
    PROVE  LifeInv'
<1>1. /\ UNCHANGED <<status, stk_base, ready, curr, rebooted>>
      /\ UNCHANGED <<freelist, used, word, data, stk>>
    BY DEF table, run, heap
<1>2. /\ pc' \in [Pid -> Step] /\ pc'[Main] = s /\ \A p \in Pid \ {Main} : pc'[p] = "run"
      /\ row' \in [Pid -> 0 .. NumProc] /\ row'[Main] = r
    BY TypeParts, PidFacts DEF Step
<1>3. TypeOK'
    BY <1>1, <1>2, TypeParts DEF TypeOK, Statuses
<1>4. Live = ready' \cup {curr'} /\ Own = used' \ data'
    BY <1>1 DEF Live, Own
<1>5. HeapOK(freelist', used')
    BY <1>1, TypeParts
<1>6. Turns(status', ready', curr') /\ \A p \in Live \ {NullProc} : HasStack(stk_base', word', Own, p)
    BY <1>1, RowParts
<1>7. RowFound(status', Live, pc'[Main], row'[Main])
    BY <1>2 DEF RowFound, Claimed, Published
<1>10. Taking(status', pc'[Main], row'[Main])
    BY <1>1, RowParts DEF Taking
<1>8. NewStack(stk_base', word', Own, Live, pc'[Main], row'[Main], stk'[Main])
    BY <1>2 DEF NewStack, Stacked
<1>9. Kept(stk_base', Own, Live, pc'[Main], stk'[Main])
    BY <1>1, <1>2, RowParts DEF Kept
<1> QED
    BY <1>2, <1>3, <1>4, <1>5, <1>6, <1>7, <1>8, <1>9, <1>10, LifeParts

LEMMA SpawnKeeps ==
    ASSUME LifeInv, Spawners = {Main}, NEW p \in Pid, Spawn(p) PROVE LifeInv'
<1>1. /\ p = Main /\ ~rebooted /\ pc[Main] = "run"
      /\ pc' = [pc EXCEPT ![Main] = "scan"] /\ row' = [row EXCEPT ![Main] = 1]
      /\ UNCHANGED <<table, run, heap, stk>>
    BY DEF Spawn, Running, Goto
<1>2. 1 \in 1 .. NumProc /\ 1 \in 0 .. NumProc
    BY PidFacts
<1>3. pc[Main] \notin Stacked /\ pc[Main] \notin HalfMade
    BY <1>1 DEF Stacked, HalfMade
<1> QED
    BY <1>1, <1>2, <1>3, LookingKeeps

LEMMA ScanRowKeeps ==
    ASSUME LifeInv, Spawners = {Main}, NEW p \in Pid, ScanRow(p) PROVE LifeInv'
<1> DEFINE r == row[Main]
<1>1. p = Main
    BY MainCreates DEF ScanRow, Running
<1>2. /\ ~rebooted /\ pc[Main] = "scan" /\ UNCHANGED <<table, run, heap, stk>>
    BY <1>1 DEF ScanRow, Running
<1>3. pc[Main] \notin Stacked /\ pc[Main] \notin HalfMade
    BY <1>2 DEF Stacked, HalfMade
<1>4. r \in 1 .. NumProc /\ NumProc \in Nat /\ row = [row EXCEPT ![Main] = r] /\ pc = [pc EXCEPT ![Main] = "scan"]
    BY <1>2, RowParts, TypeParts, PidFacts DEF RowFound
<1>5. CASE r = NumProc
    <2>1. pc' = [pc EXCEPT ![Main] = "run"] /\ row' = [row EXCEPT ![Main] = 0]
        BY <1>1, <1>5 DEF ScanRow, Goto
    <2>2. 0 \in 0 .. NumProc
        BY <1>4
    <2> QED BY <1>2, <1>3, <2>1, <2>2, LookingKeeps
<1>6. CASE r # NumProc /\ status[r] = "UNUSED"
    <2>1. pc' = [pc EXCEPT ![Main] = "claim"] /\ row' = [row EXCEPT ![Main] = r]
        BY <1>1, <1>4, <1>6 DEF ScanRow, Goto
    <2>2. r \in 1 .. NumProc - 1 /\ r \in 0 .. NumProc
        BY <1>4, <1>6
    <2>3. r \notin Live
        BY <1>2, <1>6, RowParts
    <2> HIDE DEF r
    <2> QED BY <1>2, <1>3, <2>1, <2>2, <2>3, LookingKeeps
<1>7. CASE r # NumProc /\ status[r] # "UNUSED"
    <2>1. pc' = [pc EXCEPT ![Main] = "scan"] /\ row' = [row EXCEPT ![Main] = r + 1]
        BY <1>1, <1>4, <1>7 DEF ScanRow, Goto
    <2>2. r + 1 \in 1 .. NumProc /\ r + 1 \in 0 .. NumProc
        BY <1>4, <1>7
    <2> HIDE DEF r
    <2> QED BY <1>2, <1>3, <2>1, <2>2, LookingKeeps
<1> QED
    BY <1>5, <1>6, <1>7

\* The row create() has claimed.
LEMMA RowInHand ==
    ASSUME LifeInv, ~rebooted, pc[Main] \in Claimed
    PROVE  /\ row[Main] \in 1 .. NumProc - 1 /\ row[Main] \in Pid /\ row[Main] # Main
           /\ row[Main] # NullProc /\ row[Main] \notin Live /\ row[Main] \in 0 .. NumProc
           /\ pc[Main] \in Published => status[row[Main]] = "AVAIL"
<1>1. /\ row[Main] \in 1 .. NumProc - 1 /\ row[Main] \notin Live
      /\ pc[Main] \in Published => status[row[Main]] = "AVAIL"
    BY RowParts DEF RowFound
<1> QED
    BY <1>1, RowParts, PidFacts DEF NullProc

\* Where create() writes the row's status.
LEMMA MarkKeeps ==
    ASSUME LifeInv, Spawners = {Main}, ~rebooted, pc[Main] \in Claimed,
           NEW v \in Statuses, NEW s \in Step, NEW k \in 0 .. NumProc,
           status' = [status EXCEPT ![row[Main]] = v],
           pc' = [pc EXCEPT ![Main] = s], row' = [row EXCEPT ![Main] = k],
           UNCHANGED <<stk_base, run, heap, stk>>,
           s \in Claimed => k = row[Main], s # "scan",
           v = "UNAVAIL" => s \in HalfMade /\ k = row[Main],
           s \in Published => v = "AVAIL",
           s \in Stacked <=> pc[Main] \in Stacked, s \notin {"canary", "ready"}
    PROVE  LifeInv'
<1> DEFINE r == row[Main]
<1>1. /\ UNCHANGED <<stk_base, ready, curr, rebooted>>
      /\ UNCHANGED <<freelist, used, word, data, stk>>
    BY DEF run, heap
<1>2. /\ pc' \in [Pid -> Step] /\ pc'[Main] = s /\ \A p \in Pid \ {Main} : pc'[p] = "run"
      /\ row' \in [Pid -> 0 .. NumProc] /\ row'[Main] = k
    BY TypeParts, PidFacts
<1>3. r \in 1 .. NumProc - 1 /\ r \in Pid /\ r \notin Live
    BY RowInHand
<1>4. /\ status' \in [Pid -> Statuses] /\ status'[r] = v
      /\ \A p \in Live : status'[p] = status[p]
    BY <1>3, TypeParts, RowParts
<1>13. Taking(status', pc'[Main], row'[Main])
    <2>1. \A p \in Pid \ {r} : status'[p] = status[p]
        BY <1>3, TypeParts
    <2> QED BY <1>2, <1>4, <2>1, RowParts DEF Taking
<1> HIDE DEF r
<1>5. TypeOK'
    BY <1>1, <1>2, <1>4, TypeParts DEF TypeOK, Statuses
<1>6. Live = ready' \cup {curr'} /\ Own = used' \ data'
    BY <1>1 DEF Live, Own
<1>7. HeapOK(freelist', used')
    BY <1>1, TypeParts
<1>8. Turns(status', ready', curr')
    BY <1>1, <1>4, RowParts DEF Turns, Live
<1>9. \A p \in Live \ {NullProc} : HasStack(stk_base', word', Own, p)
    BY <1>1, RowParts
<1>10. RowFound(status', Live, pc'[Main], row'[Main])
    <2>1. s \in Published => s \in Claimed
        BY DEF Published, Claimed
    <2>2. s \in Claimed => k = r
        BY DEF r
    <2> QED BY <1>2, <1>3, <1>4, <2>1, <2>2 DEF RowFound
<1>11. NewStack(stk_base', word', Own, Live, pc'[Main], row'[Main], stk'[Main])
    BY <1>1, <1>2, RowParts DEF NewStack
<1>12. Kept(stk_base', Own, Live, pc'[Main], stk'[Main])
    BY <1>1, <1>2, RowParts DEF Kept
<1> QED
    BY <1>2, <1>5, <1>6, <1>7, <1>8, <1>9, <1>10, <1>11, <1>12, <1>13, LifeParts

LEMMA ClaimRowKeeps ==
    ASSUME LifeInv, Spawners = {Main}, NEW p \in Pid, ClaimRow(p) PROVE LifeInv'
<1>1. p = Main
    BY MainCreates DEF ClaimRow, Running
<1>2. /\ ~rebooted /\ pc[Main] = "claim"
      /\ status' = [status EXCEPT ![row[Main]] = "UNAVAIL"]
      /\ pc' = [pc EXCEPT ![Main] = "alloc"]
      /\ UNCHANGED <<stk_base, run, heap, stk>> /\ row' = row
    BY <1>1 DEF ClaimRow, Running, Goto
<1>3. row' = [row EXCEPT ![Main] = row[Main]]
    BY <1>2, TypeParts
<1>4. pc[Main] \in Claimed /\ pc[Main] \notin Stacked
    BY <1>2 DEF Claimed, Stacked
<1>5. row[Main] \in 0 .. NumProc
    BY TypeParts, PidFacts
<1>6. /\ "UNAVAIL" \in Statuses /\ "alloc" \in Step /\ "alloc" \notin Stacked
      /\ "alloc" \notin Published /\ "alloc" \notin {"canary", "ready"} /\ "alloc" # "scan"
      /\ "alloc" \in HalfMade
    BY DEF Statuses, Step, Stacked, Published, HalfMade
<1> QED
    BY <1>2, <1>3, <1>4, <1>5, <1>6, MarkKeeps

LEMMA UnclaimRowKeeps ==
    ASSUME LifeInv, Spawners = {Main}, NEW p \in Pid, UnclaimRow(p) PROVE LifeInv'
<1>1. p = Main
    BY MainCreates DEF UnclaimRow, Running
<1>2. /\ ~rebooted /\ pc[Main] = "unclaim"
      /\ status' = [status EXCEPT ![row[Main]] = "UNUSED"]
      /\ pc' = [pc EXCEPT ![Main] = "run"] /\ row' = [row EXCEPT ![Main] = 0]
      /\ UNCHANGED <<stk_base, run, heap, stk>>
    BY <1>1 DEF UnclaimRow, Running, Goto
<1>3. pc[Main] \in Claimed /\ pc[Main] \notin Stacked
    BY <1>2 DEF Claimed, Stacked
<1>4. 0 \in 0 .. NumProc
    BY PidFacts
<1>5. /\ "UNUSED" \in Statuses /\ "run" \in Step /\ "run" \notin Stacked /\ "run" \notin Claimed
      /\ "run" \notin Published /\ "run" \notin {"canary", "ready"} /\ "run" # "scan"
    BY DEF Statuses, Step, Stacked, Published, Claimed
<1> QED
    BY <1>2, <1>3, <1>4, <1>5, MarkKeeps

LEMMA PublishKeeps ==
    ASSUME LifeInv, Spawners = {Main}, NEW p \in Pid, Publish(p) PROVE LifeInv'
<1>1. p = Main
    BY MainCreates DEF Publish, Running
<1>2. /\ ~rebooted /\ pc[Main] = "publish"
      /\ status' = [status EXCEPT ![row[Main]] = "AVAIL"]
      /\ pc' = [pc EXCEPT ![Main] = "base"]
      /\ UNCHANGED <<stk_base, run, heap, stk>> /\ row' = row
    BY <1>1 DEF Publish, Running, Goto
<1>3. row' = [row EXCEPT ![Main] = row[Main]]
    BY <1>2, TypeParts
<1>4. pc[Main] \in Claimed /\ pc[Main] \in Stacked
    BY <1>2 DEF Claimed, Stacked
<1>5. row[Main] \in 0 .. NumProc
    BY TypeParts, PidFacts
<1>6. /\ "AVAIL" \in Statuses /\ "base" \in Step /\ "base" \in Stacked
      /\ "base" \notin {"canary", "ready"} /\ "base" # "scan"
    BY DEF Statuses, Step, Stacked
<1> QED
    BY <1>2, <1>3, <1>4, <1>5, <1>6, MarkKeeps

LEMMA AllocStackKeeps ==
    ASSUME LifeInv, Spawners = {Main}, NEW p \in Pid, NEW n \in StackSizes, AllocStack(p, n)
    PROVE  LifeInv'
<1> DEFINE got == last_fit(freelist, BlockSize(n))
           b == got.block
           k == got.block.addr
<1>1. p = Main
    BY MainCreates DEF AllocStack, Running
<1>2. /\ ~rebooted /\ pc[Main] = "alloc" /\ UNCHANGED <<table, run, row>>
      /\ IF got.block = NoBlock
         THEN pc' = [pc EXCEPT ![Main] = "unclaim"] /\ UNCHANGED <<heap, stk>>
         ELSE /\ freelist' = got.free
              /\ used' = used \cup {got.block}
              /\ stk' = [stk EXCEPT ![Main] = got.block.addr]
              /\ pc' = [pc EXCEPT ![Main] = "publish"]
              /\ UNCHANGED <<word, data>>
    BY <1>1 DEF AllocStack, Running, Goto
<1>3. pc[Main] \in Claimed /\ pc[Main] \notin Stacked
    BY <1>2 DEF Claimed, Stacked
<1>4. UNCHANGED <<status, stk_base, ready, curr, rebooted, row>>
    BY <1>2 DEF table, run
<1>5. n \in Nat
    BY LifeAssumption
<1>6. Taken(freelist, used, got)
    <2>1. BlockSize(n) \in Nat /\ BlockSize(n) >= MinAlloc /\ BlockSize(n) % Granule = 0
        BY <1>5, BlockSizeIs
    <2> QED BY <2>1, TypeParts, LastFitTakes
<1> HIDE DEF got
<1>7. CASE got.block = NoBlock
    <2>1. pc' = [pc EXCEPT ![Main] = "unclaim"] /\ UNCHANGED <<stk_base, run, heap, stk>>
        BY <1>2, <1>7 DEF table
    <2>2. row[Main] \in Pid /\ row[Main] \in 0 .. NumProc
        BY <1>2, <1>3, RowInHand
    <2>3. status' = [status EXCEPT ![row[Main]] = status[row[Main]]] /\ status[row[Main]] \in Statuses
        BY <1>4, <2>2, TypeParts
    <2>4. row' = [row EXCEPT ![Main] = row[Main]]
        BY <1>4, TypeParts
    <2>5. /\ "unclaim" \in Step /\ "unclaim" \notin Stacked /\ "unclaim" \notin Published
          /\ "unclaim" \notin {"canary", "ready"} /\ "unclaim" # "scan" /\ "unclaim" \in HalfMade
        BY DEF Step, Stacked, Published, HalfMade
    <2> QED BY <1>2, <1>3, <2>1, <2>2, <2>3, <2>4, <2>5, MarkKeeps
<1>8. CASE got.block # NoBlock
    <2>1. /\ freelist' = got.free /\ used' = used \cup {b} /\ UNCHANGED <<word, data>>
          /\ stk' = [stk EXCEPT ![Main] = k] /\ pc' = [pc EXCEPT ![Main] = "publish"]
        BY <1>2, <1>8
    <2>2. HeapOK(freelist', used') /\ b \in Block /\ b \notin used /\ freelist' \in Seq(Block)
        BY <1>6, <1>8, <2>1 DEF Taken, GoodBlock, HeapOK, ListOK
    <2>3. k \in HeapStart .. HeapEnd
        BY <2>2, BlockFields
    <2> HIDE DEF b
    <2>4. /\ pc' \in [Pid -> Step] /\ pc'[Main] = "publish"
          /\ \A q \in Pid \ {Main} : pc'[q] = "run"
          /\ stk' \in [Pid -> {0} \cup HeapStart .. HeapEnd] /\ stk'[Main] = k
        <3>1. "publish" \in Step
            BY DEF Step
        <3> HIDE DEF k
        <3> QED BY <2>1, <2>3, <3>1, TypeParts, PidFacts
    <2>5. TypeOK'
        BY <1>4, <2>1, <2>2, <2>4, TypeParts DEF TypeOK, Statuses
    <2> DEFINE own == used' \ data'
    <2>6. Live = ready' \cup {curr'} /\ own = Own \cup {b}
        BY <1>4, <2>1, <2>2, TypeParts DEF Live, Own
    <2>7. Turns(status', ready', curr')
        BY <1>2, <1>4, RowParts
    <2>8. RowFound(status', Live, pc'[Main], row'[Main])
        BY <1>2, <1>3, <1>4, <2>4, RowInHand DEF RowFound, Published
    <2>14. Taking(status', pc'[Main], row'[Main])
        <3>1. "publish" \in HalfMade
            BY DEF HalfMade
        <3> QED BY <1>2, <1>4, <2>4, <3>1, RowParts DEF Taking
    <2>9. \A q \in Live \ {NullProc} : HasStack(stk_base', word', own, q)
        BY <1>2, <1>4, <2>1, <2>6, RowParts DEF HasStack
    <2>10. \A q \in Live \ {NullProc} : stk_base[q] # k
        <3> TAKE q \in Live \ {NullProc}
        <3>1. PICK c \in Own : c.addr = stk_base[q]
            BY <1>2, RowParts DEF HasStack
        <3>2. c \in used' /\ b \in used' /\ c # b
            BY <2>1, <2>2, <3>1 DEF Own
        <3>3. c.addr # b.addr
            BY <2>2, <3>2, SameBlock
        <3> QED BY <3>1, <3>3 DEF b
    <2>11. NewStack(stk_base', word', own, Live, pc'[Main], row'[Main], stk'[Main])
        <3>1. b \in own /\ b.addr = k
            BY <2>6 DEF b
        <3> QED BY <1>4, <2>4, <2>10, <3>1 DEF NewStack
    <2>12. Kept(stk_base', own, Live, pc'[Main], stk'[Main])
        <3>1. \A c \in Own : \E q \in Live \ {NullProc} : stk_base[q] = c.addr
            BY <1>2, <1>3, RowParts DEF Kept
        <3>2. "publish" \in Stacked
            BY DEF Stacked
        <3> QED BY <1>4, <2>4, <2>6, <3>1, <3>2 DEF Kept, b
    <2> HIDE DEF own
    <2>13. own = used' \ data'
        BY DEF own
    <2> QED BY <2>2, <2>4, <2>5, <2>6, <2>7, <2>8, <2>9, <2>11, <2>12, <2>13, <2>14, LifeParts
<1> QED
    BY <1>7, <1>8

LEMMA SetBaseKeeps ==
    ASSUME LifeInv, Spawners = {Main}, NEW p \in Pid, SetBase(p) PROVE LifeInv'
<1> DEFINE r == row[Main]
<1>1. p = Main
    BY MainCreates DEF SetBase, Running
<1>2. /\ ~rebooted /\ pc[Main] = "base"
      /\ stk_base' = [stk_base EXCEPT ![r] = stk[Main]]
      /\ pc' = [pc EXCEPT ![Main] = "canary"]
      /\ UNCHANGED <<status, run, heap, row, stk>>
    BY <1>1 DEF SetBase, Running, Goto
<1>3. pc[Main] \in Claimed /\ pc[Main] \in Stacked /\ pc[Main] \in Published
    BY <1>2 DEF Claimed, Stacked, Published
<1>4. UNCHANGED <<status, ready, curr, rebooted, freelist, used, word, data, row, stk>>
    BY <1>2 DEF run, heap
<1>5. r \in 1 .. NumProc - 1 /\ r \in Pid /\ r \notin Live /\ status[r] = "AVAIL"
    BY <1>2, <1>3, RowInHand
<1> HIDE DEF r
<1>6. /\ stk_base' \in [Pid -> {0} \cup HeapStart .. HeapEnd] /\ stk_base'[r] = stk[Main]
      /\ \A q \in Live : stk_base'[q] = stk_base[q]
    BY <1>2, <1>5, TypeParts, RowParts, PidFacts
<1>7. /\ pc' \in [Pid -> Step] /\ pc'[Main] = "canary" /\ \A q \in Pid \ {Main} : pc'[q] = "run"
    <2>1. "canary" \in Step
        BY DEF Step
    <2> QED BY <1>2, <2>1, TypeParts, PidFacts
<1>8. TypeOK'
    BY <1>4, <1>6, <1>7, TypeParts DEF TypeOK, Statuses
<1>9. Live = ready' \cup {curr'} /\ Own = used' \ data' /\ HeapOK(freelist', used')
    BY <1>4, TypeParts DEF Live, Own
<1>10. Turns(status', ready', curr')
    BY <1>2, <1>4, RowParts
<1>11. RowFound(status', Live, pc'[Main], row'[Main])
    BY <1>4, <1>5, <1>7 DEF RowFound, r
<1>15. Taking(status', pc'[Main], row'[Main])
    BY <1>2, <1>4, RowParts DEF Taking, HalfMade
<1>12. \A q \in Live \ {NullProc} : HasStack(stk_base', word', Own, q)
    BY <1>2, <1>4, <1>6, RowParts DEF HasStack
<1>13. NewStack(stk_base', word', Own, Live, pc'[Main], row'[Main], stk'[Main])
    BY <1>2, <1>3, <1>4, <1>6, <1>7, RowParts DEF NewStack, r
<1>14. Kept(stk_base', Own, Live, pc'[Main], stk'[Main])
    <2>1. "canary" \in Stacked
        BY DEF Stacked
    <2> QED BY <1>2, <1>3, <1>4, <1>6, <1>7, <2>1, RowParts DEF Kept
<1> QED
    BY <1>7, <1>8, <1>9, <1>10, <1>11, <1>12, <1>13, <1>14, <1>15, LifeParts

LEMMA SetCanaryKeeps ==
    ASSUME LifeInv, Spawners = {Main}, NEW p \in Pid, SetCanary(p) PROVE LifeInv'
<1> DEFINE r == row[Main]
           k == stk[Main]
<1>1. p = Main
    BY MainCreates DEF SetCanary, Running
<1>2. /\ ~rebooted /\ pc[Main] = "canary"
      /\ word' = [word EXCEPT ![stk_base[r]] = r]
      /\ pc' = [pc EXCEPT ![Main] = "ready"]
      /\ UNCHANGED <<table, run, freelist, used, data, row, stk>>
    BY <1>1 DEF SetCanary, Running, Goto
<1>3. pc[Main] \in Claimed /\ pc[Main] \in Stacked /\ pc[Main] \in Published
    BY <1>2 DEF Claimed, Stacked, Published
<1>4. UNCHANGED <<status, stk_base, ready, curr, rebooted, freelist, used, data, row, stk>>
    BY <1>2 DEF table, run
<1>5. r \in 1 .. NumProc - 1 /\ r \in Pid /\ r \notin Live /\ status[r] = "AVAIL"
    BY <1>2, <1>3, RowInHand
<1>6. /\ stk_base[r] = k /\ \E b \in Own : b.addr = k
      /\ \A q \in Live \ {NullProc} : stk_base[q] # k
    BY <1>2, <1>3, RowParts DEF NewStack
<1>7. k \in HeapStart .. HeapEnd /\ \A q \in Live \ {NullProc} : stk_base[q] \in HeapStart .. HeapEnd
    <2>1. \A b \in Own : b.addr \in HeapStart .. HeapEnd
        BY TypeParts, BlockFields DEF Own
    <2> QED BY <1>2, <1>6, <2>1, RowParts DEF HasStack
<1> HIDE DEF r, k
<1>8. /\ word' \in [HeapStart .. HeapEnd -> Pid \cup {Junk}] /\ word'[k] = r
      /\ \A q \in Live \ {NullProc} : word'[stk_base[q]] = word[stk_base[q]]
    BY <1>2, <1>5, <1>6, <1>7, TypeParts
<1>9. /\ pc' \in [Pid -> Step] /\ pc'[Main] = "ready" /\ \A q \in Pid \ {Main} : pc'[q] = "run"
    <2>1. "ready" \in Step
        BY DEF Step
    <2> QED BY <1>2, <2>1, TypeParts, PidFacts
<1>10. TypeOK'
    BY <1>4, <1>8, <1>9, TypeParts DEF TypeOK, Statuses
<1>11. Live = ready' \cup {curr'} /\ Own = used' \ data' /\ HeapOK(freelist', used')
    BY <1>4, TypeParts DEF Live, Own
<1>12. Turns(status', ready', curr')
    BY <1>2, <1>4, RowParts
<1>13. RowFound(status', Live, pc'[Main], row'[Main])
    BY <1>4, <1>5, <1>9 DEF RowFound, r
<1>17. Taking(status', pc'[Main], row'[Main])
    BY <1>2, <1>4, RowParts DEF Taking, HalfMade
<1>14. \A q \in Live \ {NullProc} : HasStack(stk_base', word', Own, q)
    BY <1>2, <1>4, <1>8, RowParts DEF HasStack
<1>15. NewStack(stk_base', word', Own, Live, pc'[Main], row'[Main], stk'[Main])
    BY <1>4, <1>6, <1>8, <1>9 DEF NewStack, r, k
<1>16. Kept(stk_base', Own, Live, pc'[Main], stk'[Main])
    <2>1. "ready" \in Stacked
        BY DEF Stacked
    <2> QED BY <1>2, <1>3, <1>4, <1>9, <2>1, RowParts DEF Kept
<1> QED
    BY <1>9, <1>10, <1>11, <1>12, <1>13, <1>14, <1>15, <1>16, <1>17, LifeParts

LEMMA MakeAvailKeeps ==
    ASSUME LifeInv, Spawners = {Main}, NEW p \in Pid, MakeAvail(p) PROVE LifeInv'
<1> DEFINE r == row[Main]
           k == stk[Main]
           L == Live \cup {r}
<1>1. p = Main
    BY MainCreates DEF MakeAvail, Running
<1>2. /\ ~rebooted /\ pc[Main] = "ready"
      /\ status' = [status EXCEPT ![r] = "AVAIL"]
      /\ ready' = ready \cup {r}
      /\ pc' = [pc EXCEPT ![Main] = "run"]
      /\ row' = [row EXCEPT ![Main] = 0] /\ stk' = [stk EXCEPT ![Main] = 0]
      /\ UNCHANGED <<stk_base, curr, rebooted, heap>>
    BY <1>1 DEF MakeAvail, Running, Goto
<1>3. pc[Main] \in Claimed /\ pc[Main] \in Stacked
    BY <1>2 DEF Claimed, Stacked
<1>4. UNCHANGED <<stk_base, curr, rebooted, freelist, used, word, data>>
    BY <1>2 DEF heap
<1>5. r \in Pid /\ r \notin Live /\ r # Main
    BY <1>2, <1>3, RowInHand
<1>6. stk_base[r] = k /\ word[k] = r /\ \E b \in Own : b.addr = k
    BY <1>2, <1>3, RowParts DEF NewStack
<1>7. r \in L \ {NullProc}
    BY <1>2, <1>3, RowInHand
<1> HIDE DEF r, k
<1>8. /\ status' \in [Pid -> Statuses] /\ status'[r] = "AVAIL"
      /\ \A q \in Live : status'[q] = status[q]
    BY <1>2, <1>5, TypeParts, RowParts DEF Statuses
<1>9. /\ pc' \in [Pid -> Step] /\ pc'[Main] = "run" /\ \A q \in Pid \ {Main} : pc'[q] = "run"
      /\ row' \in [Pid -> 0 .. NumProc] /\ stk' \in [Pid -> {0} \cup HeapStart .. HeapEnd]
    <2>1. "run" \in Step /\ 0 \in 0 .. NumProc
        BY PidFacts DEF Step
    <2> QED BY <1>2, <2>1, TypeParts, PidFacts
<1>10. TypeOK'
    BY <1>2, <1>4, <1>5, <1>8, <1>9, TypeParts DEF TypeOK, Statuses
<1>11. L = ready' \cup {curr'} /\ Own = used' \ data' /\ HeapOK(freelist', used')
    BY <1>2, <1>4, TypeParts DEF Live, Own
<1>12. Turns(status', ready', curr')
    <2>1. Turns(status, ready, curr) /\ curr \in Live /\ \A q \in ready : q \in Live
        BY <1>2, RowParts DEF Live
    <2> QED BY <1>2, <1>4, <1>5, <1>8, <2>1 DEF Turns
<1>13. RowFound(status', L, pc'[Main], row'[Main])
    BY <1>9 DEF RowFound, Claimed, Published
<1>17. Taking(status', pc'[Main], row'[Main])
    <2>1. \A q \in Pid \ {r} : status'[q] = status[q]
        BY <1>2, <1>5, TypeParts
    <2> QED BY <1>2, <1>8, <2>1, RowParts DEF Taking, HalfMade
<1>14. \A q \in L \ {NullProc} : HasStack(stk_base', word', Own, q)
    BY <1>2, <1>4, <1>6, RowParts DEF HasStack
<1>15. NewStack(stk_base', word', Own, L, pc'[Main], row'[Main], stk'[Main])
    BY <1>9 DEF NewStack, Stacked
<1>16. Kept(stk_base', Own, L, pc'[Main], stk'[Main])
    <2>1. Kept(stk_base, Own, Live, pc[Main], k)
        BY <1>2, RowParts DEF k
    <2> QED BY <1>4, <1>6, <1>7, <2>1 DEF Kept
<1> HIDE DEF L
<1> QED
    BY <1>9, <1>10, <1>11, <1>12, <1>13, <1>14, <1>15, <1>16, <1>17, LifeParts

-----------------------------------------------------------------------------
(* The switch, the exit and the other users of the heap.                   *)

LEMMA PreemptKeeps ==
    ASSUME LifeInv, Spawners = {Main}, Preempt PROVE LifeInv'
<1>1. /\ ~rebooted /\ sched(status, word, ready)
      /\ UNCHANGED <<stk_base, freelist, used, word, data, pc, row, stk>>
    BY DEF Preempt, heap, local
<1>2. rebooted' \in BOOLEAN
    BY <1>1, TypeParts, SchedEnds
<1>3. /\ HeapOK(freelist', used') /\ Own = used' \ data'
      /\ \A q \in Pid \ {Main} : pc'[q] = "run"
    BY <1>1, TypeParts DEF Own
<1>4. CASE rebooted'
    <2>1. status' = status /\ ready' = ready /\ curr' = curr
        BY <1>1, <1>4, TypeParts, SchedStops
    <2>2. TypeOK'
        BY <1>1, <1>2, <2>1, TypeParts DEF TypeOK, Statuses
    <2>3. RowExclusive'
        BY <1>1, <2>1 DEF RowExclusive, LifeInv
    <2> QED BY <1>3, <1>4, <2>2, <2>3 DEF LifeInv
<1>5. CASE ~rebooted'
    <2>1. status[curr] = "CURR" /\ curr \notin ready /\ \A q \in ready : status[q] = "AVAIL"
        BY <1>1, RowParts DEF Turns
    <2>2. Live = IF status[curr] = "CURR" THEN ready \cup {curr} ELSE ready
        BY <2>1 DEF Live
    <2>3. /\ ready' \cup {curr'} = Live /\ ready' \subseteq Pid /\ curr' \in Pid
          /\ status' \in [Pid -> Statuses]
          /\ Turns(status', ready', curr')
          /\ \A q \in Pid \ Live : status'[q] = status[q]
        <3>1. /\ status \in [Pid -> Statuses] /\ ready \in SUBSET Pid /\ curr \in Pid
              /\ Main \in Live
            BY <1>1, TypeParts, RowParts
        <3>2. sched(status, word, ready) /\ ~rebooted'
            BY <1>1, <1>5
        <3> HIDE DEF Live
        <3> QED BY <2>1, <2>2, <3>1, <3>2, SchedTurns
    <2>4. TypeOK'
        BY <1>1, <1>2, <2>3, TypeParts DEF TypeOK, Statuses
    <2>5. RowFound(status', Live, pc'[Main], row'[Main])
        <3>1. pc[Main] \in Published => row[Main] \in Pid \ Live
            BY <1>1, RowInHand DEF Published, Claimed
        <3> QED BY <1>1, <2>3, <3>1, RowParts DEF RowFound
    <2>6. /\ \A q \in Live \ {NullProc} : HasStack(stk_base', word', Own, q)
          /\ NewStack(stk_base', word', Own, Live, pc'[Main], row'[Main], stk'[Main])
          /\ Kept(stk_base', Own, Live, pc'[Main], stk'[Main])
        BY <1>1, RowParts
    <2>7. Taking(status', pc'[Main], row'[Main])
        <3>1. \A q \in Live : status'[q] # "UNAVAIL"
            BY <2>3 DEF Turns
        <3> QED BY <1>1, <2>3, <3>1, RowParts DEF Taking
    <2> QED BY <1>3, <2>3, <2>4, <2>5, <2>6, <2>7, LifeParts
<1> QED
    BY <1>4, <1>5

LEMMA ExitKeeps ==
    ASSUME LifeInv, Spawners = {Main}, NEW p \in Pid, Exit(p) PROVE LifeInv'
<1> DEFINE b == BlockAt(stk_base[p])
           w == Freed(b, word)
           st == [status EXCEPT ![p] = "UNUSED"]
           L == Live \ {p}
           own == Own \ {b}
<1>1. /\ ~rebooted /\ curr = p /\ p \notin Lasting
      /\ freelist' = insert_free(freelist, b) /\ used' = used \ {b} /\ word' = w
      /\ sched(st, w, ready)
      /\ UNCHANGED <<stk_base, data, pc, row, stk>>
    BY DEF Exit, Running, local
<1>2. p # Main /\ p # NullProc /\ p \in Live \ {NullProc}
    BY <1>1, PidFacts DEF Live
<1>3. b \in Own /\ b.addr = stk_base[p] /\ b \in used /\ b \in Block
    <2>1. \E c \in Own : c.addr = stk_base[p]
        BY <1>1, <1>2, RowParts DEF HasStack
    <2>2. \E c \in used : c.addr = stk_base[p]
        BY <2>1 DEF Own
    <2>3. b \in used /\ b.addr = stk_base[p]
        BY <2>2 DEF BlockAt
    <2>4. PICK c \in Own : c.addr = stk_base[p]
        BY <2>1
    <2>5. c \in used /\ HeapOK(freelist, used)
        BY <2>4, TypeParts DEF Own
    <2> HIDE DEF b
    <2>6. b = c
        BY <2>3, <2>4, <2>5, SameBlock
    <2> QED BY <2>3, <2>4, <2>6, TypeParts
<1> HIDE DEF b
<1>4. HeapOK(freelist', used') /\ freelist' \in Seq(Block) /\ b \notin data
    <2>1. HeapOK(insert_free(freelist, b), used \ {b})
        BY <1>3, TypeParts, FreeList
    <2> QED BY <1>1, <1>3, <2>1 DEF HeapOK, ListOK, Own
<1>5. own = used' \ data'
    BY <1>1 DEF Own
<1>6. w \in [HeapStart .. HeapEnd -> Pid \cup {Junk}] /\ \A a \in HeapStart .. HeapEnd : a # b.addr => w[a] = word[a]
    BY <1>3, TypeParts DEF Freed
<1>7. st \in [Pid -> Statuses] /\ st[p] = "UNUSED" /\ \A q \in Pid \ {p} : st[q] = status[q]
    BY TypeParts DEF Statuses
<1>8. rebooted' \in BOOLEAN
    BY <1>1, TypeParts, SchedEnds
<1>9. \A q \in Pid \ {Main} : pc'[q] = "run"
    BY <1>1, TypeParts
<1> HIDE DEF w, st
<1>10. CASE rebooted'
    <2>1. status' = st /\ ready' = ready /\ curr' = curr
        BY <1>1, <1>10, TypeParts, SchedStops
    <2>2. TypeOK'
        BY <1>1, <1>4, <1>6, <1>7, <1>8, <2>1, TypeParts DEF TypeOK, Statuses
    <2>3. RowExclusive'
        <3>1. \A q \in Pid : status'[q] = "UNAVAIL" => status[q] = "UNAVAIL"
            BY <1>7, <2>1
        <3> QED BY <1>1, <2>1, <3>1 DEF RowExclusive, LifeInv
    <2> QED BY <1>4, <1>9, <1>10, <2>2, <2>3 DEF LifeInv
<1>11. CASE ~rebooted'
    <2>1. p \notin ready /\ Main \in ready /\ \A q \in ready : status[q] = "AVAIL"
        BY <1>1, <1>2, RowParts DEF Turns
    <2>2. L = ready /\ \A q \in ready : st[q] = "AVAIL"
        BY <1>1, <1>7, <2>1, TypeParts DEF Live
    <2>3. /\ ready' \cup {curr'} = L /\ ready' \subseteq Pid /\ curr' \in Pid
          /\ status' \in [Pid -> Statuses]
          /\ Turns(status', ready', curr')
          /\ \A q \in Pid \ L : status'[q] = st[q]
        <3>1. ready \in SUBSET Pid /\ curr \in Pid /\ curr \notin ready
            BY <1>1, <2>1, TypeParts
        <3>2. sched(st, w, ready) /\ ~rebooted'
            BY <1>1, <1>11
        <3>3. L = IF st[curr] = "CURR" THEN ready \cup {curr} ELSE ready
            BY <1>1, <1>7, <2>2
        <3>4. Main \in L
            BY <2>1, <2>2
        <3> HIDE DEF L
        <3> QED BY <1>7, <2>2, <3>1, <3>2, <3>3, <3>4, SchedTurns
    <2>4. TypeOK'
        BY <1>1, <1>4, <1>6, <1>8, <2>3, TypeParts DEF TypeOK, Statuses
    <2>5. RowFound(status', L, pc'[Main], row'[Main])
        <3>1. RowFound(status, Live, pc[Main], row[Main]) /\ p \in Live
            BY <1>1, <1>2, RowParts
        <3>2. pc[Main] \in Published => row[Main] \in Pid \ L /\ row[Main] # p
            BY <1>1, <1>2, RowInHand DEF Published, Claimed
        <3>3. pc[Main] \in Published => status'[row[Main]] = status[row[Main]]
            BY <1>7, <2>3, <3>2
        <3> HIDE DEF L
        <3>4. \A r : r \notin Live => r \notin L
            BY DEF L
        <3> QED BY <1>1, <3>1, <3>3, <3>4 DEF RowFound
    <2>10. Taking(status', pc'[Main], row'[Main])
        <3>1. \A q \in L : status'[q] # "UNAVAIL"
            BY <2>3 DEF Turns
        <3>2. \A q \in Pid \ L : status'[q] = "UNAVAIL" => status[q] = "UNAVAIL"
            BY <1>7, <2>3
        <3> HIDE DEF L
        <3> QED BY <1>1, <3>1, <3>2, RowParts DEF Taking
    <2>6. \A q \in L \ {NullProc} : /\ \E c \in own : c.addr = stk_base[q]
                                    /\ w[stk_base[q]] = q /\ stk_base[q] # b.addr
        <3> TAKE q \in L \ {NullProc}
        <3>1. HasStack(stk_base, word, Own, q) /\ HasStack(stk_base, word, Own, p) /\ q # p
            BY <1>1, <1>2, RowParts
        <3>2. PICK c \in Own : c.addr = stk_base[q]
            BY <3>1 DEF HasStack
        <3>3. stk_base[q] # stk_base[p]
            BY <3>1 DEF HasStack
        <3>4. c.addr \in HeapStart .. HeapEnd
            BY TypeParts, BlockFields DEF Own
        <3>5. c # b
            BY <1>3, <3>2, <3>3
        <3> QED BY <1>3, <1>6, <3>1, <3>2, <3>3, <3>4, <3>5 DEF HasStack
    <2>7. \A q \in L \ {NullProc} : HasStack(stk_base', word', own, q)
        BY <1>1, <2>6 DEF HasStack
    <2>8. NewStack(stk_base', word', own, L, pc'[Main], row'[Main], stk'[Main])
        <3>1. NewStack(stk_base, word, Own, Live, pc[Main], row[Main], stk[Main])
            BY <1>1, RowParts
        <3>2. ASSUME pc[Main] \in Stacked
              PROVE  /\ \E c \in own : c.addr = stk[Main]
                     /\ w[stk[Main]] = word[stk[Main]]
            <4>1. PICK c \in Own : c.addr = stk[Main]
                BY <3>1, <3>2 DEF NewStack
            <4>2. stk_base[p] # stk[Main]
                BY <1>2, <3>1, <3>2 DEF NewStack
            <4>3. c.addr \in HeapStart .. HeapEnd
                BY TypeParts, BlockFields DEF Own
            <4> QED BY <1>3, <1>6, <4>1, <4>2, <4>3
        <3>3. pc[Main] = "ready" => pc[Main] \in Stacked
            BY DEF Stacked
        <3> QED BY <1>1, <3>1, <3>2, <3>3 DEF NewStack
    <2>9. Kept(stk_base', own, L, pc'[Main], stk'[Main])
        <3>1. Kept(stk_base, Own, Live, pc[Main], stk[Main])
            BY <1>1, RowParts
        <3>2. \A c \in own : c.addr # stk_base[p]
            <4> TAKE c \in own
            <4>1. c \in used /\ c # b
                BY DEF Own
            <4>2. HeapOK(freelist, used)
                BY TypeParts
            <4> QED BY <1>3, <4>1, <4>2, SameBlock
        <3> QED BY <1>1, <3>1, <3>2 DEF Kept
    <2> HIDE DEF L, own
    <2> QED BY <1>4, <1>5, <1>9, <2>3, <2>4, <2>5, <2>7, <2>8, <2>9, <2>10, LifeParts
<1> QED
    BY <1>10, <1>11

\* A block of other code's, and its first word, may change: no stack does.
LEMMA OtherBlockKeeps ==
    ASSUME LifeInv, Spawners = {Main}, ~rebooted, UNCHANGED <<table, run, local>>,
           NEW b \in Block, word' = Freed(b, word),
           HeapOK(freelist', used'), used' \in SUBSET Block, data' \subseteq used',
           used' \ data' = Own, \A c \in Own : c.addr # b.addr
    PROVE  LifeInv'
<1>1. UNCHANGED <<status, stk_base, ready, curr, rebooted, pc, row, stk>>
    BY DEF table, run, local
<1>2. /\ word' \in [HeapStart .. HeapEnd -> Pid \cup {Junk}]
      /\ \A a \in HeapStart .. HeapEnd : a # b.addr => word'[a] = word[a]
    BY TypeParts, BlockFields DEF Freed
<1>3. TypeOK'
    BY <1>1, <1>2, TypeParts DEF TypeOK, Statuses, HeapOK, ListOK
<1>4. Live = ready' \cup {curr'}
    BY <1>1 DEF Live
<1>5. \A q \in Pid \ {Main} : pc'[q] = "run"
    BY <1>1, TypeParts
<1>6. \A c \in Own : c.addr \in HeapStart .. HeapEnd /\ word'[c.addr] = word[c.addr]
    BY <1>2, TypeParts, BlockFields DEF Own
<1>7. \A q \in Live \ {NullProc} : HasStack(stk_base', word', Own, q)
    <2> TAKE q \in Live \ {NullProc}
    <2>1. HasStack(stk_base, word, Own, q)
        BY RowParts
    <2> QED BY <1>1, <1>6, <2>1 DEF HasStack
<1>8. NewStack(stk_base', word', Own, Live, pc'[Main], row'[Main], stk'[Main])
    <2>1. NewStack(stk_base, word, Own, Live, pc[Main], row[Main], stk[Main])
        BY RowParts
    <2>2. "ready" \in Stacked
        BY DEF Stacked
    <2> QED BY <1>1, <1>6, <2>1, <2>2 DEF NewStack
<1>9. /\ Turns(status', ready', curr')
      /\ RowFound(status', Live, pc'[Main], row'[Main])
      /\ Taking(status', pc'[Main], row'[Main])
      /\ Kept(stk_base', Own, Live, pc'[Main], stk'[Main])
    BY <1>1, RowParts
<1> QED
    BY <1>3, <1>4, <1>5, <1>7, <1>8, <1>9, LifeParts

LEMMA AllocDataKeeps ==
    ASSUME LifeInv, Spawners = {Main}, NEW n \in DataSizes, AllocData(n) PROVE LifeInv'
<1> DEFINE got == first_fit(freelist, BlockSize(n))
           b == got.block
<1>1. /\ ~rebooted /\ b # NoBlock /\ freelist' = got.free
      /\ used' = used \cup {b} /\ data' = data \cup {b} /\ word' = Freed(b, word)
      /\ UNCHANGED <<table, run, local>>
    BY DEF AllocData
<1>2. n \in Nat
    BY LifeAssumption
<1>3. Taken(freelist, used, got)
    <2>1. BlockSize(n) \in Nat /\ BlockSize(n) >= MinAlloc /\ BlockSize(n) % Granule = 0
        BY <1>2, BlockSizeIs
    <2> QED BY <2>1, TypeParts, FirstFitTakes
<1> HIDE DEF got
<1>4. HeapOK(freelist', used') /\ b \in Block /\ b \notin used
    BY <1>1, <1>3 DEF Taken, GoodBlock
<1> HIDE DEF b
<1>5. used' \in SUBSET Block /\ data' \subseteq used' /\ used' \ data' = Own
    BY <1>1, <1>4, TypeParts DEF Own
<1>6. \A c \in Own : c.addr # b.addr
    <2> TAKE c \in Own
    <2>1. c \in used' /\ b \in used' /\ c # b
        BY <1>1, <1>4 DEF Own
    <2> QED BY <1>4, <2>1, SameBlock
<1> QED
    BY <1>1, <1>4, <1>5, <1>6, OtherBlockKeeps

LEMMA FreeDataKeeps ==
    ASSUME LifeInv, Spawners = {Main}, NEW b \in data, FreeData(b) PROVE LifeInv'
<1>1. /\ ~rebooted /\ freelist' = insert_free(freelist, b)
      /\ used' = used \ {b} /\ data' = data \ {b} /\ word' = Freed(b, word)
      /\ UNCHANGED <<table, run, local>>
    BY DEF FreeData
<1>2. b \in used /\ b \in Block /\ HeapOK(freelist, used)
    BY TypeParts
<1>3. HeapOK(freelist', used')
    BY <1>1, <1>2, FreeList
<1>4. used' \in SUBSET Block /\ data' \subseteq used' /\ used' \ data' = Own
    BY <1>1, TypeParts DEF Own
<1>5. \A c \in Own : c.addr # b.addr
    <2> TAKE c \in Own
    <2>1. c \in used /\ c # b
        BY DEF Own
    <2> QED BY <1>2, <2>1, SameBlock
<1> QED
    BY <1>1, <1>2, <1>3, <1>4, <1>5, OtherBlockKeeps

-----------------------------------------------------------------------------
(* The theorems.                                                           *)

LEMMA LifeStep == Spawners = {Main} /\ LifeInv /\ [Next]_vars => LifeInv'
<1> SUFFICES ASSUME Spawners = {Main}, LifeInv, [Next]_vars PROVE LifeInv'
    OBVIOUS
<1>1. CASE Preempt
    BY <1>1, PreemptKeeps
<1>2. CASE \E p \in Pid : Create(p)
    <2>1. PICK p \in Pid : Create(p)
        BY <1>2
    <2>2. CASE Spawn(p)
        BY <2>2, SpawnKeeps
    <2>3. CASE ScanRow(p)
        BY <2>3, ScanRowKeeps
    <2>4. CASE ClaimRow(p)
        BY <2>4, ClaimRowKeeps
    <2>5. CASE \E n \in StackSizes : AllocStack(p, n)
        BY <2>5, AllocStackKeeps
    <2>6. CASE UnclaimRow(p)
        BY <2>6, UnclaimRowKeeps
    <2>7. CASE Publish(p)
        BY <2>7, PublishKeeps
    <2>8. CASE SetBase(p)
        BY <2>8, SetBaseKeeps
    <2>9. CASE SetCanary(p)
        BY <2>9, SetCanaryKeeps
    <2>10. CASE MakeAvail(p)
        BY <2>10, MakeAvailKeeps
    <2> QED
        BY <2>1, <2>2, <2>3, <2>4, <2>5, <2>6, <2>7, <2>8, <2>9, <2>10 DEF Create
<1>3. CASE \E p \in Pid : Exit(p)
    BY <1>3, ExitKeeps
<1>4. CASE \E n \in DataSizes : AllocData(n)
    BY <1>4, AllocDataKeeps
<1>5. CASE \E b \in data : FreeData(b)
    BY <1>5, FreeDataKeeps
<1>6. CASE UNCHANGED vars
    BY <1>6 DEF vars, LifeInv, TypeOK, RowExclusive, Rows, Turns, RowFound, Taking, HasStack,
                NewStack, Kept, Live, Own
<1> QED
    BY <1>1, <1>2, <1>3, <1>4, <1>5, <1>6 DEF Next

LEMMA LifeHolds == Spawners = {Main} /\ Spec => []LifeInv
<1> SUFFICES ASSUME Spawners = {Main} PROVE Spec => []LifeInv
    OBVIOUS
<1>1. Init => LifeInv
    BY InitLife
<1>2. LifeInv /\ [Next]_vars => LifeInv'
    BY LifeStep
<1> QED
    BY <1>1, <1>2, PTL DEF Spec

\* The process table, the ready list, the heap and create()'s locals have
\* their types, however often processes come and go.
THEOREM LifeTypes == Spawners = {Main} /\ Spec => []TypeOK
<1>1. LifeInv => TypeOK
    BY DEF LifeInv
<1> QED
    BY <1>1, LifeHolds, PTL

\* alloc.c for every heap: the free list stays in address order with no two
\* neighbours touching, and the free and the used blocks tile the heap through
\* any order of spawns, exits, allocations and releases.
THEOREM HeapStaysTiled == Spawners = {Main} /\ Spec => []HeapTiled
<1>1. LifeInv => HeapTiled
    <2> SUFFICES ASSUME LifeInv PROVE HeapTiled
        OBVIOUS
    <2>1. /\ ListOK(freelist) /\ Tiles(Range(freelist) \cup used)
          /\ Range(freelist) \cap used = {}
        BY TypeParts DEF HeapOK
    <2>2. \A i \in DOMAIN freelist : i + 1 \in DOMAIN freelist =>
              EndOf(freelist[i]) < freelist[i + 1].addr
        <3>1. \A i \in DOMAIN freelist : i < i + 1
            BY <2>1, ListFacts
        <3> QED BY <2>1, <3>1 DEF ListOK
    <2>3. \A i \in DOMAIN freelist : freelist[i] \notin used
        BY <2>1, ListFacts
    <2> QED BY <2>1, <2>2, <2>3 DEF HeapTiled, Tiles, GoodBlock, Apart
<1> QED
    BY <1>1, LifeHolds, PTL

\* create() with interrupts open: the row it has claimed is no process's that
\* may run, until spawn() makes it available, and a row is UNAVAIL only while
\* a create() under way holds it: none is lost when alloc_stack fails.
THEOREM RowStaysExclusive == Spawners = {Main} /\ Spec => []RowExclusive
<1>1. LifeInv => RowExclusive
    BY DEF LifeInv
<1> QED
    BY <1>1, LifeHolds, PTL

\* sched.c never switches to a process without a stack: every process that may
\* run has a block of its own with its canary in it.
THEOREM EveryStackItsOwn == Spawners = {Main} /\ Spec => []RunsOnOwnStack
<1>1. LifeInv => RunsOnOwnStack
    <2> SUFFICES ASSUME LifeInv, NEW p \in Live \ {NullProc}, ~rebooted
                 PROVE  /\ \E b \in used \ data : b.addr = stk_base[p]
                        /\ word[stk_base[p]] = p
                        /\ \A q \in Live \ {NullProc, p} : stk_base[q] # stk_base[p]
        BY DEF RunsOnOwnStack, Live
    <2>1. \A q \in Live \ {NullProc} : HasStack(stk_base, word, Own, q)
        BY RowParts
    <2>2. \A q \in Live \ {NullProc, p} : stk_base[q] # stk_base[p]
        BY <2>1 DEF HasStack
    <2> QED BY <2>1, <2>2 DEF HasStack, Own
<1> QED
    BY <1>1, LifeHolds, PTL

\* start_proc gives back what create() took: a block that is not some code's
\* data is a live process's stack or the one create() still holds.
THEOREM NoStackLost == Spawners = {Main} /\ Spec => []StacksAccounted
<1> SUFFICES ASSUME Spawners = {Main} PROVE Spec => []StacksAccounted
    OBVIOUS
<1>1. LifeInv => StacksAccounted
    <2> SUFFICES ASSUME LifeInv, ~rebooted, NEW b \in used \ data
                 PROVE  \/ \E p \in Pid : status[p] # "UNUSED" /\ stk_base[p] = b.addr
                        \/ \E p \in Spawners : pc[p] \in {"publish", "base"} /\ stk[p] = b.addr
        BY DEF StacksAccounted
    <2>1. b \in Own
        BY DEF Own
    <2>2. \/ \E p \in Live \ {NullProc} : stk_base[p] = b.addr
          \/ pc[Main] \in Stacked /\ stk[Main] = b.addr
        BY <2>1, RowParts DEF Kept
    <2>3. CASE \E p \in Live \ {NullProc} : stk_base[p] = b.addr
        BY <2>3, RowParts
    <2>4. CASE pc[Main] \in {"publish", "base"} /\ stk[Main] = b.addr
        BY <2>4
    <2>5. CASE pc[Main] \in {"canary", "ready"} /\ stk[Main] = b.addr
        <3>1. pc[Main] \in Claimed /\ pc[Main] \in Published
            BY <2>5 DEF Claimed, Published
        <3>2. row[Main] \in Pid /\ status[row[Main]] = "AVAIL"
            BY <3>1, RowInHand
        <3>3. stk_base[row[Main]] = stk[Main]
            BY <2>5, RowParts DEF NewStack
        <3> QED BY <2>5, <3>2, <3>3
    <2> QED BY <2>2, <2>3, <2>4, <2>5 DEF Stacked
<1> QED
    BY <1>1, LifeHolds, PTL
=============================================================================
