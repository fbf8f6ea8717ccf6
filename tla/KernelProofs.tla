---------------------------- MODULE KernelProofs ----------------------------
(* What the kernel's queue operations return, for queues of any length, and *)
(* theorems about the kernel for any processes, priorities, semaphores,     *)
(* conditions and tick width.                                               *)
EXTENDS Kernel, SequenceTheorems, FiniteSetTheorems, WellFoundedInduction, TLAPS

-----------------------------------------------------------------------------
(* The queue operations: proc_enqueue, proc_remove and proc_dequeue.        *)

(* Inserting at a place adds one entry there and moves the rest up.         *)
LEMMA InsertAtProperties ==
    ASSUME NEW S, NEW s \in Seq(S), NEW i \in 1 .. Len(s) + 1, NEW e \in S
    PROVE  /\ InsertAt(s, i, e) \in Seq(S)
           /\ Len(InsertAt(s, i, e)) = Len(s) + 1
           /\ \A j \in 1 .. Len(s) + 1 :
                 InsertAt(s, i, e)[j] = IF j < i THEN s[j]
                                        ELSE IF j = i THEN e ELSE s[j - 1]
<1> DEFINE low == SubSeq(s, 1, i - 1)
           high == SubSeq(s, i, Len(s))
           both == low \o <<e>>
<1>1. Len(s) \in Nat /\ \A j \in 1 .. Len(s) : s[j] \in S
  BY LenProperties, ElementOfSeq
<1>2. /\ low \in Seq(S) /\ Len(low) = i - 1
      /\ \A j \in 1 .. i - 1 : low[j] = s[j]
  <2>1. \A j \in 1 .. i - 1 : s[j] \in S
    BY <1>1
  <2>2. i - 1 \in Int /\ i - 1 - 1 + 1 = i - 1 /\ (1 <= i - 1 \/ i - 1 = 0)
    BY <1>1
  <2> HIDE DEF low
  <2> QED
    BY <2>1, <2>2, <1>1, SubSeqProperties DEF low
<1>3. /\ high \in Seq(S) /\ Len(high) = Len(s) - i + 1
      /\ \A j \in 1 .. Len(s) - i + 1 : high[j] = s[i + j - 1]
  <2>1. \A j \in i .. Len(s) : s[j] \in S
    BY <1>1
  <2>2. i \in Int /\ Len(s) \in Int /\ (i <= Len(s) \/ Len(s) - i + 1 = 0)
    BY <1>1
  <2> QED
    BY <2>1, <2>2, SubSeqProperties
<1>4. <<e>> \in Seq(S) /\ Len(<<e>>) = 1 /\ <<e>>[1] = e
  OBVIOUS
<1> HIDE DEF low, high
<1>5. /\ both \in Seq(S) /\ Len(both) = i
      /\ \A j \in 1 .. i : both[j] = IF j <= i - 1 THEN low[j] ELSE <<e>>[j - (i - 1)]
  BY <1>1, <1>2, <1>4, ConcatProperties
<1> HIDE DEF both
<1>6. /\ both \o high \in Seq(S)
      /\ Len(both \o high) = Len(s) + 1
      /\ \A j \in 1 .. Len(s) + 1 :
            (both \o high)[j] = IF j <= i THEN both[j] ELSE high[j - i]
  BY <1>1, <1>3, <1>5, ConcatProperties
<1>7. InsertAt(s, i, e) = both \o high
  BY DEF InsertAt, both, low, high
<1>8. ASSUME NEW j \in 1 .. Len(s) + 1
      PROVE  (both \o high)[j] = IF j < i THEN s[j]
                                 ELSE IF j = i THEN e ELSE s[j - 1]
  <2>1. CASE j < i
    BY <2>1, <1>1, <1>2, <1>5, <1>6
  <2>2. CASE j = i
    BY <2>2, <1>1, <1>4, <1>5, <1>6
  <2>3. CASE j > i
    <3>1. (both \o high)[j] = high[j - i] /\ j - i \in 1 .. Len(s) - i + 1
      BY <2>3, <1>1, <1>6
    <3>2. high[j - i] = s[i + (j - i) - 1]
      BY <3>1, <1>3
    <3> QED
      BY <3>1, <3>2, <2>3, <1>1
  <2>4. j < i \/ j = i \/ j > i
    BY <1>1
  <2> HIDE DEF both
  <2> QED
    BY <2>1, <2>2, <2>3, <2>4, Zenon
<1> QED
  BY <1>6, <1>7, <1>8

(* Removing a place takes that entry out and moves the rest down.           *)
LEMMA RemoveAtProperties ==
    ASSUME NEW S, NEW s \in Seq(S), NEW i \in 1 .. Len(s)
    PROVE  /\ RemoveAt(s, i) \in Seq(S)
           /\ Len(RemoveAt(s, i)) = Len(s) - 1
           /\ \A j \in 1 .. Len(s) - 1 :
                 RemoveAt(s, i)[j] = IF j < i THEN s[j] ELSE s[j + 1]
<1> DEFINE low == SubSeq(s, 1, i - 1)
           high == SubSeq(s, i + 1, Len(s))
<1>1. Len(s) \in Nat /\ \A j \in 1 .. Len(s) : s[j] \in S
  BY LenProperties, ElementOfSeq
<1>2. /\ low \in Seq(S) /\ Len(low) = i - 1
      /\ \A j \in 1 .. i - 1 : low[j] = s[j]
  <2>1. \A j \in 1 .. i - 1 : s[j] \in S
    BY <1>1
  <2>2. i - 1 \in Int /\ i - 1 - 1 + 1 = i - 1 /\ (1 <= i - 1 \/ i - 1 = 0)
    BY <1>1
  <2> HIDE DEF low
  <2> QED
    BY <2>1, <2>2, <1>1, SubSeqProperties DEF low
<1>3. /\ high \in Seq(S) /\ Len(high) = Len(s) - i
      /\ \A j \in 1 .. Len(s) - i : high[j] = s[i + 1 + j - 1]
  <2>1. \A j \in i + 1 .. Len(s) : s[j] \in S
    BY <1>1
  <2>2. /\ i + 1 \in Int /\ Len(s) \in Int
        /\ i + 1 <= Len(s) \/ Len(s) - i = 0
        /\ Len(s) - (i + 1) + 1 = Len(s) - i
    BY <1>1
  <2>3. ASSUME NEW k \in Int, k = i + 1
        PROVE  /\ SubSeq(s, k, Len(s)) \in Seq(S)
               /\ Len(SubSeq(s, k, Len(s))) = IF k <= Len(s) THEN Len(s) - k + 1 ELSE 0
               /\ \A j \in 1 .. Len(s) - k + 1 : SubSeq(s, k, Len(s))[j] = s[k + j - 1]
    <3>1. Len(s) \in Int /\ \A j \in k .. Len(s) : s[j] \in S
      BY <2>1, <2>2, <2>3
    <3> QED
      BY <3>1, SubSeqProperties
  <2>4. /\ high \in Seq(S)
        /\ Len(high) = IF i + 1 <= Len(s) THEN Len(s) - (i + 1) + 1 ELSE 0
        /\ \A j \in 1 .. Len(s) - (i + 1) + 1 : high[j] = s[i + 1 + j - 1]
    BY <2>2, <2>3, Zenon
  <2> HIDE DEF high
  <2> QED
    BY <2>2, <2>4, <1>1
<1> HIDE DEF low, high
<1>4. /\ low \o high \in Seq(S)
      /\ Len(low \o high) = Len(s) - 1
      /\ \A j \in 1 .. Len(s) - 1 :
            (low \o high)[j] = IF j <= i - 1 THEN low[j] ELSE high[j - (i - 1)]
  <2>1. /\ low \o high \in Seq(S)
        /\ Len(low \o high) = Len(low) + Len(high)
        /\ \A j \in 1 .. Len(low) + Len(high) :
              (low \o high)[j] = IF j <= Len(low) THEN low[j] ELSE high[j - Len(low)]
    BY <1>2, <1>3, ConcatProperties, Zenon
  <2>2. Len(low) + Len(high) = Len(s) - 1
    BY <1>1, <1>2, <1>3
  <2> QED
    BY <2>1, <2>2, <1>2, Zenon
<1>5. RemoveAt(s, i) = low \o high
  BY DEF RemoveAt, low, high
<1>6. ASSUME NEW j \in 1 .. Len(s) - 1
      PROVE  (low \o high)[j] = IF j < i THEN s[j] ELSE s[j + 1]
  <2>1. CASE j < i
    BY <2>1, <1>1, <1>2, <1>4
  <2>2. CASE j >= i
    <3>1. (low \o high)[j] = high[j - (i - 1)] /\ j - (i - 1) \in 1 .. Len(s) - i
      BY <2>2, <1>1, <1>4
    <3>2. high[j - (i - 1)] = s[i + 1 + (j - (i - 1)) - 1]
      BY <3>1, <1>3
    <3> QED
      BY <3>1, <3>2, <2>2, <1>1
  <2>3. j < i \/ j >= i
    BY <1>1
  <2> QED
    BY <2>1, <2>2, <2>3, <1>1
<1> QED
  BY <1>4, <1>5, <1>6

(* The loop of proc_enqueue stops somewhere: behind the leading entries in  *)
(* `ahead' and in front of the first that is not.                           *)
LEMMA PlaceBehindProperties ==
    ASSUME NEW S, NEW q \in Seq(S), NEW ahead
    PROVE  /\ PlaceBehind(q, ahead) \in 1 .. Len(q) + 1
           /\ \A i \in 1 .. PlaceBehind(q, ahead) - 1 : q[i] \in ahead
           /\ PlaceBehind(q, ahead) <= Len(q) => q[PlaceBehind(q, ahead)] \notin ahead
<1> DEFINE P(k) == /\ \A i \in 1 .. k - 1 : q[i] \in ahead
                   /\ k <= Len(q) => q[k] \notin ahead
           T == {k \in 1 .. Len(q) + 1 : k <= Len(q) => q[k] \notin ahead}
<1>1. Len(q) \in Nat
  BY LenProperties
<1>2. T \subseteq Nat /\ Len(q) + 1 \in T
  BY <1>1
<1>3. PICK k \in T : \A y \in T : <<y, k>> \notin OpToRel(<, Nat)
  <2>1. T # {}
    BY <1>2
  <2> HIDE DEF T
  <2> QED
    BY <1>2, <2>1, NatLessThanWellFounded, WFMin
<1>4. \A y \in T : ~(y < k)
  BY <1>2, <1>3 DEF OpToRel
<1>5. ASSUME NEW i \in 1 .. k - 1 PROVE q[i] \in ahead
  <2>1. i < k /\ i \in 1 .. Len(q) + 1 /\ i <= Len(q)
    BY <1>1, <1>2
  <2> QED
    BY <2>1, <1>4
<1>6. k \in 1 .. Len(q) + 1 /\ P(k)
  BY <1>5
<1>7. PlaceBehind(q, ahead) = CHOOSE j \in 1 .. Len(q) + 1 : P(j)
  BY DEF PlaceBehind
<1> HIDE DEF P
<1>8. /\ (CHOOSE j \in 1 .. Len(q) + 1 : P(j)) \in 1 .. Len(q) + 1
      /\ P(CHOOSE j \in 1 .. Len(q) + 1 : P(j))
  BY <1>6
<1> QED
  BY <1>7, <1>8 DEF P

(* Putting a process into a queue adds that process and nothing else.       *)
LEMMA InsertBehindProperties ==
    ASSUME NEW q \in Seq(Proc), NEW p \in Proc, NEW ahead
    PROVE  /\ InsertBehind(q, p, ahead) \in Seq(Proc)
           /\ Len(InsertBehind(q, p, ahead)) = Len(q) + 1
           /\ Range(InsertBehind(q, p, ahead)) = Range(q) \cup {p}
<1> DEFINE k == PlaceBehind(q, ahead)
           r == InsertAt(q, k, p)
<1>1. Len(q) \in Nat /\ Range(q) = {q[i] : i \in 1 .. Len(q)}
  BY LenProperties, RangeEquality
<1>2. k \in 1 .. Len(q) + 1
  BY PlaceBehindProperties
<1> HIDE DEF k
<1>3. /\ r \in Seq(Proc) /\ Len(r) = Len(q) + 1
      /\ \A j \in 1 .. Len(q) + 1 :
            r[j] = IF j < k THEN q[j] ELSE IF j = k THEN p ELSE q[j - 1]
  BY <1>2, InsertAtProperties
<1> HIDE DEF r
<1>4. Range(r) = {r[i] : i \in 1 .. Len(q) + 1}
  BY <1>3, RangeEquality
<1>5. Range(r) \subseteq Range(q) \cup {p}
  <2>1. ASSUME NEW j \in 1 .. Len(q) + 1 PROVE r[j] \in Range(q) \cup {p}
    <3>1. CASE j < k
      BY <3>1, <1>1, <1>2, <1>3
    <3>2. CASE j = k
      BY <3>2, <1>3
    <3>3. CASE j > k
      <4>1. j - 1 \in 1 .. Len(q) /\ r[j] = q[j - 1]
        BY <3>3, <1>1, <1>2, <1>3
      <4> QED
        BY <4>1, <1>1
    <3> QED
      BY <3>1, <3>2, <3>3, <1>1, <1>2
  <2> QED
    BY <2>1, <1>4
<1>6. Range(q) \cup {p} \subseteq Range(r)
  <2>1. p \in Range(r)
    BY <1>2, <1>3, <1>4
  <2>2. ASSUME NEW j \in 1 .. Len(q) PROVE q[j] \in Range(r)
    <3>1. CASE j < k
      <4>1. j \in 1 .. Len(q) + 1 /\ r[j] = q[j]
        BY <3>1, <1>1, <1>3
      <4> QED
        BY <4>1, <1>4
    <3>2. CASE j >= k
      <4>1. j + 1 \in 1 .. Len(q) + 1 /\ r[j + 1] = q[j]
        BY <3>2, <1>1, <1>2, <1>3
      <4> QED
        BY <4>1, <1>4
    <3> QED
      BY <3>1, <3>2, <1>1, <1>2
  <2> QED
    BY <2>1, <2>2, <1>1
<1> QED
  BY <1>3, <1>5, <1>6 DEF InsertBehind, k, r

LEMMA EnqueueProperties ==
    ASSUME NEW q \in Seq(Proc), NEW p \in Proc
    PROVE  /\ proc_enqueue(q, p) \in Seq(Proc)
           /\ Range(proc_enqueue(q, p)) = Range(q) \cup {p}
BY InsertBehindProperties DEF proc_enqueue

(* proc_remove adds nobody, and leaves an empty queue empty.                *)
LEMMA RemoveProperties ==
    ASSUME NEW q \in Seq(Proc), NEW p
    PROVE  /\ proc_remove(q, p) \in Seq(Proc)
           /\ Range(proc_remove(q, p)) \subseteq Range(q)
           /\ q = <<>> => proc_remove(q, p) = <<>>
<1>1. /\ Len(q) \in Nat /\ DOMAIN q = 1 .. Len(q)
      /\ Range(q) = {q[i] : i \in 1 .. Len(q)}
  BY LenProperties, RangeEquality
<1>2. CASE p \notin Range(q)
  BY <1>2 DEF proc_remove
<1>3. CASE p \in Range(q)
  <2> DEFINE k == CHOOSE i \in DOMAIN q : q[i] = p
             r == RemoveAt(q, k)
  <2>1. k \in 1 .. Len(q)
    BY <1>1, <1>3
  <2> HIDE DEF k
  <2>2. /\ r \in Seq(Proc) /\ Len(r) = Len(q) - 1
        /\ \A j \in 1 .. Len(q) - 1 : r[j] = IF j < k THEN q[j] ELSE q[j + 1]
    BY <2>1, RemoveAtProperties
  <2> HIDE DEF r
  <2>3. Range(r) = {r[i] : i \in 1 .. Len(q) - 1}
    BY <2>2, RangeEquality
  <2>4. ASSUME NEW j \in 1 .. Len(q) - 1 PROVE r[j] \in Range(q)
    <3>1. /\ j \in 1 .. Len(q) /\ j + 1 \in 1 .. Len(q)
          /\ r[j] = IF j < k THEN q[j] ELSE q[j + 1]
      BY <1>1, <2>2
    <3> QED
      BY <3>1, <1>1
  <2>5. q # <<>>
    BY <2>1, <1>1
  <2>6. proc_remove(q, p) = r
    BY <1>3 DEF proc_remove, r, k
  <2> QED
    BY <2>2, <2>3, <2>4, <2>5, <2>6
<1> QED
  BY <1>2, <1>3

(* proc_dequeue returns a process, NULL_PROC for an empty queue.            *)
LEMMA DequeueProperties ==
    ASSUME NEW q \in Seq(Proc)
    PROVE  /\ Dequeued(q) \in Proc
           /\ Rest(q) \in Seq(Proc)
           /\ q = <<>> => Rest(q) = <<>>
BY HeadTailProperties, ProcAssumption DEF Dequeued, Rest
-----------------------------------------------------------------------------
(* What the operations do to the order of a queue, and that nobody enters   *)
(* one twice.                                                               *)

\* q is in the order of its members' keys.
SortedBy(q, key) == \A i, j \in DOMAIN q : i < j => key[q[i]] <= key[q[j]]

(* A process put behind everybody whose key is no larger than its own keeps *)
(* the queue in order: those behind it have larger keys, as the one it      *)
(* stopped at has.                                                          *)
LEMMA InsertBehindOrder ==
    ASSUME NEW q \in Seq(Proc), NEW p \in Proc, NEW key \in [Proc -> Int],
           SortedBy(q, key)
    PROVE  SortedBy(InsertBehind(q, p, {x \in Proc : key[x] <= key[p]}), key)
<1> DEFINE ahead == {x \in Proc : key[x] <= key[p]}
           k == PlaceBehind(q, ahead)
           r == InsertAt(q, k, p)
<1>1. /\ Len(q) \in Nat /\ DOMAIN q = 1 .. Len(q)
      /\ \A i \in 1 .. Len(q) : q[i] \in Proc /\ key[q[i]] \in Int
  BY LenProperties, ElementOfSeq
<1>2. key[p] \in Int
  OBVIOUS
<1>3. /\ k \in 1 .. Len(q) + 1
      /\ \A i \in 1 .. k - 1 : q[i] \in ahead
      /\ k <= Len(q) => q[k] \notin ahead
  BY PlaceBehindProperties
<1> HIDE DEF k
<1>4. \A i \in 1 .. Len(q) : i < k => key[q[i]] <= key[p]
  BY <1>1, <1>3
<1>5. \A i \in 1 .. Len(q) : i >= k => key[q[i]] > key[p]
  <2> SUFFICES ASSUME NEW i \in 1 .. Len(q), i >= k PROVE key[q[i]] > key[p]
    OBVIOUS
  <2>1. k \in 1 .. Len(q)
    BY <1>1, <1>3
  <2>2. key[q[k]] > key[p]
    BY <1>1, <1>2, <1>3, <2>1
  <2>3. k = i \/ key[q[k]] <= key[q[i]]
    BY <1>1, <2>1 DEF SortedBy
  <2> QED
    BY <1>1, <1>2, <2>1, <2>2, <2>3
<1>6. /\ r \in Seq(Proc) /\ Len(r) = Len(q) + 1
      /\ \A j \in 1 .. Len(q) + 1 :
            r[j] = IF j < k THEN q[j] ELSE IF j = k THEN p ELSE q[j - 1]
  BY <1>3, InsertAtProperties
<1>7. DOMAIN r = 1 .. Len(q) + 1
  BY <1>6, LenProperties
<1> HIDE DEF r, ahead
<1>8. ASSUME NEW i \in 1 .. Len(q) + 1, NEW j \in 1 .. Len(q) + 1, i < j
      PROVE  key[r[i]] <= key[r[j]]
  <2>0. Len(q) \in Nat
    BY <1>1
  <2>1. CASE j < k
    <3>1. i \in 1 .. Len(q) /\ j \in 1 .. Len(q) /\ i < k
      BY <1>3, <1>8, <2>0, <2>1
    <3>2. r[i] = q[i] /\ r[j] = q[j]
      BY <1>6, <2>1, <3>1
    <3> QED
      BY <1>1, <1>8, <3>1, <3>2 DEF SortedBy
  <2>2. CASE j = k
    <3>1. i \in 1 .. Len(q) /\ i < k
      BY <1>3, <1>8, <2>0, <2>2
    <3>2. r[i] = q[i] /\ r[j] = p
      BY <1>6, <2>2, <3>1
    <3> QED
      BY <1>4, <3>1, <3>2
  <2>3. CASE j > k
    <3>1. j - 1 \in 1 .. Len(q) /\ r[j] = q[j - 1] /\ j - 1 >= k
      BY <1>1, <1>3, <1>6, <2>3
    <3>2. key[r[j]] > key[p] /\ key[r[j]] \in Int
      BY <1>1, <1>5, <3>1
    <3>3. CASE i < k
      <4>1. i \in 1 .. Len(q) /\ r[i] = q[i]
        BY <1>1, <1>3, <1>6, <3>3
      <4>2. key[q[i]] <= key[p] /\ key[q[i]] \in Int
        BY <1>1, <1>4, <3>3, <4>1
      <4> QED
        BY <1>2, <3>2, <4>1, <4>2
    <3>4. CASE i = k
      <4>1. r[i] = p
        BY <1>6, <3>4
      <4> QED
        BY <1>2, <3>2, <4>1
    <3>5. CASE i > k
      <4>1. i - 1 \in 1 .. Len(q) /\ r[i] = q[i - 1] /\ i - 1 < j - 1
        BY <1>1, <1>3, <1>6, <1>8, <3>5
      <4> QED
        BY <1>1, <3>1, <4>1 DEF SortedBy
    <3> QED
      BY <1>3, <3>3, <3>4, <3>5
  <2> QED
    BY <1>3, <2>1, <2>2, <2>3
<1>9. SortedBy(r, key)
  BY <1>7, <1>8 DEF SortedBy
<1> QED
  BY <1>9 DEF InsertBehind, r, k, ahead

(* A process that was not in the queue is in it once.                       *)
LEMMA InsertBehindOnce ==
    ASSUME NEW q \in Seq(Proc), NEW p \in Proc, NEW ahead,
           NoDup(q), p \notin Range(q)
    PROVE  NoDup(InsertBehind(q, p, ahead))
<1> DEFINE k == PlaceBehind(q, ahead)
           r == InsertAt(q, k, p)
<1>1. /\ Len(q) \in Nat /\ DOMAIN q = 1 .. Len(q)
      /\ Range(q) = {q[i] : i \in 1 .. Len(q)}
  BY LenProperties, RangeEquality
<1>2. k \in 1 .. Len(q) + 1
  BY PlaceBehindProperties
<1> HIDE DEF k
<1>3. /\ r \in Seq(Proc) /\ Len(r) = Len(q) + 1
      /\ \A j \in 1 .. Len(q) + 1 :
            r[j] = IF j < k THEN q[j] ELSE IF j = k THEN p ELSE q[j - 1]
  BY <1>2, InsertAtProperties
<1>4. DOMAIN r = 1 .. Len(q) + 1
  BY <1>3, LenProperties
<1> HIDE DEF r
<1>5. \A i \in 1 .. Len(q) : q[i] # p
  BY <1>1
<1>6. \A i, j \in 1 .. Len(q) : i # j => q[i] # q[j]
  BY <1>1 DEF NoDup
<1>7. ASSUME NEW i \in 1 .. Len(q) + 1, NEW j \in 1 .. Len(q) + 1, i < j
      PROVE  r[i] # r[j]
  <2>1. CASE j < k
    BY <1>1, <1>2, <1>3, <1>6, <1>7, <2>1
  <2>2. CASE j = k
    <3>1. i \in 1 .. Len(q) /\ r[i] = q[i] /\ r[j] = p
      BY <1>1, <1>2, <1>3, <1>7, <2>2
    <3> QED
      BY <1>5, <3>1
  <2>3. CASE j > k
    <3>1. j - 1 \in 1 .. Len(q) /\ r[j] = q[j - 1]
      BY <1>1, <1>2, <1>3, <2>3
    <3>2. CASE i < k
      <4>1. i \in 1 .. Len(q) /\ r[i] = q[i] /\ i # j - 1
        BY <1>1, <1>2, <1>3, <2>3, <3>2
      <4> QED
        BY <1>6, <3>1, <4>1
    <3>3. CASE i = k
      <4>1. r[i] = p
        BY <1>3, <3>3
      <4> QED
        BY <1>5, <3>1, <4>1
    <3>4. CASE i > k
      <4>1. i - 1 \in 1 .. Len(q) /\ r[i] = q[i - 1] /\ i - 1 # j - 1
        BY <1>1, <1>2, <1>3, <1>7, <3>4
      <4> QED
        BY <1>6, <3>1, <4>1
    <3> QED
      BY <1>2, <3>2, <3>3, <3>4
  <2> QED
    BY <1>2, <2>1, <2>2, <2>3
<1>8. \A i, j \in 1 .. Len(q) + 1 : i # j => i < j \/ j < i
  BY <1>1
<1>9. NoDup(r)
  BY <1>4, <1>7, <1>8 DEF NoDup
<1> QED
  BY <1>9 DEF InsertBehind, r, k

(* proc_remove takes p out of a queue it is in once, wherever it stands,    *)
(* and leaves the others in their order.                                    *)
LEMMA RemoveOnce ==
    ASSUME NEW q \in Seq(Proc), NEW p, NoDup(q)
    PROVE  /\ NoDup(proc_remove(q, p))
           /\ Range(proc_remove(q, p)) = Range(q) \ {p}
           /\ p \notin Range(q) => proc_remove(q, p) = q
           /\ \A key : SortedBy(q, key) => SortedBy(proc_remove(q, p), key)
<1>1. /\ Len(q) \in Nat /\ DOMAIN q = 1 .. Len(q)
      /\ Range(q) = {q[i] : i \in 1 .. Len(q)}
  BY LenProperties, RangeEquality
<1>2. CASE p \notin Range(q)
  BY <1>2 DEF proc_remove
<1>3. CASE p \in Range(q)
  <2> DEFINE k == CHOOSE i \in DOMAIN q : q[i] = p
             r == RemoveAt(q, k)
  <2>1. k \in 1 .. Len(q) /\ q[k] = p
    BY <1>1, <1>3
  <2> HIDE DEF k
  <2>2. /\ r \in Seq(Proc) /\ Len(r) = Len(q) - 1
        /\ \A j \in 1 .. Len(q) - 1 : r[j] = IF j < k THEN q[j] ELSE q[j + 1]
    BY <2>1, RemoveAtProperties
  <2> HIDE DEF r
  <2>3. /\ DOMAIN r = 1 .. Len(q) - 1
        /\ Range(r) = {r[i] : i \in 1 .. Len(q) - 1}
    BY <2>2, RangeEquality, LenProperties
  <2>4. \A i, j \in 1 .. Len(q) : i # j => q[i] # q[j]
    BY <1>1 DEF NoDup
  <2>5. \A i \in 1 .. Len(q) : i # k => q[i] # p
    BY <2>1, <2>4
  <2>6. ASSUME NEW i \in 1 .. Len(q) - 1, NEW j \in 1 .. Len(q) - 1, i < j
        PROVE  \E a, b \in 1 .. Len(q) : a < b /\ r[i] = q[a] /\ r[j] = q[b]
    <3> DEFINE a == IF i < k THEN i ELSE i + 1
               b == IF j < k THEN j ELSE j + 1
    <3>1. a \in 1 .. Len(q) /\ b \in 1 .. Len(q) /\ a < b
      BY <1>1, <2>1, <2>6
    <3>2. r[i] = q[a] /\ r[j] = q[b]
      BY <2>2
    <3> QED
      BY <3>1, <3>2
  <2>7. NoDup(r)
    <3>1. \A i, j \in 1 .. Len(q) - 1 : i < j => r[i] # r[j]
      <4> SUFFICES ASSUME NEW i \in 1 .. Len(q) - 1, NEW j \in 1 .. Len(q) - 1, i < j
                   PROVE  r[i] # r[j]
        OBVIOUS
      <4>1. PICK a \in 1 .. Len(q), b \in 1 .. Len(q) :
                a < b /\ r[i] = q[a] /\ r[j] = q[b]
        BY <2>6
      <4>2. a # b
        BY <1>1, <4>1
      <4> QED
        BY <2>4, <4>1, <4>2
    <3>2. \A i, j \in 1 .. Len(q) - 1 : i # j => i < j \/ j < i
      BY <1>1
    <3> QED
      BY <2>3, <3>1, <3>2 DEF NoDup
  <2>8. ASSUME NEW key, SortedBy(q, key) PROVE SortedBy(r, key)
    <3> SUFFICES ASSUME NEW i \in 1 .. Len(q) - 1, NEW j \in 1 .. Len(q) - 1, i < j
                 PROVE  key[r[i]] <= key[r[j]]
      BY <2>3 DEF SortedBy
    <3>1. PICK a \in 1 .. Len(q), b \in 1 .. Len(q) :
              a < b /\ r[i] = q[a] /\ r[j] = q[b]
      BY <2>6
    <3>2. key[q[a]] <= key[q[b]]
      BY <1>1, <2>8, <3>1 DEF SortedBy
    <3> QED
      BY <3>1, <3>2
  <2>9. Range(r) \subseteq Range(q) \ {p}
    <3> SUFFICES ASSUME NEW j \in 1 .. Len(q) - 1 PROVE r[j] \in Range(q) /\ r[j] # p
      BY <2>3
    <3> DEFINE a == IF j < k THEN j ELSE j + 1
    <3>1. a \in 1 .. Len(q) /\ a # k
      BY <1>1, <2>1
    <3>2. r[j] = q[a]
      BY <2>2
    <3> QED
      BY <1>1, <2>5, <3>1, <3>2
  <2>10. Range(q) \ {p} \subseteq Range(r)
    <3> SUFFICES ASSUME NEW i \in 1 .. Len(q), q[i] # p PROVE q[i] \in Range(r)
      BY <1>1
    <3>1. i # k
      BY <2>1
    <3>2. CASE i < k
      <4>1. i \in 1 .. Len(q) - 1 /\ r[i] = q[i]
        BY <1>1, <2>1, <2>2, <3>2
      <4> QED
        BY <2>3, <4>1
    <3>3. CASE i > k
      <4>1. i - 1 \in 1 .. Len(q) - 1 /\ ~(i - 1 < k) /\ i - 1 + 1 = i
        BY <1>1, <2>1, <3>3
      <4>2. r[i - 1] = q[i]
        BY <2>2, <4>1
      <4> QED
        BY <2>3, <4>1, <4>2
    <3> QED
      BY <2>1, <3>1, <3>2, <3>3
  <2>11. proc_remove(q, p) = r
    BY <1>3 DEF proc_remove, r, k
  <2> QED
    BY <1>3, <2>7, <2>8, <2>9, <2>10, <2>11
<1> QED
  BY <1>2, <1>3

(* proc_dequeue takes the first entry out of a queue and leaves the others  *)
(* in their order; nobody left has a smaller key than the one taken.        *)
LEMMA RestOnce ==
    ASSUME NEW q \in Seq(Proc), q # <<>>, NoDup(q)
    PROVE  /\ Dequeued(q) = Head(q) /\ Head(q) \in Range(q) /\ Head(q) \in Proc
           /\ Rest(q) \in Seq(Proc) /\ Len(Rest(q)) = Len(q) - 1
           /\ NoDup(Rest(q)) /\ Range(Rest(q)) = Range(q) \ {Head(q)}
           /\ \A key : SortedBy(q, key) =>
                 /\ SortedBy(Rest(q), key)
                 /\ \A p \in Range(Rest(q)) : key[Head(q)] <= key[p]
<1> DEFINE r == Tail(q)
<1>1. /\ Len(q) \in Nat /\ DOMAIN q = 1 .. Len(q)
      /\ Range(q) = {q[i] : i \in 1 .. Len(q)}
  BY LenProperties, RangeEquality
<1>2. /\ Head(q) \in Proc /\ r \in Seq(Proc) /\ Len(r) = Len(q) - 1
      /\ \A i \in 1 .. Len(r) : r[i] = q[i + 1]
  BY HeadTailProperties
<1>3. Len(q) \in Nat \ {0} /\ Head(q) = q[1]
  <2>1. Len(q) # 0
    BY EmptySeq
  <2> QED
    BY <1>1, <2>1
<1> HIDE DEF r
<1>4. /\ DOMAIN r = 1 .. Len(q) - 1
      /\ Range(r) = {r[i] : i \in 1 .. Len(q) - 1}
  BY <1>2, RangeEquality, LenProperties
<1>5. \A i, j \in 1 .. Len(q) : i # j => q[i] # q[j]
  BY <1>1 DEF NoDup
<1>6. \A i \in 1 .. Len(q) - 1 : i + 1 \in 1 .. Len(q) /\ 1 < i + 1 /\ r[i] = q[i + 1]
  BY <1>1, <1>2
<1>7. 1 \in 1 .. Len(q)
  BY <1>3
<1>8. NoDup(r)
  <2>1. \A i, j \in 1 .. Len(q) - 1 : i # j => i + 1 # j + 1
    BY <1>1
  <2> QED
    BY <1>4, <1>5, <1>6, <2>1 DEF NoDup
<1>9. Range(r) \subseteq Range(q) \ {Head(q)}
  <2> SUFFICES ASSUME NEW i \in 1 .. Len(q) - 1 PROVE r[i] \in Range(q) /\ r[i] # q[1]
    BY <1>3, <1>4
  <2>1. i + 1 \in 1 .. Len(q) /\ i + 1 # 1 /\ r[i] = q[i + 1]
    BY <1>6
  <2> QED
    BY <1>1, <1>5, <1>7, <2>1
<1>10. Range(q) \ {Head(q)} \subseteq Range(r)
  <2> SUFFICES ASSUME NEW i \in 1 .. Len(q), q[i] # q[1] PROVE q[i] \in Range(r)
    BY <1>1, <1>3
  <2>1. i - 1 \in 1 .. Len(q) - 1 /\ i - 1 + 1 = i
    BY <1>1, <1>7
  <2> QED
    BY <1>4, <1>6, <2>1
<1>11. ASSUME NEW key, SortedBy(q, key)
       PROVE  SortedBy(r, key) /\ \A p \in Range(r) : key[Head(q)] <= key[p]
  <2>1. \A i, j \in 1 .. Len(q) : i < j => key[q[i]] <= key[q[j]]
    BY <1>1, <1>11 DEF SortedBy
  <2>2. \A i, j \in 1 .. Len(q) - 1 : i < j => i + 1 < j + 1
    BY <1>1
  <2>3. SortedBy(r, key)
    BY <1>4, <1>6, <2>1, <2>2 DEF SortedBy
  <2>4. \A i \in 1 .. Len(q) - 1 : key[q[1]] <= key[r[i]]
    BY <1>6, <1>7, <2>1
  <2> QED
    BY <1>3, <1>4, <2>3, <2>4
<1>12. Rest(q) = r /\ Dequeued(q) = Head(q)
  BY DEF Rest, Dequeued, r
<1>13. Head(q) \in Range(q)
  BY <1>1, <1>3, <1>7
<1> QED
  BY <1>2, <1>8, <1>9, <1>10, <1>11, <1>12, <1>13

-----------------------------------------------------------------------------
(* The same for the queues kept in order of priority.                       *)

\* Nobody is in q twice, and higher priorities come first.
Ordered(q) == NoDup(q) /\ Sorted(q)

\* The key by which proc_enqueue orders a queue.
Rank == [p \in Proc |-> -Prio[p]]

LEMMA SortedByRank ==
    ASSUME NEW q \in Seq(Proc)
    PROVE  Sorted(q) <=> SortedBy(q, Rank)
<1>1. DOMAIN q = 1 .. Len(q) /\ \A i \in 1 .. Len(q) : q[i] \in Proc
  BY LenProperties, ElementOfSeq
<1>2. \A x, y \in Proc : Prio[x] >= Prio[y] <=> Rank[x] <= Rank[y]
  BY ProcAssumption DEF Rank
<1> QED
  BY <1>1, <1>2 DEF Sorted, SortedBy

LEMMA EnqueueKeeps ==
    ASSUME NEW q \in Seq(Proc), NEW p \in Proc, Ordered(q), p \notin Range(q)
    PROVE  /\ Ordered(proc_enqueue(q, p))
           /\ Len(proc_enqueue(q, p)) = Len(q) + 1
<1> DEFINE ahead == {x \in Proc : Prio[x] >= Prio[p]}
<1>1. proc_enqueue(q, p) = InsertBehind(q, p, ahead)
  BY DEF proc_enqueue
<1>2. ahead = {x \in Proc : Rank[x] <= Rank[p]}
  BY ProcAssumption DEF Rank
<1>3. Rank \in [Proc -> Int]
  BY ProcAssumption DEF Rank
<1> HIDE DEF ahead
<1>4. SortedBy(InsertBehind(q, p, ahead), Rank)
  BY <1>2, <1>3, SortedByRank, InsertBehindOrder DEF Ordered
<1>5. /\ InsertBehind(q, p, ahead) \in Seq(Proc)
      /\ Len(InsertBehind(q, p, ahead)) = Len(q) + 1
      /\ NoDup(InsertBehind(q, p, ahead))
  BY InsertBehindProperties, InsertBehindOnce DEF Ordered
<1> QED
  BY <1>1, <1>4, <1>5, SortedByRank DEF Ordered

LEMMA RemoveKeeps ==
    ASSUME NEW q \in Seq(Proc), NEW p, Ordered(q)
    PROVE  Ordered(proc_remove(q, p))
BY RemoveOnce, RemoveProperties, SortedByRank DEF Ordered

LEMMA RestKeeps ==
    ASSUME NEW q \in Seq(Proc), q # <<>>, Ordered(q)
    PROVE  /\ Ordered(Rest(q))
           /\ \A p \in Range(Rest(q)) : Prio[p] <= Prio[Head(q)]
<1>1. /\ Rest(q) \in Seq(Proc) /\ NoDup(Rest(q)) /\ Head(q) \in Proc
      /\ Range(Rest(q)) = Range(q) \ {Head(q)}
      /\ SortedBy(Rest(q), Rank)
      /\ \A p \in Range(Rest(q)) : Rank[Head(q)] <= Rank[p]
  BY RestOnce, SortedByRank DEF Ordered
<1>2. \A p \in Range(Rest(q)) : p \in Proc
  BY <1>1, LenProperties, ElementOfSeq, RangeEquality
<1>3. \A x, y \in Proc : Rank[x] <= Rank[y] => Prio[y] <= Prio[x]
  BY ProcAssumption DEF Rank
<1> QED
  BY <1>1, <1>2, <1>3, SortedByRank DEF Ordered

LEMMA EmptyKeeps == Ordered(<<>>) /\ Range(<<>>) = {} /\ Len(<<>>) = 0
BY DEF Ordered, NoDup, Sorted, Range


-----------------------------------------------------------------------------
(* Types of what the operations shared by several actions leave behind.     *)

LEMMA NoCallType ==
    NoCall \in [cond : Cond, mutex : Mutex \cup {MutexNone},
                delay : Delay \cup {Forever}]
BY SyncAssumption DEF NoCall, Cond

LEMMA MakeAvailType ==
    ASSUME TypeOK, NEW p \in Proc, NEW st \in [Proc -> Status],
           NEW ready \in Seq(Proc), make_avail(p, st, ready)
    PROVE  /\ status' \in [Proc -> Status] /\ avail' \in Seq(Proc)
           /\ needResched' \in BOOLEAN
<1>1. status' \in [Proc -> Status]
  BY DEF make_avail, Status
<1>2. avail' \in Seq(Proc)
  BY EnqueueProperties DEF make_avail
<1>3. needResched' \in BOOLEAN
  BY Zenon DEF make_avail, TypeOK
<1> QED
  BY <1>1, <1>2, <1>3

LEMMA SleepRemoveType ==
    ASSUME TypeOK, NEW p \in Proc, sleep_remove(p)
    PROVE  sleepList' \in Seq(Proc) /\ wakeAt' \in [Proc -> Tick]
<1>1. 0 \in Tick
  BY TickAssumption DEF Tick
<1> QED
  BY <1>1, RemoveProperties DEF sleep_remove, TypeOK

LEMMA SleepEnqueueType ==
    ASSUME TypeOK, NEW p \in Proc, NEW d \in Delay, sleep_enqueue(p, d)
    PROVE  sleepList' \in Seq(Proc) /\ wakeAt' \in [Proc -> Tick]
<1>1. (tickCount + d) % Wrap \in Tick
  <2>1. tickCount + d \in Nat /\ Wrap \in Nat /\ Wrap > 0
    BY TickAssumption DEF TypeOK, Tick
  <2> QED
    BY <2>1 DEF Tick
<1>2. wakeAt' \in [Proc -> Tick]
  BY <1>1 DEF sleep_enqueue, TypeOK
<1>3. sleepList' \in Seq(Proc)
  BY InsertBehindProperties DEF sleep_enqueue, TypeOK
<1> QED
  BY <1>2, <1>3

LEMMA WakeType ==
    ASSUME TypeOK, NEW p \in Proc, wake(p)
    PROVE  /\ status' \in [Proc -> Status] /\ avail' \in Seq(Proc)
           /\ needResched' \in BOOLEAN
           /\ sleepList' \in Seq(Proc) /\ wakeAt' \in [Proc -> Tick]
<1>1. make_avail(p, status, avail)
  BY DEF wake
<1>2. sleep_remove(p) \/ UNCHANGED <<sleepList, wakeAt>>
  BY DEF wake
<1> QED
  BY <1>1, <1>2, MakeAvailType, SleepRemoveType DEF TypeOK

LEMMA PostType ==
    ASSUME TypeOK, NEW s \in Semaphore, NEW st \in [Proc -> Status], Post(s, st)
    PROVE  /\ status' \in [Proc -> Status] /\ avail' \in Seq(Proc)
           /\ needResched' \in BOOLEAN
           /\ count' \in [Semaphore -> Int]
           /\ semQ' \in [Semaphore -> Seq(Proc)]
<1>1. count' \in [Semaphore -> Int]
  BY DEF Post, TypeOK
<1>2. CASE count[s] + 1 <= 0
  <2>1. Dequeued(semQ[s]) \in Proc /\ Rest(semQ[s]) \in Seq(Proc)
    BY DequeueProperties DEF TypeOK
  <2>2. semQ' \in [Semaphore -> Seq(Proc)]
    BY <1>2, <2>1 DEF Post, TypeOK
  <2>3. make_avail(Dequeued(semQ[s]), st, avail) /\ avail \in Seq(Proc)
    BY <1>2 DEF Post, TypeOK
  <2> QED
    BY <1>1, <2>1, <2>2, <2>3, MakeAvailType
<1>3. CASE ~(count[s] + 1 <= 0)
  BY <1>1, <1>3 DEF Post, TypeOK
<1> QED
  BY <1>2, <1>3

LEMMA UnlockType ==
    ASSUME TypeOK, NEW m \in Semaphore, NEW st \in [Proc -> Status], Unlock(m, st)
    PROVE  /\ status' \in [Proc -> Status] /\ avail' \in Seq(Proc)
           /\ needResched' \in BOOLEAN
           /\ count' \in [Semaphore -> Int]
           /\ semQ' \in [Semaphore -> Seq(Proc)]
<1>1. CASE count[m] < 1
  BY <1>1, PostType DEF Unlock
<1>2. CASE ~(count[m] < 1)
  BY <1>2 DEF Unlock, TypeOK, sync
<1> QED
  BY <1>1, <1>2

LEMMA NextCondType ==
    ASSUME TypeOK, at \in {"scan", "scan_wake"}, NextCond
    PROVE  /\ at' \in Place
           /\ call' \in [cond : Cond, mutex : Mutex \cup {MutexNone},
                         delay : Delay \cup {Forever}]
<1>1. at' \in Place
  BY DEF NextCond, Place
<1>2. CASE call.cond + 1 < NCond
  <2>1. call.cond + 1 \in Cond
    BY <1>2, SyncAssumption DEF TypeOK, Cond
  <2>2. call' = [call EXCEPT !.cond = @ + 1]
    BY <1>2 DEF NextCond
  <2> QED
    BY <1>1, <2>1, <2>2 DEF TypeOK
<1>3. CASE ~(call.cond + 1 < NCond)
  BY <1>1, <1>3, NoCallType DEF NextCond
<1> QED
  BY <1>1, <1>2, <1>3

-----------------------------------------------------------------------------
(* Type correctness.                                                        *)

LEMMA InitType == Init => TypeOK
<1> SUFFICES ASSUME Init PROVE TypeOK
  OBVIOUS
<1>1. avail \in Seq(Proc)
  <2>1. Cardinality(Proc) \in Nat
    BY ProcAssumption, FS_CardinalityType
  <2> QED
    BY <2>1, SeqDef DEF Init, BootReady
<1>2. tickCount \in Tick /\ wakeAt \in [Proc -> Tick]
  BY TickAssumption DEF Init, Tick
<1>3. /\ semQ \in [Semaphore -> Seq(Proc)]
      /\ condQ \in [Cond -> Seq(Proc)]
      /\ sleepList \in Seq(Proc)
  BY DEF Init
<1>4. curr \in Proc /\ status \in [Proc -> Status] /\ count \in [Semaphore -> Int]
  BY ProcAssumption DEF Init, Status
<1>5. call = NoCall /\ at \in Place /\ op \in [Proc -> Op]
  BY DEF Init, Place, Op
<1>6. /\ needResched \in BOOLEAN /\ nmiPending \in BOOLEAN
      /\ pending \in [Cond -> BOOLEAN] /\ timedOut \in [Proc -> BOOLEAN]
      /\ lockOf \in [Proc -> Semaphore \cup {MutexNone}]
      /\ holds \in [Proc -> SUBSET Mutex]
  BY DEF Init
<1> QED
  BY <1>1, <1>2, <1>3, <1>4, <1>5, <1>6, NoCallType DEF TypeOK

(* Every action keeps the types.  In each step the actions' unchanged       *)
(* variables keep theirs by TypeOK itself.                                  *)
LEMMA NextType == TypeOK /\ [Next]_vars => TypeOK'
<1> SUFFICES ASSUME TypeOK, [Next]_vars PROVE TypeOK'
  OBVIOUS
<1> USE DEF sched_, sync, conds, time, client
<1>1. ASSUME NEW s \in Semaphore, SemWait(s) PROVE TypeOK'
  <2>1. /\ count' = [count EXCEPT ![s] = @ - 1]
        /\ UNCHANGED <<curr, needResched, avail, conds, time, call>>
    BY <1>1 DEF SemWait
  <2>2. count' \in [Semaphore -> Int]
    BY <2>1 DEF TypeOK
  <2>3. CASE count[s] - 1 < 0
    <3>1. proc_enqueue(semQ[s], curr) \in Seq(Proc)
      BY EnqueueProperties DEF TypeOK
    <3>2. /\ status' = [status EXCEPT ![curr] = "SEM_WAIT"]
          /\ semQ' = [semQ EXCEPT ![s] = proc_enqueue(@, curr)]
          /\ op' = [op EXCEPT ![curr] = "sem_wait"]
          /\ lockOf' = [lockOf EXCEPT ![curr] = s]
          /\ at' = "sched" /\ holds' = holds
      BY <1>1, <2>3 DEF SemWait
    <3>3. /\ status' \in [Proc -> Status] /\ semQ' \in [Semaphore -> Seq(Proc)]
          /\ op' \in [Proc -> Op] /\ at' \in Place
          /\ lockOf' \in [Proc -> Semaphore \cup {MutexNone}]
      BY <3>1, <3>2 DEF TypeOK, Status, Op, Place
    <3> QED
      BY <2>1, <2>2, <3>2, <3>3 DEF TypeOK
  <2>4. CASE ~(count[s] - 1 < 0)
    <3>1. /\ op' = [op EXCEPT ![curr] = "run"]
          /\ lockOf' = [lockOf EXCEPT ![curr] = MutexNone]
          /\ holds' = [holds EXCEPT ![curr] = @ \cup ({s} \cap Mutex)]
          /\ UNCHANGED <<status, semQ, at>>
      BY <1>1, <2>4 DEF SemWait
    <3>2. /\ op' \in [Proc -> Op] /\ holds' \in [Proc -> SUBSET Mutex]
          /\ lockOf' \in [Proc -> Semaphore \cup {MutexNone}]
      BY <3>1 DEF TypeOK, Op
    <3> QED
      BY <2>1, <2>2, <3>1, <3>2 DEF TypeOK
  <2> QED
    BY <2>3, <2>4
<1>2. CASE SemWaitReturn
  BY <1>2 DEF SemWaitReturn, TypeOK, Op
<1>3. ASSUME NEW s \in Counting, SemSignal(s) PROVE TypeOK'
  <2>1. Post(s, status) /\ s \in Semaphore /\ status \in [Proc -> Status]
    BY <1>3 DEF SemSignal, Semaphore, TypeOK
  <2> QED
    BY <1>3, <2>1, PostType DEF SemSignal, ReschedOrReturn, TypeOK, Place
<1>4. ASSUME NEW m \in Mutex, MutexUnlock(m) PROVE TypeOK'
  <2>1. Unlock(m, status) /\ m \in Semaphore /\ status \in [Proc -> Status]
    BY <1>4 DEF MutexUnlock, Semaphore, TypeOK
  <2> QED
    BY <1>4, <2>1, UnlockType DEF MutexUnlock, ReschedOrReturn, TypeOK, Place
<1>5. ASSUME NEW c \in Cond, NEW m \in Mutex \cup {MutexNone},
             NEW d \in Delay \cup {Forever}, CondWait(c, m, d)
      PROVE  TypeOK'
  BY <1>5 DEF CondWait, TypeOK, Place
<1>6. CASE WaitReturn
  BY <1>6 DEF WaitReturn, TypeOK, Op
<1>7. ASSUME NEW d \in Delay, Sleep(d) PROVE TypeOK'
  <2>1. curr \in Proc /\ sleep_enqueue(curr, d)
    BY <1>7 DEF Sleep, TypeOK
  <2> QED
    BY <1>7, <2>1, SleepEnqueueType DEF Sleep, TypeOK, Status, Op, Place
<1>8. CASE SleepReturn
  BY <1>8 DEF SleepReturn, TypeOK, Op
<1>9. ASSUME NEW c \in Cond, CondSignal(c) PROVE TypeOK'
  <2>1. Rest(condQ[c]) \in Seq(Proc)
    BY DequeueProperties DEF TypeOK
  <2>2. CASE condQ[c] # <<>>
    <3>1. Head(condQ[c]) \in Proc /\ wake(Head(condQ[c]))
      BY <1>9, <2>2, HeadTailProperties DEF CondSignal, TypeOK
    <3> QED
      BY <1>9, <2>1, <3>1, WakeType DEF CondSignal, ReschedOrReturn, TypeOK, Place
  <2>3. CASE condQ[c] = <<>>
    BY <1>9, <2>1, <2>3 DEF CondSignal, ReschedOrReturn, TypeOK, Place
  <2> QED
    BY <2>2, <2>3
<1>10. ASSUME NEW c \in Cond, CondBroadcast(c) PROVE TypeOK'
  BY <1>10, NoCallType DEF CondBroadcast, TypeOK, Place
<1>11. CASE WaitClear
  BY <1>11, NoCallType DEF WaitClear, TypeOK, Place
<1>12. CASE WaitPark
  <2> DEFINE c == call.cond
             m == call.mutex
             timed == call.delay # Forever
             st == [status EXCEPT ![curr] =
                       IF timed THEN "TIMED_WAIT" ELSE "COND_WAIT"]
  <2>1. /\ c \in Cond /\ m \in Mutex \cup {MutexNone} /\ curr \in Proc
        /\ timed => call.delay \in Delay
    BY DEF TypeOK
  <2>2. st \in [Proc -> Status]
    BY DEF TypeOK, Status
  <2>3. sleepList' \in Seq(Proc) /\ wakeAt' \in [Proc -> Tick]
    <3>1. CASE timed
      BY <1>12, <2>1, <3>1, SleepEnqueueType DEF WaitPark
    <3>2. CASE ~timed
      BY <1>12, <3>2 DEF WaitPark, TypeOK
    <3> QED
      BY <3>1, <3>2
  <2>4. /\ status' \in [Proc -> Status] /\ avail' \in Seq(Proc)
        /\ needResched' \in BOOLEAN
        /\ count' \in [Semaphore -> Int]
        /\ semQ' \in [Semaphore -> Seq(Proc)]
    <3>1. CASE m # MutexNone
      <4>1. m \in Semaphore /\ Unlock(m, st)
        BY <1>12, <2>1, <3>1 DEF WaitPark, Semaphore
      <4> QED
        BY <2>2, <4>1, UnlockType
    <3>2. CASE m = MutexNone
      <4>1. status' = st /\ UNCHANGED <<count, semQ, avail, needResched>>
        BY <1>12, <3>2 DEF WaitPark
      <4> QED
        BY <2>2, <4>1 DEF TypeOK
    <3> QED
      BY <3>1, <3>2
  <2>5. condQ' \in [Cond -> Seq(Proc)]
    <3>1. proc_enqueue(condQ[c], curr) \in Seq(Proc)
      BY <2>1, EnqueueProperties DEF TypeOK
    <3>2. condQ' = [condQ EXCEPT ![c] = proc_enqueue(@, curr)]
      BY <1>12 DEF WaitPark
    <3> QED
      BY <2>1, <3>1, <3>2 DEF TypeOK
  <2>6. /\ timedOut' = [timedOut EXCEPT ![curr] = FALSE]
        /\ op' = [op EXCEPT ![curr] = "cond_wait"]
        /\ lockOf' = [lockOf EXCEPT ![curr] = m]
        /\ holds' = [holds EXCEPT ![curr] = @ \ {m}]
        /\ at' = "sched" /\ call' = NoCall
        /\ UNCHANGED <<curr, pending, nmiPending, tickCount>>
    BY <1>12 DEF WaitPark
  <2>7. /\ timedOut' \in [Proc -> BOOLEAN] /\ op' \in [Proc -> Op]
        /\ lockOf' \in [Proc -> Semaphore \cup {MutexNone}]
        /\ holds' \in [Proc -> SUBSET Mutex]
    BY <2>1, <2>6 DEF TypeOK, Op, Semaphore
  <2>8. at' \in Place
    BY <2>6 DEF Place
  <2> QED
    BY <2>3, <2>4, <2>5, <2>6, <2>7, <2>8, NoCallType DEF TypeOK
<1>13. CASE WakeAll
  <2> DEFINE c == call.cond
  <2>1. c \in Cond /\ Rest(condQ[c]) \in Seq(Proc)
    BY DequeueProperties DEF TypeOK
  <2>2. CASE condQ[c] # <<>>
    <3>1. Head(condQ[c]) \in Proc /\ wake(Head(condQ[c]))
      BY <1>13, <2>1, <2>2, HeadTailProperties DEF WakeAll, TypeOK
    <3> QED
      BY <1>13, <2>1, <2>2, <3>1, WakeType DEF WakeAll, TypeOK
  <2>3. CASE condQ[c] = <<>>
    BY <1>13, <2>3, NoCallType DEF WakeAll, ReschedOrReturn, TypeOK, Place
  <2> QED
    BY <2>2, <2>3
<1>14. CASE SleepClock
  <2>1. CASE sleepList # <<>> /\ Due(Head(sleepList))
    <3> DEFINE p == Head(sleepList)
    <3>1. p \in Proc /\ Tail(sleepList) \in Seq(Proc)
      BY <2>1, HeadTailProperties DEF TypeOK
    <3> HIDE DEF p
    <3>2. /\ sleepList' = Tail(sleepList)
          /\ wakeAt' = [wakeAt EXCEPT ![p] = 0]
          /\ condQ' = [c \in Cond |-> proc_remove(condQ[c], p)]
          /\ semQ' = [s \in Semaphore |-> proc_remove(semQ[s], p)]
          /\ timedOut' = [timedOut EXCEPT ![p] = TRUE]
          /\ make_avail(p, status, proc_remove(avail, p))
          /\ UNCHANGED <<at, curr, count, pending, nmiPending, tickCount, call,
                         op, lockOf, holds>>
      BY <1>14, <2>1 DEF SleepClock, p
    <3>3. /\ status' \in [Proc -> Status] /\ avail' \in Seq(Proc)
          /\ needResched' \in BOOLEAN
      <4>1. proc_remove(avail, p) \in Seq(Proc) /\ status \in [Proc -> Status]
        BY RemoveProperties DEF TypeOK
      <4> QED
        BY <3>1, <3>2, <4>1, MakeAvailType
    <3>4. \A c \in Cond : proc_remove(condQ[c], p) \in Seq(Proc)
      BY RemoveProperties DEF TypeOK
    <3>5. \A s \in Semaphore : proc_remove(semQ[s], p) \in Seq(Proc)
      BY RemoveProperties DEF TypeOK
    <3>6. wakeAt' \in [Proc -> Tick] /\ timedOut' \in [Proc -> BOOLEAN]
      BY <3>1, <3>2, TickAssumption DEF TypeOK, Tick
    <3>7. /\ condQ' \in [Cond -> Seq(Proc)]
          /\ semQ' \in [Semaphore -> Seq(Proc)]
      BY <3>2, <3>4, <3>5
    <3> QED
      BY <3>1, <3>2, <3>3, <3>6, <3>7 DEF TypeOK
  <2>2. CASE ~(sleepList # <<>> /\ Due(Head(sleepList)))
    BY <1>14, <2>2 DEF SleepClock, TypeOK, Place
  <2> QED
    BY <2>1, <2>2
<1>15. CASE CondClock
  BY <1>15 DEF CondClock, TypeOK, Place
<1>16. CASE Scan
  <2>1. CASE pending[call.cond] /\ condQ[call.cond] # <<>>
    BY <1>16, <2>1 DEF Scan, TypeOK, Place
  <2>2. CASE ~(pending[call.cond] /\ condQ[call.cond] # <<>>)
    BY <1>16, <2>2, NextCondType DEF Scan, TypeOK
  <2> QED
    BY <2>1, <2>2
<1>17. CASE ScanWake
  <2> DEFINE c == call.cond
  <2>1. c \in Cond /\ Rest(condQ[c]) \in Seq(Proc)
    BY DequeueProperties DEF TypeOK
  <2>2. CASE condQ[c] # <<>>
    <3>1. Head(condQ[c]) \in Proc /\ wake(Head(condQ[c]))
      BY <1>17, <2>1, <2>2, HeadTailProperties DEF ScanWake, TypeOK
    <3> QED
      BY <1>17, <2>1, <2>2, <3>1, WakeType DEF ScanWake, TypeOK
  <2>3. CASE condQ[c] = <<>>
    BY <1>17, <2>3, NextCondType DEF ScanWake, TypeOK
  <2> QED
    BY <2>2, <2>3
<1>18. CASE Sched
  <2> DEFINE ready == IF status[curr] = "CURR" THEN proc_enqueue(avail, curr)
                                               ELSE avail
  <2>1. ready \in Seq(Proc)
    BY EnqueueProperties DEF TypeOK
  <2>2. Dequeued(ready) \in Proc /\ Rest(ready) \in Seq(Proc)
    BY <2>1, DequeueProperties
  <2>3. /\ avail' = Rest(ready) /\ curr' = Dequeued(ready)
        /\ needResched' = FALSE /\ at' = "user"
        /\ UNCHANGED <<sync, conds, time, call, client>>
    BY <1>18 DEF Sched
  <2>4. status' \in [Proc -> Status]
    BY <1>18 DEF Sched, TypeOK, Status
  <2> QED
    BY <2>2, <2>3, <2>4 DEF TypeOK, Place
<1>19. ASSUME NEW c \in IsrCond, CondSignalIsr(c) PROVE TypeOK'
  <2>1. c \in Cond
    BY SyncAssumption
  <2> QED
    BY <1>19, <2>1, NoCallType DEF CondSignalIsr, TypeOK, Place
<1>20. ASSUME NEW c \in NmiCond, CondSignalNmi(c) PROVE TypeOK'
  BY <1>20 DEF CondSignalNmi, TypeOK
<1>21. CASE TimerIntr
  <2>1. (tickCount + 1) % Wrap \in Tick
    BY TickAssumption DEF TypeOK, Tick
  <2> QED
    BY <1>21, <2>1 DEF TimerIntr, TypeOK, Place
<1>22. CASE UNCHANGED vars
  BY <1>22 DEF vars, TypeOK
<1> QED
  BY <1>1, <1>2, <1>3, <1>4, <1>5, <1>6, <1>7, <1>8, <1>9, <1>10, <1>11,
     <1>12, <1>13, <1>14, <1>15, <1>16, <1>17, <1>18, <1>19, <1>20, <1>21,
     <1>22 DEF Next, Process, Masked, Interrupt

(* The process table, every queue and every flag of the kernel keep their   *)
(* types whatever the processes, the handlers and the NMI do.               *)
THEOREM TypeCorrect == Spec => []TypeOK
<1>1. Init => TypeOK
  BY InitType
<1>2. TypeOK /\ [Next]_vars => TypeOK'
  BY NextType
<1> QED
  BY <1>1, <1>2, PTL DEF Spec

-----------------------------------------------------------------------------
(* No signal is left behind a parked waiter.  NoStrandedSignal alone is not *)
(* inductive: a waiter may be about to park on a condition whose flag is    *)
(* set, and the scan must start at condition 0.                             *)

\* Outside a wait and a scan no condition is being worked on.
CallFree == at \in {"user", "sched", "sleep_clock", "cond_clock"} => call = NoCall

\* A flag raised since wait() tested it was raised by the NMI, which has
\* asked for a scan.
LateSignal == at = "wait_park" /\ pending[call.cond] => nmiPending

DeliveryInv == TypeOK /\ CallFree /\ LateSignal /\ NoStrandedSignal

LEMMA InitDelivery == Init => DeliveryInv
<1> SUFFICES ASSUME Init PROVE DeliveryInv
  OBVIOUS
<1>1. TypeOK
  BY InitType
<1>2. CallFree /\ LateSignal /\ NoStrandedSignal
  BY DEF Init, CallFree, LateSignal, NoStrandedSignal
<1> QED
  BY <1>1, <1>2 DEF DeliveryInv

(* A step of masked or user code that ends in a state of CallFree's kind,   *)
(* raises no flag and parks nobody keeps the promise, unless it took away   *)
(* the scan that was owed.                                                  *)
LEMMA QuietStep ==
    ASSUME TypeOK, NoStrandedSignal,
           at \notin {"scan", "scan_wake", "wake_all"},
           \A c \in Cond : pending'[c] => pending[c],
           \A c \in Cond : condQ[c] = <<>> => condQ'[c] = <<>>,
           nmiPending' = nmiPending
    PROVE  NoStrandedSignal'
BY DEF NoStrandedSignal

LEMMA NextDelivery == DeliveryInv /\ [Next]_vars => DeliveryInv'
<1> SUFFICES ASSUME DeliveryInv, [Next]_vars PROVE DeliveryInv'
  OBVIOUS
<1> USE DEF sched_, sync, conds, time, client
<1>1. TypeOK /\ CallFree /\ LateSignal /\ NoStrandedSignal
  BY DEF DeliveryInv
<1>2. TypeOK'
  BY <1>1, NextType
<1> SUFFICES CallFree' /\ LateSignal' /\ NoStrandedSignal'
  BY <1>2 DEF DeliveryInv
<1> HIDE DEF DeliveryInv
<1>3. ASSUME NEW s \in Semaphore, SemWait(s)
      PROVE  CallFree' /\ LateSignal' /\ NoStrandedSignal'
  <2>1. /\ at = "user" /\ at' \in {"user", "sched"} /\ call' = call
        /\ UNCHANGED <<condQ, pending, nmiPending>>
    BY <1>3 DEF SemWait, Running
  <2> QED
    BY <1>1, <2>1, QuietStep DEF CallFree, LateSignal
<1>4. ASSUME NEW s \in Counting, SemSignal(s)
      PROVE  CallFree' /\ LateSignal' /\ NoStrandedSignal'
  <2>1. /\ at = "user" /\ at' \in {"user", "sched"} /\ call' = call
        /\ UNCHANGED <<condQ, pending, nmiPending>>
    BY <1>4 DEF SemSignal, Running, ReschedOrReturn
  <2> QED
    BY <1>1, <2>1, QuietStep DEF CallFree, LateSignal
<1>5. ASSUME NEW m \in Mutex, MutexUnlock(m)
      PROVE  CallFree' /\ LateSignal' /\ NoStrandedSignal'
  <2>1. /\ at = "user" /\ at' \in {"user", "sched"} /\ call' = call
        /\ UNCHANGED <<condQ, pending, nmiPending>>
    BY <1>5 DEF MutexUnlock, Running, ReschedOrReturn
  <2> QED
    BY <1>1, <2>1, QuietStep DEF CallFree, LateSignal
<1>6. CASE SemWaitReturn \/ WaitReturn \/ SleepReturn
  <2>1. at = "user" /\ UNCHANGED <<at, call, condQ, pending, nmiPending>>
    BY <1>6 DEF SemWaitReturn, WaitReturn, SleepReturn, Running
  <2> QED
    BY <1>1, <2>1, QuietStep DEF CallFree, LateSignal
<1>7. ASSUME NEW c \in Cond, NEW m \in Mutex \cup {MutexNone},
             NEW d \in Delay \cup {Forever}, CondWait(c, m, d)
      PROVE  CallFree' /\ LateSignal' /\ NoStrandedSignal'
  <2>1. /\ at = "user" /\ call'.cond = c
        /\ at' = IF pending[c] THEN "wait_clear" ELSE "wait_park"
        /\ UNCHANGED <<condQ, pending, nmiPending>>
    BY <1>7 DEF CondWait, Running
  <2> QED
    BY <1>1, <2>1, QuietStep DEF CallFree, LateSignal
<1>8. ASSUME NEW d \in Delay, Sleep(d)
      PROVE  CallFree' /\ LateSignal' /\ NoStrandedSignal'
  <2>1. /\ at = "user" /\ at' = "sched" /\ call' = call
        /\ UNCHANGED <<condQ, pending, nmiPending>>
    BY <1>8 DEF Sleep, Running
  <2> QED
    BY <1>1, <2>1, QuietStep DEF CallFree, LateSignal
<1>9. ASSUME NEW c \in Cond, CondSignal(c)
      PROVE  CallFree' /\ LateSignal' /\ NoStrandedSignal'
  <2>1. /\ at = "user" /\ at' \in {"user", "sched"} /\ call' = call
        /\ condQ' = [condQ EXCEPT ![c] = Rest(@)]
        /\ UNCHANGED <<pending, nmiPending>>
    BY <1>9 DEF CondSignal, Running, ReschedOrReturn
  <2>2. \A e \in Cond : condQ[e] = <<>> => condQ'[e] = <<>>
    BY <1>1, <2>1 DEF Rest, TypeOK
  <2> QED
    BY <1>1, <2>1, <2>2, QuietStep DEF CallFree, LateSignal
<1>10. ASSUME NEW c \in Cond, CondBroadcast(c)
       PROVE  CallFree' /\ LateSignal' /\ NoStrandedSignal'
  <2>1. /\ at = "user" /\ at' = "wake_all"
        /\ UNCHANGED <<condQ, pending, nmiPending>>
    BY <1>10 DEF CondBroadcast, Running
  <2> QED
    BY <1>1, <2>1, QuietStep DEF CallFree, LateSignal
<1>11. CASE WaitClear
  <2>1. /\ at = "wait_clear" /\ at' = "user" /\ call' = NoCall
        /\ pending' = [pending EXCEPT ![call.cond] = FALSE]
        /\ UNCHANGED <<condQ, nmiPending>>
    BY <1>11 DEF WaitClear
  <2>2. \A c \in Cond : pending'[c] => pending[c]
    BY <1>1, <2>1 DEF TypeOK
  <2> QED
    BY <1>1, <2>1, <2>2, QuietStep DEF CallFree, LateSignal
<1>12. CASE WaitPark
  <2>1. /\ at = "wait_park" /\ at' = "sched" /\ call' = NoCall
        /\ condQ' = [condQ EXCEPT ![call.cond] = proc_enqueue(@, curr)]
        /\ UNCHANGED <<pending, nmiPending>>
    BY <1>12 DEF WaitPark
  <2>2. ASSUME NEW c \in Cond, pending'[c], condQ'[c] # <<>>
        PROVE  nmiPending'
    <3>1. CASE c = call.cond
      BY <1>1, <2>1, <2>2, <3>1 DEF LateSignal
    <3>2. CASE c # call.cond
      BY <1>1, <2>1, <2>2, <3>2 DEF NoStrandedSignal, TypeOK
    <3> QED
      BY <3>1, <3>2
  <2> QED
    BY <2>1, <2>2 DEF CallFree, LateSignal, NoStrandedSignal
<1>13. CASE WakeAll
  <2> DEFINE e == call.cond
  <2>1. at = "wake_all" /\ e \in Cond /\ UNCHANGED <<pending, nmiPending>>
    BY <1>1, <1>13 DEF WakeAll, TypeOK
  <2>2. CASE condQ[e] # <<>>
    <3>1. at' = at /\ call' = call /\ condQ' = [condQ EXCEPT ![e] = Rest(@)]
      BY <1>13, <2>2 DEF WakeAll
    <3>2. \A c \in Cond : condQ[c] = <<>> => condQ'[c] = <<>>
      BY <1>1, <3>1 DEF Rest, TypeOK
    <3> QED
      BY <1>1, <2>1, <3>1, <3>2 DEF CallFree, LateSignal, NoStrandedSignal
  <2>3. CASE condQ[e] = <<>>
    <3>1. condQ' = condQ /\ call' = NoCall /\ at' \in {"user", "sched"}
      BY <1>13, <2>3 DEF WakeAll, ReschedOrReturn
    <3> QED
      BY <1>1, <2>1, <2>3, <3>1 DEF CallFree, LateSignal, NoStrandedSignal
  <2> QED
    BY <2>2, <2>3
<1>14. CASE SleepClock
  <2>1. /\ at = "sleep_clock" /\ at' \in {"sleep_clock", "cond_clock"}
        /\ UNCHANGED <<call, pending, nmiPending>>
    BY <1>14 DEF SleepClock
  <2>2. \A c \in Cond : condQ[c] = <<>> => condQ'[c] = <<>>
    <3>1. CASE sleepList # <<>> /\ Due(Head(sleepList))
      <4>1. condQ' = [c \in Cond |-> proc_remove(condQ[c], Head(sleepList))]
        BY <1>14, <3>1 DEF SleepClock
      <4>2. \A c \in Cond : condQ[c] \in Seq(Proc)
        BY <1>1 DEF TypeOK
      <4> QED
        BY <4>1, <4>2, RemoveProperties
    <3>2. CASE ~(sleepList # <<>> /\ Due(Head(sleepList)))
      BY <1>14, <3>2 DEF SleepClock
    <3> QED
      BY <3>1, <3>2
  <2> QED
    BY <1>1, <2>1, <2>2, QuietStep DEF CallFree, LateSignal
<1>15. CASE CondClock
  <2>1. /\ at = "cond_clock" /\ call = NoCall
        /\ at' = IF nmiPending THEN "scan" ELSE "sched"
        /\ UNCHANGED <<call, condQ, pending>>
    BY <1>1, <1>15 DEF CondClock, CallFree
  <2>2. \A c \in Cond : call.cond <= c
    BY <2>1 DEF NoCall, Cond
  <2> QED
    BY <1>1, <2>1, <2>2 DEF CallFree, LateSignal, NoStrandedSignal
<1>16. CASE Scan
  <2> DEFINE e == call.cond
  <2>1. at = "scan" /\ e \in Cond /\ UNCHANGED <<condQ, pending, nmiPending>>
    BY <1>1, <1>16 DEF Scan, TypeOK
  <2>2. CASE pending[e] /\ condQ[e] # <<>>
    <3>1. at' = "scan_wake" /\ call' = call
      BY <1>16, <2>2 DEF Scan
    <3> QED
      BY <1>1, <2>1, <3>1 DEF CallFree, LateSignal, NoStrandedSignal
  <2>3. CASE ~(pending[e] /\ condQ[e] # <<>>)
    <3>1. NextCond
      BY <1>16, <2>3 DEF Scan
    <3>2. /\ at' \in {"scan", "sched"} /\ (at' = "sched" => call' = NoCall)
          /\ at' = "scan" => call'.cond = e + 1
          /\ at' = "sched" => e + 1 >= NCond
      BY <1>1, <2>1, <3>1, SyncAssumption DEF NextCond, TypeOK, Cond
    <3>3. ASSUME NEW c \in Cond, pending'[c], condQ'[c] # <<>>, ~nmiPending'
          PROVE  at' = "scan" /\ call'.cond <= c
      <4>1. pending[c] /\ condQ[c] # <<>> /\ ~nmiPending /\ c # e
        BY <2>1, <2>3, <3>3
      <4>2. e < c
        BY <1>1, <2>1, <4>1, SyncAssumption DEF NoStrandedSignal, Cond
      <4> QED
        BY <2>1, <3>2, <4>2, SyncAssumption DEF Cond
    <3> QED
      BY <3>2, <3>3 DEF CallFree, LateSignal, NoStrandedSignal
  <2> QED
    BY <2>2, <2>3
<1>17. CASE ScanWake
  <2> DEFINE e == call.cond
  <2>1. at = "scan_wake" /\ e \in Cond /\ nmiPending' = nmiPending
    BY <1>1, <1>17 DEF ScanWake, TypeOK
  <2>2. CASE condQ[e] # <<>>
    <3>1. /\ at' = at /\ call' = call /\ pending' = pending
          /\ condQ' = [condQ EXCEPT ![e] = Rest(@)]
      BY <1>17, <2>2 DEF ScanWake
    <3>2. \A c \in Cond : condQ[c] = <<>> => condQ'[c] = <<>>
      BY <1>1, <3>1 DEF Rest, TypeOK
    <3> QED
      BY <1>1, <2>1, <3>1, <3>2 DEF CallFree, LateSignal, NoStrandedSignal
  <2>3. CASE condQ[e] = <<>>
    <3>1. NextCond /\ condQ' = condQ /\ pending' = [pending EXCEPT ![e] = FALSE]
      BY <1>17, <2>3 DEF ScanWake
    <3>2. /\ at' \in {"scan", "sched"} /\ (at' = "sched" => call' = NoCall)
          /\ at' = "scan" => call'.cond = e + 1
          /\ at' = "sched" => e + 1 >= NCond
      BY <1>1, <2>1, <3>1, SyncAssumption DEF NextCond, TypeOK, Cond
    <3>3. \A c \in Cond : pending'[c] => pending[c] /\ c # e
      BY <1>1, <3>1 DEF TypeOK
    <3>4. ASSUME NEW c \in Cond, pending'[c], condQ'[c] # <<>>, ~nmiPending'
          PROVE  at' = "scan" /\ call'.cond <= c
      <4>1. pending[c] /\ condQ[c] # <<>> /\ ~nmiPending /\ c # e
        BY <2>1, <3>1, <3>3, <3>4
      <4>2. e < c
        BY <1>1, <2>1, <4>1, SyncAssumption DEF NoStrandedSignal, Cond
      <4> QED
        BY <2>1, <3>2, <4>2, SyncAssumption DEF Cond
    <3> QED
      BY <3>2, <3>4 DEF CallFree, LateSignal, NoStrandedSignal
  <2> QED
    BY <2>2, <2>3
<1>18. CASE Sched
  <2>1. /\ at = "sched" /\ at' = "user"
        /\ UNCHANGED <<call, condQ, pending, nmiPending>>
    BY <1>18 DEF Sched
  <2> QED
    BY <1>1, <2>1, QuietStep DEF CallFree, LateSignal
<1>19. ASSUME NEW c \in IsrCond, CondSignalIsr(c)
       PROVE  CallFree' /\ LateSignal' /\ NoStrandedSignal'
  <2>1. /\ at = "user" /\ at' = "wake_all" /\ call'.cond = c
        /\ pending' = [pending EXCEPT ![c] = TRUE]
        /\ UNCHANGED <<condQ, nmiPending>>
    BY <1>19 DEF CondSignalIsr, NoCall
  <2> QED
    BY <1>1, <2>1 DEF CallFree, LateSignal, NoStrandedSignal, TypeOK
<1>20. ASSUME NEW c \in NmiCond, CondSignalNmi(c)
       PROVE  CallFree' /\ LateSignal' /\ NoStrandedSignal'
  <2>1. nmiPending' = TRUE /\ UNCHANGED <<at, call>>
    BY <1>20 DEF CondSignalNmi
  <2> QED
    BY <1>1, <2>1 DEF CallFree, LateSignal, NoStrandedSignal
<1>21. CASE TimerIntr
  <2>1. /\ at = "user" /\ at' = "sleep_clock"
        /\ UNCHANGED <<call, condQ, pending, nmiPending>>
    BY <1>21 DEF TimerIntr
  <2> QED
    BY <1>1, <2>1, QuietStep DEF CallFree, LateSignal
<1>22. CASE UNCHANGED vars
  BY <1>1, <1>22 DEF vars, CallFree, LateSignal, NoStrandedSignal
<1> QED
  BY <1>3, <1>4, <1>5, <1>6, <1>7, <1>8, <1>9, <1>10, <1>11, <1>12, <1>13,
     <1>14, <1>15, <1>16, <1>17, <1>18, <1>19, <1>20, <1>21, <1>22
     DEF Next, Process, Masked, Interrupt

(* cond.c's promise about signals that disable() cannot hold off: whenever  *)
(* a signal is kept in pending while somebody is parked on the condition, a *)
(* tick still to come, or the scan of the one under way, will deliver it.   *)
THEOREM DeliveryPromise == Spec => []NoStrandedSignal
<1>1. Init => DeliveryInv
  BY InitDelivery
<1>2. DeliveryInv /\ [Next]_vars => DeliveryInv'
  BY NextDelivery
<1>3. DeliveryInv => NoStrandedSignal
  BY DEF DeliveryInv
<1> QED
  BY <1>1, <1>2, <1>3, PTL DEF Spec
=============================================================================
