------------------------ MODULE FwIsoCtxQueueProofs ------------------------
(***************************************************************************)
(* What is proved about handing chunks to the hardware, for any entries    *)
(* and any buffer, and the facts about rings, induction and recursive      *)
(* functions that this and the proofs about the contexts rest on.          *)
(***************************************************************************)
EXTENDS FwIsoCtxQueue, WellFoundedInduction, SequenceTheorems, TLAPS

-----------------------------------------------------------------------------
(***************************************************************************)
(* Remainders.  The provers know the remainder only by its definition;     *)
(* each of these follows from the uniqueness of quotient and remainder.    *)
(***************************************************************************)
\* A number is its quotient times the divisor plus its remainder.
LEMMA DivisionFacts ==
  ASSUME NEW a \in Int, NEW n \in Nat \ {0}
  PROVE  /\ a \div n \in Int
         /\ a % n \in 0..(n - 1)
         /\ a = n * (a \div n) + (a % n)
  OBVIOUS

\* A remainder below the divisor is the only one.
LEMMA RemainderUnique ==
  ASSUME NEW n \in Nat \ {0}, NEW q \in Int, NEW r \in 0..(n - 1)
  PROVE  (n * q + r) % n = r
  BY SMTT(30)

\* A number below the divisor is its own remainder.
LEMMA RemainderSmall ==
  ASSUME NEW n \in Nat \ {0}, NEW a \in 0..(n - 1)
  PROVE  a % n = a
  BY SMTT(30)

\* Taking the remainder before adding does not matter: the step of a ring.
LEMMA RemainderOfSum ==
  ASSUME NEW n \in Nat \ {0}, NEW a \in Nat, NEW k \in Nat
  PROVE  ((a % n) + k) % n = (a + k) % n
<1> DEFINE qa == a \div n
           ra == a % n
           q  == (ra + k) \div n
           r  == (ra + k) % n
<1>1. qa \in Int /\ ra \in 0..(n - 1) /\ a = n * qa + ra
  BY DivisionFacts
<1>2. ra + k \in Int
  BY <1>1
<1>3. q \in Int /\ r \in 0..(n - 1) /\ ra + k = n * q + r
  BY <1>2, DivisionFacts
<1> HIDE DEF qa, ra, q, r
<1>4. a + k = n * (qa + q) + r
  BY <1>1, <1>3
<1>5. (n * (qa + q) + r) % n = r
  <2>1. qa + q \in Int
    BY <1>1, <1>3
  <2> QED
    BY <2>1, <1>3, RemainderUnique
<1>6. (a + k) % n = (ra + k) % n
  BY <1>4, <1>5 DEF r
<1> QED
  BY <1>6 DEF ra

\* Less than one round further along the ring is another place.
LEMMA RemainderDistinct ==
  ASSUME NEW n \in Nat \ {0}, NEW a \in Nat, NEW d \in 1..(n - 1)
  PROVE  (a + d) % n # a % n
<1> DEFINE ra == a % n
<1>1. ra \in 0..(n - 1)
  BY DivisionFacts
<1>2. (a + d) % n = (ra + d) % n
  <2>1. d \in Nat
    OBVIOUS
  <2> QED
    BY <2>1, RemainderOfSum
<1> HIDE DEF ra
<1>3. CASE ra + d < n
  <2>1. (ra + d) % n = ra + d
    BY <1>1, <1>3, RemainderSmall
  <2> QED
    BY <1>1, <1>2, <2>1 DEF ra
<1>4. CASE ra + d >= n
  <2>1. ra + d - n \in 0..(n - 1)
    BY <1>1, <1>4
  <2>2. (n * 1 + (ra + d - n)) % n = ra + d - n
    BY <2>1, RemainderUnique
  <2>3. (ra + d) % n = ra + d - n
    BY <1>1, <2>2
  <2> QED
    BY <1>1, <1>2, <2>3 DEF ra
<1> QED
  BY <1>1, <1>3, <1>4

\* Less than a round apart, and both within the buffer, two stretches do not meet.
LEMMA StretchesApart ==
  ASSUME NEW n \in Nat \ {0}, NEW a \in Nat, NEW l \in Nat, NEW b \in Nat, NEW m \in Nat,
         a + l <= b, b + m <= a + n, (a % n) + l <= n, (b % n) + m <= n,
         NEW x \in Int, a % n <= x, x < (a % n) + l, b % n <= x, x < (b % n) + m
  PROVE  FALSE
<1> DEFINE p == a \div n
           q == b \div n
           u == a % n
           v == b % n
<1>1. /\ p \in Int /\ u \in Int /\ a = n * p + u
      /\ q \in Int /\ v \in Int /\ b = n * q + v
  BY DivisionFacts
<1>2. u + l <= n /\ v + m <= n /\ u <= x /\ x < u + l /\ v <= x /\ x < v + m
  OBVIOUS
<1> HIDE DEF p, q, u, v
<1>3. n * p + x < n * q + x
  BY <1>1, <1>2
<1>4. n * q + x < n * p + n + x
  BY <1>1, <1>2
<1>5. n * p \in Int /\ n * q \in Int
  BY <1>1
<1>6. n * (q - p) = n * q - n * p
  BY <1>1
<1>7. 0 < n * (q - p) /\ n * (q - p) < n
  BY <1>3, <1>4, <1>5, <1>6
<1>8. CASE q - p <= 0
  BY <1>1, <1>7, <1>8
<1>9. CASE q - p >= 1
  BY <1>1, <1>7, <1>9
<1> QED BY <1>1, <1>8, <1>9

-----------------------------------------------------------------------------
(***************************************************************************)
(* Induction over the natural numbers, for a set in the place of the       *)
(* predicate, from the well-foundedness of the order.                      *)
(***************************************************************************)
LEMMA Induction ==
  ASSUME NEW S, 0 \in S, \A n \in Nat : n \in S => n + 1 \in S
  PROVE  \A n \in Nat : n \in S
<1> DEFINE T == {n \in Nat : n \notin S}
           R == {ss \in Nat \X Nat : ss[1] < ss[2]}
<1>1. IsWellFoundedOn(R, Nat)
  BY NatLessThanWellFounded DEF OpToRel
<1> SUFFICES ASSUME T # {}  PROVE FALSE
  OBVIOUS
<1>2. T \subseteq Nat
  OBVIOUS
<1> HIDE DEF T, R
<1>3. PICK x \in T : \A y \in T : <<y, x>> \notin R
  BY <1>1, <1>2, WFMin
<1>4. x \in Nat /\ x # 0
  BY <1>2 DEF T
<1>5. x - 1 \in T
  BY <1>3, <1>4 DEF T
<1>6. <<x - 1, x>> \in R
  BY <1>4 DEF R
<1> QED BY <1>3, <1>5, <1>6

\* Of a bounded set of natural numbers, the first one from a given place.
LEMMA FirstFrom ==
  ASSUME NEW S, NEW a \in Nat, NEW b \in Nat, a <= b, b \in S
  PROVE  \E n \in a..b : n \in S /\ \A i \in a..(n - 1) : i \notin S
<1> DEFINE T == {n \in Nat : n \in a..b => \E i \in a..n : i \in S}
<1> SUFFICES ASSUME \A n \in a..b : n \in S => \E i \in a..(n - 1) : i \in S
             PROVE  FALSE
  OBVIOUS
<1> DEFINE N == {n \in Nat : \A i \in a..b : i <= n => i \notin S}
<1>1. 0 \in N
  OBVIOUS
<1>2. ASSUME NEW n \in Nat, n \in N  PROVE n + 1 \in N
  <2> SUFFICES ASSUME NEW i \in a..b, i <= n + 1, i \in S  PROVE FALSE
    OBVIOUS
  <2>1. PICK j \in a..(i - 1) : j \in S
    OBVIOUS
  <2> QED BY <1>2, <2>1
<1> HIDE DEF N
<1>3. b \in N
  BY <1>1, <1>2, Induction
<1> QED BY <1>3 DEF N

(***************************************************************************)
(* A function that is defined from its value before: it exists.            *)
(***************************************************************************)
Iterates(f, S, base, step, n) ==
  /\ f \in [0..n -> S]
  /\ f[0] = base
  /\ \A i \in 1..n : f[i] = step[i][f[i - 1]]

LEMMA Iteration ==
  ASSUME NEW S, NEW base \in S, NEW n \in Nat, NEW step \in [1..n -> [S -> S]]
  PROVE  \E f : Iterates(f, S, base, step, n)
<1> DEFINE N == {m \in Nat : m <= n => \E f : Iterates(f, S, base, step, m)}
<1>1. 0 \in N
  <2> DEFINE f == [i \in 0..0 |-> base]
  <2>1. Iterates(f, S, base, step, 0)
    BY DEF Iterates
  <2> HIDE DEF f
  <2> QED BY <2>1
<1>2. ASSUME NEW m \in Nat, m \in N  PROVE m + 1 \in N
  <2> SUFFICES ASSUME m + 1 <= n  PROVE \E f : Iterates(f, S, base, step, m + 1)
    OBVIOUS
  <2>0. m <= n
    OBVIOUS
  <2>1. PICK f : Iterates(f, S, base, step, m)
    BY <1>2, <2>0
  <2>2. f \in [0..m -> S] /\ f[0] = base /\ \A i \in 1..m : f[i] = step[i][f[i - 1]]
    BY <2>1 DEF Iterates
  <2> DEFINE last == step[m + 1][f[m]]
             g == [i \in 0..(m + 1) |-> IF i <= m THEN f[i] ELSE last]
  <2>3. last \in S
    <3>1. m + 1 \in 1..n /\ m \in 0..m
      OBVIOUS
    <3>2. f[m] \in S
      BY <2>2, <3>1
    <3> QED BY <3>1, <3>2
  <2> HIDE DEF last
  <2>4. g \in [0..(m + 1) -> S] /\ g[0] = base
    BY <2>2, <2>3
  <2>5. ASSUME NEW i \in 1..(m + 1)  PROVE g[i] = step[i][g[i - 1]]
    <3>1. CASE i <= m
      BY <2>2, <3>1
    <3>2. CASE i = m + 1
      <4>1. g[i] = last /\ g[i - 1] = f[m]
        BY <3>2
      <4> QED BY <4>1, <3>2 DEF last
    <3> QED BY <3>1, <3>2
  <2> HIDE DEF g
  <2>6. Iterates(g, S, base, step, m + 1)
    BY <2>4, <2>5 DEF Iterates
  <2> QED BY <2>6
<1> HIDE DEF N
<1>3. n \in N
  BY <1>1, <1>2, Induction
<1> QED BY <1>3 DEF N

-----------------------------------------------------------------------------
(***************************************************************************)
(* Sequences joined and cut.                                               *)
(***************************************************************************)
LEMMA Concatenation ==
  ASSUME NEW H, NEW a \in Seq(H), NEW b \in Seq(H)
  PROVE  /\ a \o b \in Seq(H) /\ Len(a \o b) = Len(a) + Len(b)
         /\ \A k \in 1..Len(a) : (a \o b)[k] = a[k]
         /\ \A k \in (Len(a) + 1)..(Len(a) + Len(b)) : (a \o b)[k] = b[k - Len(a)]
  OBVIOUS

LEMMA CutSequence ==
  ASSUME NEW S, NEW s \in Seq(S), NEW c \in 1..Len(s)
  PROVE  /\ SubSeq(s, 1, c) \in Seq(S)
         /\ Len(SubSeq(s, 1, c)) = c
         /\ \A i \in 1..c : SubSeq(s, 1, c)[i] = s[i]
         /\ SubSeq(s, c + 1, Len(s)) \in Seq(S)
         /\ Len(SubSeq(s, c + 1, Len(s))) = Len(s) - c
         /\ \A i \in 1..(Len(s) - c) : SubSeq(s, c + 1, Len(s))[i] = s[c + i]
<1>1. Len(s) \in Nat /\ \A i \in 1..Len(s) : s[i] \in S
  OBVIOUS
<1>2. SubSeq(s, 1, c) \in Seq(S) /\ Len(SubSeq(s, 1, c)) = c
      /\ \A i \in 1..c : SubSeq(s, 1, c)[i] = s[i]
  <2>1. \A i \in 1..c : s[i] \in S
    BY <1>1
  <2> QED
    BY <1>1, <2>1
<1>3. /\ SubSeq(s, c + 1, Len(s)) \in Seq(S)
      /\ Len(SubSeq(s, c + 1, Len(s))) = Len(s) - c
      /\ \A i \in 1..(Len(s) - c) : SubSeq(s, c + 1, Len(s))[i] = s[c + i]
  BY <1>1, SubSeqProperties
<1> QED
  BY <1>2, <1>3

-----------------------------------------------------------------------------
(***************************************************************************)
(* Entries have a payload length, and the lengths add up.                  *)
(***************************************************************************)
IsEntries(data) ==
  Len(data) \in Nat /\ \A k \in 1..Len(data) : data[k].len \in Nat

LEMMA BytesFacts ==
  ASSUME NEW data, IsEntries(data)
  PROVE  /\ \A k \in 0..Len(data) : Bytes(data, k) \in Nat
         /\ Bytes(data, 0) = 0
         /\ \A k \in 1..Len(data) : Bytes(data, k) = Bytes(data, k - 1) + data[k].len
<1> DEFINE n == Len(data)
           step == [i \in 1..n |-> [x \in Nat |-> x + data[i].len]]
           Sum(f) == [i \in 0..n |-> IF i = 0 THEN 0 ELSE f[i - 1] + data[i].len]
           sum[i \in 0..n] == IF i = 0 THEN 0 ELSE sum[i - 1] + data[i].len
<1>0. n \in Nat
  BY DEF IsEntries
<1>1. step \in [1..n -> [Nat -> Nat]]
  BY DEF IsEntries
<1>2. \A k \in 0..n : Bytes(data, k) = sum[k]
  BY DEF Bytes
<1>3. \E f : f = Sum(f)
  <2>1. PICK f : Iterates(f, Nat, 0, step, n)
    BY <1>0, <1>1, Iteration
  <2>2. f \in [0..n -> Nat] /\ f[0] = 0 /\ \A i \in 1..n : f[i] = step[i][f[i - 1]]
    BY <2>1 DEF Iterates
  <2>3. ASSUME NEW i \in 1..n  PROVE f[i] = f[i - 1] + data[i].len
    <3>1. f[i - 1] \in Nat
      <4>1. f \in [0..n -> Nat] /\ i - 1 \in 0..n
        BY <1>0, <2>2
      <4> HIDE DEF n
      <4> QED BY <4>1
    <3> QED BY <2>2, <3>1
  <2>4. f = Sum(f)
    BY <1>0, <2>2, <2>3
  <2> QED BY <2>4
<1>4. sum = Sum(sum)
  BY <1>3
<1> HIDE DEF sum
<1>5. sum[0] = 0
  BY <1>0, <1>4
<1>6. \A i \in 1..n : sum[i] = sum[i - 1] + data[i].len
  BY <1>0, <1>4
<1> DEFINE N == {j \in Nat : j <= n => sum[j] \in Nat}
<1>7. \A k \in Nat : k \in N
  <2>1. 0 \in N
    BY <1>5
  <2>2. ASSUME NEW m \in Nat, m \in N  PROVE m + 1 \in N
    BY <1>0, <1>6, <2>2 DEF IsEntries
  <2> HIDE DEF N
  <2> QED BY <2>1, <2>2, Induction
<1>8. \A k \in 0..n : sum[k] \in Nat
  BY <1>0, <1>7
<1> HIDE DEF n
<1> HIDE DEF N
<1>9. \A k \in 0..n : Bytes(data, k) \in Nat
  BY <1>2, <1>8
<1>10. Bytes(data, 0) = 0
  BY <1>0, <1>2, <1>5
<1>11. ASSUME NEW k \in 1..n  PROVE Bytes(data, k) = Bytes(data, k - 1) + data[k].len
  <2>1. k \in 0..n /\ k - 1 \in 0..n
    BY <1>0
  <2> QED BY <1>2, <1>6, <2>1
<1> QED BY <1>9, <1>10, <1>11 DEF n

\* A batch ends where it has to: everything before was taken, and what follows is not.
LEMMA BatchEndFacts ==
  ASSUME NEW data, IsEntries(data), NEW from \in 0..Len(data), NEW offset, NEW size
  PROVE  LET to == BatchEnd(data, from, offset, size)
         IN  /\ to \in from..Len(data)
             /\ \A k \in (from + 1)..to : Takes(data, from, offset, size, k)
             /\ to = Len(data) \/ ~Takes(data, from, offset, size, to + 1)
<1> DEFINE n == Len(data)
           T(k) == Takes(data, from, offset, size, k)
           S == {k \in from..n : k = n \/ ~T(k + 1)}
<1>1. n \in Nat /\ from \in Nat /\ from <= n
  BY DEF IsEntries
<1>2. n \in S
  BY <1>1
<1> HIDE DEF S
<1>3. PICK to \in from..n : to \in S /\ \A i \in from..(to - 1) : i \notin S
  <2> HIDE DEF n
  <2> QED BY <1>1, <1>2, FirstFrom
<1>4. \A k \in (from + 1)..to : T(k)
  <2> SUFFICES ASSUME NEW k \in (from + 1)..to  PROVE T(k)
    OBVIOUS
  <2>1. k - 1 \in from..(to - 1) /\ k - 1 \in from..n /\ (k - 1) + 1 = k /\ k - 1 # n
    BY <1>1
  <2> HIDE DEF n, T
  <2>2. T((k - 1) + 1)
    BY <1>3, <2>1 DEF S
  <2> QED BY <2>1, <2>2
<1>5. to = n \/ ~T(to + 1)
  BY <1>3 DEF S
<1> HIDE DEF T
<1>6. \E x \in from..n : (\A k \in (from + 1)..x : T(k)) /\ (x = n \/ ~T(x + 1))
  BY <1>3, <1>4, <1>5
<1> USE DEF T
<1>7. LET x == BatchEnd(data, from, offset, size)
      IN  x \in from..n /\ (\A k \in (from + 1)..x : T(k)) /\ (x = n \/ ~T(x + 1))
  BY <1>6 DEF BatchEnd
<1> QED BY <1>7

LEMMA BytesGrow ==
  ASSUME NEW data, IsEntries(data), NEW j \in 0..Len(data), NEW k \in j..Len(data)
  PROVE  Bytes(data, j) <= Bytes(data, k)
<1> DEFINE n == Len(data)
           N == {m \in Nat : j + m <= n => Bytes(data, j) <= Bytes(data, j + m)}
<1>1. n \in Nat /\ j \in Nat /\ \A i \in 1..n : data[i].len \in Nat
  BY DEF IsEntries
<1>2. /\ \A i \in 0..n : Bytes(data, i) \in Nat
      /\ \A i \in 1..n : Bytes(data, i) = Bytes(data, i - 1) + data[i].len
  BY BytesFacts
<1>3. 0 \in N
  BY <1>1, <1>2
<1>4. ASSUME NEW m \in Nat, m \in N  PROVE m + 1 \in N
  <2> SUFFICES ASSUME j + (m + 1) <= n  PROVE Bytes(data, j) <= Bytes(data, j + (m + 1))
    OBVIOUS
  <2>1. j + (m + 1) \in 1..n /\ j + m \in 0..n /\ (j + (m + 1)) - 1 = j + m
    BY <1>1
  <2>2. Bytes(data, j) <= Bytes(data, j + m)
    BY <1>4, <2>1
  <2>3. Bytes(data, j + (m + 1)) = Bytes(data, j + m) + data[j + (m + 1)].len
    BY <1>2, <2>1
  <2> QED BY <1>1, <1>2, <2>1, <2>2, <2>3
<1> HIDE DEF N
<1>5. \A m \in Nat : m \in N
  BY <1>3, <1>4, Induction
<1>6. k - j \in Nat /\ j + (k - j) = k /\ k <= n
  BY <1>1
<1>7. j + (k - j) <= n => Bytes(data, j) <= Bytes(data, j + (k - j))
  BY <1>5, <1>6 DEF N
<1> QED BY <1>6, <1>7

(***************************************************************************)
(* What queue_chunks may be called with: the payloads fit into the buffer  *)
(* and it starts inside.                                                   *)
(***************************************************************************)
Queueable(s) ==
  /\ IsEntries(s.data)
  /\ BytesPerBuffer(s) \in Nat \ {0}
  /\ \A k \in 1..Len(s.data) : s.data[k].len <= BytesPerBuffer(s)
  /\ s.curr_offset \in 0..(BytesPerBuffer(s) - 1)

\* Where the payload behind the first k entries begins when they follow each other.
PlaceBehind(s, k) == (s.curr_offset + Bytes(s.data, k)) % BytesPerBuffer(s)

NoneCrosses(s) ==
  \A k \in 1..Len(s.data) : PlaceBehind(s, k - 1) + s.data[k].len <= BytesPerBuffer(s)

(***************************************************************************)
(* The states of the loop between two batches.                             *)
(***************************************************************************)
Between(s) ==
  {q \in [taken  : 0..Len(s.data),
          offset : 0..(BytesPerBuffer(s) - 1),
          handed : Seq([e  : {s.data[k] : k \in 1..Len(s.data)},
                        at : 0..(BytesPerBuffer(s) - 1)])] :
     /\ Len(q.handed) = q.taken
     /\ \A k \in 1..q.taken :
          /\ q.handed[k].e = s.data[k]
          /\ q.handed[k].at + s.data[k].len <= BytesPerBuffer(s)
     /\ NoneCrosses(s) =>
          /\ q.offset = PlaceBehind(s, q.taken)
          /\ \A k \in 1..q.taken : q.handed[k].at = PlaceBehind(s, k - 1)}

LEMMA BatchKeepsBetween ==
  ASSUME NEW s, Queueable(s), NEW q \in Between(s)
  PROVE  /\ NextBatch(s.data, BytesPerBuffer(s), q) \in Between(s)
         /\ NextBatch(s.data, BytesPerBuffer(s), q).taken >= q.taken
         /\ q.taken < Len(s.data) =>
              \/ NextBatch(s.data, BytesPerBuffer(s), q).taken > q.taken
              \/ q.offset # 0 /\ NextBatch(s.data, BytesPerBuffer(s), q).offset = 0
<1> DEFINE data == s.data
           n == Len(data)
           size == BytesPerBuffer(s)
           to == BatchEnd(data, q.taken, q.offset, size)
           at == BatchOffset(data, q.taken, to, q.offset, size)
           B(k) == Bytes(data, k)
           more == [k \in 1..(to - q.taken) |->
                      [e  |-> data[q.taken + k],
                       at |-> EndsAt(data, q.taken, at, q.taken + k - 1)]]
           H == [e : {data[k] : k \in 1..n}, at : 0..(size - 1)]
           r == NextBatch(data, size, q)
<1>1. /\ n \in Nat /\ size \in Nat \ {0}
      /\ \A k \in 1..n : data[k].len \in Nat /\ data[k].len <= size
      /\ s.curr_offset \in 0..(size - 1)
  BY DEF Queueable, IsEntries
<1>2. /\ \A k \in 0..n : B(k) \in Nat
      /\ B(0) = 0
      /\ \A k \in 1..n : B(k) = B(k - 1) + data[k].len
  BY BytesFacts DEF Queueable
<1>3. /\ q.taken \in 0..n /\ q.offset \in 0..(size - 1) /\ q.handed \in Seq(H)
      /\ Len(q.handed) = q.taken
      /\ \A k \in 1..q.taken :
           q.handed[k].e = data[k] /\ q.handed[k].at + data[k].len <= size
      /\ NoneCrosses(s) =>
           /\ q.offset = PlaceBehind(s, q.taken)
           /\ \A k \in 1..q.taken : q.handed[k].at = PlaceBehind(s, k - 1)
  BY DEF Between
<1>4. /\ to \in q.taken..n
      /\ \A k \in (q.taken + 1)..to : Takes(data, q.taken, q.offset, size, k)
      /\ to = n \/ ~Takes(data, q.taken, q.offset, size, to + 1)
  BY <1>3, BatchEndFacts DEF Queueable
<1>5. at \in {0, q.offset} /\ (at # q.offset => to < n /\ q.offset + (B(to) - B(q.taken)) < size)
  BY <1>2, <1>3, <1>4 DEF BatchOffset, EndsAt
<1>6. r = [taken |-> to, offset |-> (at + (B(to) - B(q.taken))) % size, handed |-> q.handed \o more]
  BY DEF NextBatch, EndsAt
<1> HIDE DEF to, at, r, B
<1>7. \A k \in 1..(to - q.taken) : more[k] = [e |-> data[q.taken + k], at |-> at + (B(q.taken + k - 1) - B(q.taken))]
  BY DEF EndsAt, B
<1> HIDE DEF more
<1>8. \A j \in 0..n : \A k \in j..n : B(j) <= B(k)
  BY BytesGrow DEF Queueable, B
<1>9. /\ at \in Nat /\ at <= q.offset /\ at + (B(to) - B(q.taken)) \in Nat
      /\ q.taken \in 0..n /\ to \in q.taken..n /\ to \in 0..n
      /\ B(to) \in Nat /\ B(q.taken) \in Nat
  <2>1. q.taken \in 0..n /\ to \in q.taken..n /\ to \in 0..n
    BY <1>1, <1>3, <1>4
  <2>2. B(to) \in Nat /\ B(q.taken) \in Nat /\ B(q.taken) <= B(to)
    BY <1>2, <1>8, <2>1
  <2>3. at \in Nat /\ at <= q.offset
    BY <1>1, <1>3, <1>5
  <2> QED BY <2>1, <2>2, <2>3
<1>10. ASSUME NEW k \in (q.taken + 1)..to
       PROVE  /\ k \in 1..n /\ k - 1 \in 0..n /\ k \in 0..n
              /\ B(k - 1) \in Nat /\ B(k) \in Nat /\ B(k) = B(k - 1) + data[k].len
              /\ B(q.taken) <= B(k - 1)
              /\ q.offset + (B(k - 1) - B(q.taken)) < size
              /\ at + (B(k - 1) - B(q.taken)) \in 0..(size - 1)
              /\ at + (B(k - 1) - B(q.taken)) + data[k].len <= size
  <2>1. k \in 1..n /\ k - 1 \in 0..n /\ k \in 0..n /\ k - 1 \in q.taken..n
    <3>1. n \in Nat /\ q.taken \in 0..n /\ to \in q.taken..n
      BY <1>1, <1>9
    <3> HIDE DEF n
    <3> QED BY <3>1
  <2>2. B(k - 1) \in Nat /\ B(k) \in Nat /\ B(k) = B(k - 1) + data[k].len
    BY <1>2, <2>1
  <2>3. B(q.taken) <= B(k - 1)
    BY <1>8, <1>9, <2>1
  <2>4. /\ q.offset + (B(k - 1) - B(q.taken)) < size
        /\ q.offset + (B(k) - B(q.taken)) <= size
    BY <1>4 DEF Takes, EndsAt, B
  <2>5. data[k].len \in Nat
    BY <1>1, <2>1
  <2>6. size \in Nat /\ q.offset \in Nat /\ at \in Nat /\ at <= q.offset /\ B(q.taken) \in Nat
    BY <1>1, <1>3, <1>9
  <2> HIDE DEF size, data, n
  <2>7. at + (B(k - 1) - B(q.taken)) \in 0..(size - 1)
    BY <2>2, <2>3, <2>4, <2>6
  <2>8. at + (B(k - 1) - B(q.taken)) + data[k].len <= size
    BY <2>2, <2>3, <2>4, <2>5, <2>6
  <2> QED BY <2>1, <2>2, <2>3, <2>4, <2>7, <2>8
<1> HIDE DEF size, data, n
<1>11. ASSUME NEW k \in 1..(to - q.taken)
       PROVE  /\ q.taken + k \in (q.taken + 1)..to
              /\ more[k] = [e |-> data[q.taken + k], at |-> at + (B((q.taken + k) - 1) - B(q.taken))]
  BY <1>7, <1>9
<1>12. more \in Seq(H) /\ Len(more) = to - q.taken
  <2>1. ASSUME NEW k \in 1..(to - q.taken)  PROVE more[k] \in H
    <3>1. q.taken + k \in 1..n /\ at + (B((q.taken + k) - 1) - B(q.taken)) \in 0..(size - 1)
      BY <1>10, <1>11
    <3>2. data[q.taken + k] \in {data[i] : i \in 1..n}
      BY <3>1
    <3> DEFINE x == data[q.taken + k]
               y == at + (B((q.taken + k) - 1) - B(q.taken))
    <3>3. more[k] = [e |-> x, at |-> y]
      BY <1>11
    <3>4. x \in {data[i] : i \in 1..n} /\ y \in 0..(size - 1)
      BY <3>1, <3>2
    <3> HIDE DEF x, y
    <3> QED BY <3>3, <3>4
  <2>2. more = [k \in 1..(to - q.taken) |-> more[k]]
    BY DEF more
  <2>3. to - q.taken \in Nat
    BY <1>9
  <2> HIDE DEF H
  <2>4. more \in [1..(to - q.taken) -> H]
    BY <2>1, <2>2
  <2> QED BY <2>3, <2>4
<1> DEFINE told == q.handed \o more
<1>13. /\ told \in Seq(H) /\ Len(told) = to
       /\ \A k \in 1..q.taken : told[k] = q.handed[k]
       /\ \A k \in (q.taken + 1)..to : told[k] = more[k - q.taken]
  <2>1. q.taken + (to - q.taken) = to
    BY <1>9
  <2> DEFINE h == q.handed
  <2>2. h \in Seq(H) /\ Len(h) = q.taken
    BY <1>3
  <2> HIDE DEF H, h
  <2>3. /\ h \o more \in Seq(H) /\ Len(h \o more) = Len(h) + Len(more)
        /\ \A k \in 1..Len(h) : (h \o more)[k] = h[k]
        /\ \A k \in (Len(h) + 1)..(Len(h) + Len(more)) : (h \o more)[k] = more[k - Len(h)]
    BY <1>12, <2>2, Concatenation
  <2>4. told = h \o more
    BY DEF h
  <2> HIDE DEF told
  <2> QED BY <1>12, <2>1, <2>2, <2>3, <2>4 DEF h
<1> HIDE DEF told
<1>14. ASSUME NEW k \in (q.taken + 1)..to
       PROVE  told[k].e = data[k] /\ told[k].at = at + (B(k - 1) - B(q.taken))
  <2>1. k - q.taken \in 1..(to - q.taken) /\ q.taken + (k - q.taken) = k
    BY <1>9
  <2>2. told[k] = [e |-> data[k], at |-> at + (B(k - 1) - B(q.taken))]
    BY <1>11, <1>13, <2>1
  <2> QED BY <2>2
<1>15. ASSUME NEW k \in 1..to
       PROVE  told[k].e = data[k] /\ told[k].at + data[k].len <= size
  <2>1. CASE k <= q.taken
    <3>1. k \in 1..q.taken
      BY <1>9, <2>1
    <3> QED BY <1>3, <1>13, <3>1
  <2>2. CASE k > q.taken
    <3>1. k \in (q.taken + 1)..to
      BY <1>9, <2>2
    <3> QED BY <1>10, <1>14, <3>1
  <2> QED BY <1>9, <2>1, <2>2
<1>16. r.offset \in 0..(size - 1) /\ r.taken = to /\ r.handed = told
  <2>1. (at + (B(to) - B(q.taken))) % size \in 0..(size - 1)
    <3> DEFINE x == at + (B(to) - B(q.taken))
    <3>1. x \in Int
      BY <1>9
    <3> HIDE DEF x
    <3>2. x % size \in 0..(size - 1)
      BY <1>1, <3>1, DivisionFacts
    <3> QED BY <3>2 DEF x
  <2> QED BY <1>6, <2>1 DEF told
<1>17. ASSUME NEW k \in q.taken..n, NoneCrosses(s)
       PROVE  PlaceBehind(s, k) = (q.offset + (B(k) - B(q.taken))) % size
  <2>1. k \in 0..n /\ B(k) \in Nat /\ B(q.taken) <= B(k)
    BY <1>1, <1>2, <1>8, <1>9
  <2>2. q.offset = (s.curr_offset + B(q.taken)) % size
    BY <1>3, <1>17 DEF PlaceBehind, B, data, size
  <2>3. s.curr_offset + B(q.taken) \in Nat /\ B(k) - B(q.taken) \in Nat
    BY <1>1, <1>9, <2>1
  <2>4. (q.offset + (B(k) - B(q.taken))) % size
          = ((s.curr_offset + B(q.taken)) + (B(k) - B(q.taken))) % size
    BY <1>1, <2>2, <2>3, RemainderOfSum
  <2>5. (s.curr_offset + B(q.taken)) + (B(k) - B(q.taken)) = s.curr_offset + B(k)
    BY <1>1, <1>9, <2>1
  <2> QED BY <2>4, <2>5 DEF PlaceBehind, B, data, size
<1>18. ASSUME NoneCrosses(s)  PROVE at = q.offset
  <2> SUFFICES ASSUME at # q.offset  PROVE FALSE
    OBVIOUS
  <2>1. to < n /\ q.offset + (B(to) - B(q.taken)) < size
    BY <1>5
  <2>2. to + 1 \in 1..n /\ (to + 1) - 1 = to
    BY <1>1, <1>9, <2>1
  <2>3. q.offset + (B(to + 1) - B(q.taken)) > size
    <3>1. ~Takes(data, q.taken, q.offset, size, to + 1)
      BY <1>4, <2>1
    <3>2. ~(q.offset + (B(to + 1) - B(q.taken)) <= size)
      BY <2>1, <2>2, <3>1 DEF Takes, EndsAt, B
    <3>3. B(to + 1) \in Nat
      BY <1>2, <2>2
    <3> QED BY <1>1, <1>3, <1>9, <3>2, <3>3
  <2>4. q.offset + (B(to) - B(q.taken)) \in 0..(size - 1)
    <3>1. B(q.taken) <= B(to)
      BY <1>8, <1>9
    <3>2. q.offset \in Nat /\ size \in Nat
      BY <1>1, <1>3
    <3>3. B(q.taken) \in Nat /\ B(to) \in Nat
      BY <1>9
    <3> HIDE DEF B, to, size
    <3> QED BY <2>1, <3>1, <3>2, <3>3
  <2>5. PlaceBehind(s, to) = q.offset + (B(to) - B(q.taken))
    <3>1. PlaceBehind(s, to) = (q.offset + (B(to) - B(q.taken))) % size
      BY <1>9, <1>17, <1>18, <1>1
    <3> QED BY <1>1, <2>4, <3>1, RemainderSmall
  <2>6. PlaceBehind(s, to) + data[to + 1].len <= size
    BY <1>18, <2>2 DEF NoneCrosses, data, size, n
  <2>7. B(to + 1) = B(to) + data[to + 1].len
    BY <1>2, <2>2
  <2>8. data[to + 1].len \in Nat
    BY <1>1, <2>2
  <2>9. q.offset \in Nat /\ size \in Nat /\ B(q.taken) \in Nat /\ B(to) \in Nat
    BY <1>1, <1>3, <1>9
  <2> QED BY <2>3, <2>5, <2>6, <2>7, <2>8, <2>9
<1>19. ASSUME NoneCrosses(s)
       PROVE  /\ r.offset = PlaceBehind(s, to)
              /\ \A k \in 1..to : told[k].at = PlaceBehind(s, k - 1)
  <2>1. r.offset = PlaceBehind(s, to)
    BY <1>6, <1>9, <1>17, <1>18, <1>19
  <2>2. ASSUME NEW k \in 1..to  PROVE told[k].at = PlaceBehind(s, k - 1)
    <3>1. CASE k <= q.taken
      <4>1. k \in 1..q.taken
        BY <1>9, <3>1
      <4> QED BY <1>3, <1>13, <1>19, <4>1
    <3>2. CASE k > q.taken
      <4>1. k \in (q.taken + 1)..to /\ k - 1 \in q.taken..n
        BY <1>1, <1>9, <3>2
      <4>2. q.offset + (B(k - 1) - B(q.taken)) \in 0..(size - 1)
        <5>1. /\ B(k - 1) \in Nat /\ B(q.taken) <= B(k - 1)
              /\ q.offset + (B(k - 1) - B(q.taken)) < size
          BY <1>10, <4>1
        <5>2. q.offset \in Nat /\ size \in Nat /\ B(q.taken) \in Nat
          BY <1>1, <1>3, <1>9
        <5> QED BY <5>1, <5>2
      <4>3. PlaceBehind(s, k - 1) = q.offset + (B(k - 1) - B(q.taken))
        BY <1>1, <1>17, <1>19, <4>1, <4>2, RemainderSmall
      <4> QED BY <1>14, <1>18, <1>19, <4>1, <4>3
    <3> QED BY <1>9, <3>1, <3>2
  <2> QED BY <2>1, <2>2
<1>20. r \in Between(s)
  <2>1. r = [taken |-> r.taken, offset |-> r.offset, handed |-> r.handed]
    BY <1>6
  <2>2. r \in [taken : 0..n, offset : 0..(size - 1), handed : Seq(H)]
    <3> HIDE DEF H
    <3> QED BY <1>9, <1>13, <1>16, <2>1
  <2> QED BY <1>13, <1>15, <1>16, <1>19, <2>2 DEF Between, data, size, n, H
<1>21. ASSUME q.taken < n, to = q.taken, q.offset # 0
       PROVE  r.offset = 0
  <2>1. at = 0
    <3>1. q.offset + (B(to) - B(q.taken)) < size
      BY <1>1, <1>3, <1>9, <1>21
    <3>2. to < n
      BY <1>21
    <3> QED BY <3>1, <3>2 DEF at, BatchOffset, EndsAt, B, n
  <2>2. r.offset = 0 % size
    BY <1>6, <1>9, <1>21, <2>1
  <2> QED BY <1>1, <2>2, RemainderSmall
<1>22. ASSUME q.taken < n, q.offset = 0  PROVE to > q.taken
  <2> SUFFICES ASSUME to = q.taken  PROVE FALSE
    BY <1>9
  <2>1. q.taken + 1 \in 1..n /\ (q.taken + 1) - 1 = q.taken
    BY <1>1, <1>9, <1>22
  <2>2. B(q.taken + 1) = B(q.taken) + data[q.taken + 1].len
    BY <1>2, <2>1
  <2>3. data[q.taken + 1].len \in Nat /\ data[q.taken + 1].len <= size
    BY <1>1, <2>1
  <2>4. Takes(data, q.taken, q.offset, size, q.taken + 1)
    <3>1. B(q.taken) - B(q.taken) < size /\ B(q.taken + 1) - B(q.taken) <= size
      BY <1>1, <1>9, <2>2, <2>3
    <3> QED BY <1>22, <1>1, <1>9, <2>1, <2>2, <2>3, <3>1 DEF Takes, EndsAt, B
  <2> QED BY <1>4, <1>22, <2>4
<1>23. r.taken >= q.taken /\ (q.taken < n => r.taken > q.taken \/ (q.offset # 0 /\ r.offset = 0))
  BY <1>9, <1>16, <1>21, <1>22
<1> QED BY <1>20, <1>23 DEF r, data, size, n

(***************************************************************************)
(* The loop: the batches are numbered, and none is needed after the last.  *)
(***************************************************************************)
LEMMA BatchesRecursion ==
  ASSUME NEW s, Queueable(s)
  PROVE  /\ Batches(s) \in [0..(2 * Len(s.data)) -> Between(s)]
         /\ Batches(s)[0] = [taken |-> 0, offset |-> s.curr_offset, handed |-> <<>>]
         /\ \A b \in 1..(2 * Len(s.data)) :
              Batches(s)[b] = NextBatch(s.data, BytesPerBuffer(s), Batches(s)[b - 1])
<1> DEFINE m == 2 * Len(s.data)
           base == [taken |-> 0, offset |-> s.curr_offset, handed |-> <<>>]
           Step(q) == NextBatch(s.data, BytesPerBuffer(s), q)
           step == [i \in 1..m |-> [q \in Between(s) |-> Step(q)]]
           Body(f) == [b \in 0..m |-> IF b = 0 THEN base ELSE Step(f[b - 1])]
<1>1. m \in Nat /\ \A q \in Between(s) : Step(q) \in Between(s)
  BY BatchKeepsBetween DEF Queueable, IsEntries
<1>2. base \in Between(s)
  <2>1. /\ s.curr_offset \in 0..(BytesPerBuffer(s) - 1) /\ Len(s.data) \in Nat
        /\ BytesPerBuffer(s) \in Nat \ {0}
    BY DEF Queueable, IsEntries
  <2>2. s.curr_offset = PlaceBehind(s, 0)
    <3>1. Bytes(s.data, 0) = 0
      BY BytesFacts DEF Queueable
    <3>2. s.curr_offset + 0 = s.curr_offset
      BY <2>1
    <3> QED BY <2>1, <3>1, <3>2, RemainderSmall DEF PlaceBehind
  <2> QED BY <2>1, <2>2 DEF Between
<1> HIDE DEF m, base, Step
<1>3. PICK f : Iterates(f, Between(s), base, step, m)
  <2>1. step \in [1..m -> [Between(s) -> Between(s)]]
    BY <1>1
  <2> HIDE DEF step
  <2> QED BY <1>1, <1>2, <2>1, Iteration
<1>4. f \in [0..m -> Between(s)] /\ f[0] = base /\ \A b \in 1..m : f[b] = step[b][f[b - 1]]
  BY <1>3 DEF Iterates
<1>5. ASSUME NEW b \in 1..m  PROVE f[b] = Step(f[b - 1])
  <2>1. b - 1 \in 0..m
    BY <1>1
  <2>2. f[b - 1] \in Between(s)
    BY <1>4, <2>1
  <2> QED BY <1>4, <2>2
<1>6. f = Body(f)
  BY <1>1, <1>4, <1>5
<1> DEFINE after[b \in 0..m] == IF b = 0 THEN base ELSE Step(after[b - 1])
<1>7. after = Body(after)
  BY <1>6
<1>8. Batches(s) = after
  BY DEF Batches, MaxBatches, m, base, Step
<1> HIDE DEF after
<1>9. after[0] = base /\ \A b \in 1..m : after[b] = Step(after[b - 1])
  BY <1>1, <1>7
<1> DEFINE N == {b \in Nat : b <= m => after[b] \in Between(s)}
<1>10. \A b \in Nat : b \in N
  <2>1. 0 \in N
    BY <1>2, <1>9
  <2>2. ASSUME NEW b \in Nat, b \in N  PROVE b + 1 \in N
    <3> SUFFICES ASSUME b + 1 <= m  PROVE after[b + 1] \in Between(s)
      OBVIOUS
    <3>1. after[b] \in Between(s) /\ b + 1 \in 1..m /\ (b + 1) - 1 = b
      BY <1>1, <2>2
    <3> QED BY <1>1, <1>9, <3>1
  <2> HIDE DEF N
  <2> QED BY <2>1, <2>2, Induction
<1>11. after \in [0..m -> Between(s)]
  <2>1. \A b \in 0..m : after[b] \in Between(s)
    BY <1>1, <1>10
  <2>2. after = [b \in 0..m |-> after[b]]
    BY <1>7
  <2> QED BY <2>1, <2>2
<1> QED BY <1>8, <1>9, <1>11 DEF m, base, Step

(***************************************************************************)
(* Two batches at most for each entry.                                     *)
(***************************************************************************)
LEMMA AllBatchesTakeAll ==
  ASSUME NEW s, Queueable(s)
  PROVE  QueuedOf(s) \in Between(s) /\ QueuedOf(s).taken = Len(s.data)
<1> DEFINE n == Len(s.data)
           q == Batches(s)
           N == {b \in Nat : b <= 2 * n =>
                   \/ q[b].taken = n
                   \/ 2 * q[b].taken + (IF q[b].offset = 0 THEN 1 ELSE 0) >= b}
<1>1. n \in Nat /\ q \in [0..(2 * n) -> Between(s)]
  BY BatchesRecursion DEF Queueable, IsEntries
<1>2. ASSUME NEW b \in 0..(2 * n)  PROVE q[b].taken \in 0..n /\ q[b].offset \in Int
  <2>1. q[b] \in Between(s)
    BY <1>1
  <2>2. BytesPerBuffer(s) \in Int
    BY DEF Queueable
  <2> QED BY <2>1, <2>2 DEF Between
<1> HIDE DEF q
<1>3. ASSUME NEW b \in Nat, b + 1 <= 2 * n
      PROVE  /\ q[b + 1].taken >= q[b].taken
             /\ q[b].taken < n =>
                  \/ q[b + 1].taken > q[b].taken
                  \/ q[b].offset # 0 /\ q[b + 1].offset = 0
  <2>1. b \in 0..(2 * n) /\ b + 1 \in 1..(2 * n) /\ (b + 1) - 1 = b
    BY <1>1, <1>3
  <2>2. q[b] \in Between(s)
    BY <1>1, <2>1
  <2>3. q[b + 1] = NextBatch(s.data, BytesPerBuffer(s), q[b])
    BY <2>1, BatchesRecursion DEF q
  <2> QED BY <2>2, <2>3, BatchKeepsBetween
<1>4. 0 \in N
  <2>1. 0 \in 0..(2 * n)
    BY <1>1
  <2>2. q[0].taken \in Nat
    BY <1>2, <2>1, <1>1
  <2> QED BY <2>2
<1>5. ASSUME NEW b \in Nat, b \in N  PROVE b + 1 \in N
  <2> SUFFICES ASSUME b + 1 <= 2 * n
               PROVE  \/ q[b + 1].taken = n
                      \/ 2 * q[b + 1].taken + (IF q[b + 1].offset = 0 THEN 1 ELSE 0) >= b + 1
    OBVIOUS
  <2>1. b \in 0..(2 * n) /\ b + 1 \in 0..(2 * n)
    BY <1>1
  <2>2. /\ q[b].taken \in 0..n /\ q[b].offset \in Int
        /\ q[b + 1].taken \in 0..n /\ q[b + 1].offset \in Int
    BY <1>2, <2>1
  <2>3. q[b].taken = n \/ 2 * q[b].taken + (IF q[b].offset = 0 THEN 1 ELSE 0) >= b
    BY <1>5, <2>1
  <2> DEFINE t == q[b].taken
             u == q[b + 1].taken
             o == q[b].offset
             p == q[b + 1].offset
  <2>4. u >= t /\ (t < n => u > t \/ (o # 0 /\ p = 0))
    BY <1>3
  <2>5. t \in 0..n /\ u \in 0..n /\ o \in Int /\ p \in Int
    BY <2>2
  <2>6. t = n \/ 2 * t + (IF o = 0 THEN 1 ELSE 0) >= b
    BY <2>3
  <2> HIDE DEF t, u, o, p, n
  <2>7. u = n \/ 2 * u + (IF p = 0 THEN 1 ELSE 0) >= b + 1
    BY <1>1, <2>4, <2>5, <2>6
  <2> QED BY <2>7 DEF u, p
<1> HIDE DEF N
<1>6. 2 * n \in N
  BY <1>1, <1>4, <1>5, Induction
<1>7. q[2 * n].taken = n
  <2>1. 2 * n \in 0..(2 * n)
    BY <1>1
  <2>2. q[2 * n].taken \in 0..n
    BY <1>2, <2>1
  <2> QED BY <1>1, <1>6, <2>2 DEF N
<1>8. QueuedOf(s) = q[2 * n]
  BY DEF QueuedOf, MaxBatches, q
<1>9. q[2 * n] \in Between(s)
  BY <1>1
<1> QED BY <1>7, <1>8, <1>9

(***************************************************************************)
(* Whatever is registered, as long as it fits into the buffer, the         *)
(* hardware gets each entry once, in order, with its payload inside the    *)
(* buffer; the offset left behind is inside too.  When no payload crosses  *)
(* the end of the buffer they follow each other around it.                 *)
(***************************************************************************)
LEMMA QueuedFacts ==
  ASSUME NEW s, Queueable(s)
  PROVE  /\ Handed(s) \in Seq([e  : {s.data[k] : k \in 1..Len(s.data)},
                            at : 0..(BytesPerBuffer(s) - 1)])
         /\ Len(Handed(s)) = Len(s.data)
         /\ \A k \in 1..Len(s.data) :
              /\ Handed(s)[k].e = s.data[k]
              /\ Handed(s)[k].at \in 0..(BytesPerBuffer(s) - 1)
              /\ Handed(s)[k].at + s.data[k].len <= BytesPerBuffer(s)
         /\ QueuedOf(s).offset \in 0..(BytesPerBuffer(s) - 1)
         /\ NoneCrosses(s) =>
              /\ QueuedOf(s).offset = PlaceBehind(s, Len(s.data))
              /\ \A k \in 1..Len(s.data) : Handed(s)[k].at = PlaceBehind(s, k - 1)
<1> DEFINE q == QueuedOf(s)
           E == {s.data[k] : k \in 1..Len(s.data)}
<1>1. q \in Between(s) /\ q.taken = Len(s.data)
  BY AllBatchesTakeAll
<1>2. Len(s.data) \in Nat
  BY DEF Queueable, IsEntries
<1> HIDE DEF q
<1>3. q.handed \in Seq([e : E, at : 0..(BytesPerBuffer(s) - 1)]) /\ Len(q.handed) = Len(s.data)
  BY <1>1 DEF Between
<1>4. ASSUME NEW k \in 1..Len(s.data)  PROVE q.handed[k].at \in 0..(BytesPerBuffer(s) - 1)
  <2> DEFINE H == [e : E, at : 0..(BytesPerBuffer(s) - 1)]
             h == q.handed
  <2>1. h \in Seq(H) /\ k \in 1..Len(h)
    BY <1>2, <1>3
  <2>2. h[k] \in H
    <3> HIDE DEF H, h
    <3> QED BY <2>1
  <2> QED BY <2>2
<1> QED BY <1>1, <1>3, <1>4 DEF Handed, Between, q

\* When the driver refuses one of the batches, those before were accepted.
LEMMA BeforeFailureFacts ==
  ASSUME NEW s, Queueable(s), NEW told \in HandedBeforeFailure(s)
  PROVE  /\ told \in Seq([e  : {s.data[k] : k \in 1..Len(s.data)},
                          at : 0..(BytesPerBuffer(s) - 1)])
         /\ \A k \in 1..Len(told) : told[k].at + told[k].e.len <= BytesPerBuffer(s)
<1>1. PICK b \in 0..(2 * Len(s.data)) : told = Batches(s)[b].handed
  BY DEF HandedBeforeFailure, MaxBatches
<1>2. Batches(s)[b] \in Between(s)
  BY BatchesRecursion
<1> QED BY <1>1, <1>2 DEF Between

\* Nothing is handed over when nothing is registered.
LEMMA NothingQueued ==
  ASSUME NEW s, s.data = <<>>
  PROVE  Handed(s) = <<>>
<1> DEFINE base == [taken |-> 0, offset |-> s.curr_offset, handed |-> <<>>]
           Body(f) == [b \in 0..0 |-> IF b = 0 THEN base
                                      ELSE NextBatch(s.data, BytesPerBuffer(s), f[b - 1])]
           after[b \in 0..0] == IF b = 0 THEN base
                                ELSE NextBatch(s.data, BytesPerBuffer(s), after[b - 1])
<1>1. MaxBatches(s) = 0
  BY DEF MaxBatches
<1>2. after = Body(after)
  <2> DEFINE f == [b \in 0..0 |-> base]
  <2> HIDE DEF base
  <2>1. f = Body(f)
    OBVIOUS
  <2>2. \E g : g = Body(g)
    BY <2>1
  <2> QED BY <2>2
<1>3. Batches(s) = after
  BY <1>1 DEF Batches
<1> HIDE DEF after
<1>4. after[0] = base
  BY <1>2
<1> QED BY <1>1, <1>3, <1>4 DEF Handed, QueuedOf

\* What was registered before does not change its place with another entry.
LEMMA BytesAppend ==
  ASSUME NEW S, NEW data \in Seq(S), IsEntries(data), NEW e \in S, e.len \in Nat
  PROVE  /\ IsEntries(Append(data, e))
         /\ \A k \in 0..Len(data) : Bytes(Append(data, e), k) = Bytes(data, k)
         /\ Bytes(Append(data, e), Len(data) + 1) = Bytes(data, Len(data)) + e.len
<1> DEFINE n == Len(data)
           d == Append(data, e)
           N == {k \in Nat : k <= n => Bytes(d, k) = Bytes(data, k)}
<1>1. /\ n \in Nat /\ Len(d) = n + 1 /\ d[n + 1] = e
      /\ \A k \in 1..n : d[k] = data[k] /\ data[k].len \in Nat
  BY DEF IsEntries
<1> HIDE DEF d, n
<1>2. IsEntries(d)
  <2>1. ASSUME NEW k \in 1..(n + 1)  PROVE d[k].len \in Nat
    <3>1. k = n + 1 \/ k \in 1..n
      BY <1>1
    <3> QED BY <1>1, <3>1
  <2> QED BY <1>1, <2>1 DEF IsEntries
<1>3. Bytes(d, 0) = 0 /\ \A k \in 1..(n + 1) : Bytes(d, k) = Bytes(d, k - 1) + d[k].len
  BY <1>1, <1>2, BytesFacts
<1>4. Bytes(data, 0) = 0 /\ \A k \in 1..n : Bytes(data, k) = Bytes(data, k - 1) + data[k].len
  BY BytesFacts DEF n
<1>5. 0 \in N
  BY <1>3, <1>4
<1>6. ASSUME NEW k \in Nat, k \in N  PROVE k + 1 \in N
  <2> SUFFICES ASSUME k + 1 <= n  PROVE Bytes(d, k + 1) = Bytes(data, k + 1)
    OBVIOUS
  <2>1. k + 1 \in 1..n /\ k + 1 \in 1..(n + 1) /\ (k + 1) - 1 = k /\ k <= n
    BY <1>1
  <2>2. Bytes(d, k) = Bytes(data, k)
    BY <1>6, <2>1
  <2> QED BY <1>1, <1>3, <1>4, <2>1, <2>2
<1> HIDE DEF N
<1>7. \A k \in Nat : k \in N
  BY <1>5, <1>6, Induction
<1>8. \A k \in 0..n : Bytes(d, k) = Bytes(data, k)
  BY <1>1, <1>7 DEF N
<1>9. Bytes(d, n + 1) = Bytes(data, n) + e.len
  <2>1. n + 1 \in 1..(n + 1) /\ (n + 1) - 1 = n /\ n \in 0..n
    BY <1>1
  <2> QED BY <1>1, <1>3, <1>8, <2>1
<1> QED BY <1>2, <1>8, <1>9 DEF d, n
=============================================================================
