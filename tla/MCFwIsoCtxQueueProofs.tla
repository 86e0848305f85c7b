----------------------- MODULE MCFwIsoCtxQueueProofs -----------------------
(***************************************************************************)
(* The properties of MCFwIsoCtxQueue, for chunks of any size, buffers of   *)
(* any number of chunks, any number of entries, and packets of any length. *)
(***************************************************************************)
EXTENDS MCFwIsoCtxQueue, FwIsoCtxQueueProofs

Entries(bytes) == [id : Nat, len : 0..bytes]

States ==
  [fd : BOOLEAN, mode : {"IT"}, header_size : Nat, addr : {"mapped"},
   bytes_per_chunk : Nat \ {0}, chunks_per_buffer : Nat \ {0},
   data : Seq([id : Nat, len : Nat]), data_length : Nat, alloc_data_length : Nat,
   curr_offset : Nat, running : BOOLEAN]

\* What the loop is given fits into the buffer.
IInv ==
  /\ s \in States
  /\ s.data \in Seq(Entries(s.bytes_per_chunk))
  /\ s.curr_offset < Size

USE MCFwIsoCtxQueueAssumption

\* A buffer holds a chunk at least.
LEMMA ProductPositive ==
  ASSUME NEW a \in Nat \ {0}, NEW b \in Nat \ {0}
  PROVE  a * b \in Nat \ {0} /\ a <= a * b
<1>1. a * b = a + a * (b - 1)
  OBVIOUS
<1>2. a * (b - 1) \in Nat
  OBVIOUS
<1> QED BY <1>1, <1>2

LEMMA MappedFacts ==
  ASSUME NEW bytes \in Nat \ {0}, NEW chunks \in Nat \ {0}, NEW off \in Nat
  PROVE  LET t == [Mapped(bytes, chunks) EXCEPT !.curr_offset = off]
         IN  /\ t \in States /\ Mapped(bytes, chunks) \in States
             /\ t.data = <<>> /\ Mapped(bytes, chunks).data = <<>>
             /\ BytesPerBuffer(t) = bytes * chunks
             /\ BytesPerBuffer(Mapped(bytes, chunks)) = bytes * chunks
             /\ t.curr_offset = off /\ Mapped(bytes, chunks).curr_offset = 0
<1> DEFINE d == [i \in 1..0 |-> Stale]
           m == Mapped(bytes, chunks)
           a == chunks * (1 + 1)
<1>1. d = <<>> /\ a \in Nat /\ a = chunks * 2
  OBVIOUS
<1>2. m = [fd |-> TRUE, mode |-> "IT", header_size |-> 1,
           addr |-> "mapped", bytes_per_chunk |-> bytes, chunks_per_buffer |-> chunks,
           data |-> <<>>, data_length |-> 0, alloc_data_length |-> a,
           curr_offset |-> 0, running |-> FALSE]
  <2> DEFINE u == StateAllocate(StateInit("IT", 1))
             v == MallocData(u, chunks)
  <2>1. u = [fd |-> TRUE, mode |-> "IT", header_size |-> 1,
             addr |-> "null", bytes_per_chunk |-> 0, chunks_per_buffer |-> 0,
             data |-> <<>>, data_length |-> 0, alloc_data_length |-> 0,
             curr_offset |-> 0, running |-> FALSE]
    <3> DEFINE i == StateInit("IT", 1)
    <3>1. i = [fd |-> FALSE, mode |-> "IT", header_size |-> 1,
               addr |-> "null", bytes_per_chunk |-> 0, chunks_per_buffer |-> 0,
               data |-> <<>>, data_length |-> 0, alloc_data_length |-> 0,
               curr_offset |-> 0, running |-> FALSE]
      BY Zenon DEF StateInit
    <3>2. u = [i EXCEPT !.fd = TRUE]
      BY DEF StateAllocate
    <3> HIDE DEF i, u
    <3> QED BY <3>1, <3>2
  <2>2. Forget(u.data) = <<>> /\ chunks * DatumSize(u) = a
    BY <1>1, <2>1 DEF Forget, DatumSize
  <2>3. v = [u EXCEPT !.data = <<>>, !.alloc_data_length = a]
    BY <2>2 DEF MallocData
  <2> HIDE DEF u, v, a
  <2>4. m = [v EXCEPT !.addr = "mapped", !.bytes_per_chunk = bytes, !.chunks_per_buffer = chunks]
    BY DEF Mapped, StateMapBuffer, u, v
  <2>5. v = [fd |-> TRUE, mode |-> "IT", header_size |-> 1,
             addr |-> "null", bytes_per_chunk |-> 0, chunks_per_buffer |-> 0,
             data |-> <<>>, data_length |-> 0, alloc_data_length |-> a,
             curr_offset |-> 0, running |-> FALSE]
    BY <2>1, <2>3
  <2> HIDE DEF m
  <2> QED BY <2>4, <2>5
<1> HIDE DEF m, a
<1>3. m \in States
  <2>1. <<>> \in Seq([id : Nat, len : Nat])
    OBVIOUS
  <2> QED BY <1>1, <1>2, <2>1 DEF States
<1>4. /\ m.data = <<>> /\ m.curr_offset = 0
      /\ BytesPerBuffer(m) = bytes * chunks
  BY <1>2 DEF BytesPerBuffer
<1> DEFINE t == [m EXCEPT !.curr_offset = off]
<1>5. t \in States /\ t.data = <<>> /\ t.curr_offset = off
  BY <1>3, <1>4 DEF States
<1>6. BytesPerBuffer(t) = BytesPerBuffer(m)
  BY <1>3 DEF States, BytesPerBuffer
<1> QED BY <1>3, <1>4, <1>5, <1>6 DEF m

LEMMA InitIInv == Init => IInv
<1> SUFFICES ASSUME Init  PROVE IInv
  OBVIOUS
<1>1. \E bytes \in Nat \ {0}, chunks \in Nat \ {0}, off \in Nat :
        /\ off < bytes * chunks
        /\ \/ s = [Mapped(bytes, chunks) EXCEPT !.curr_offset = off]
           \/ off = 0 /\ s = Mapped(bytes, chunks)
  <2>1. CASE s = Mapped(1, 1)
    BY <2>1
  <2>2. CASE s # Mapped(1, 1)
    <3>1. PICK bytes \in ChunkBytes, chunks \in ChunkCounts :
            \E off \in 0..(bytes * chunks - 1) :
              s = [Mapped(bytes, chunks) EXCEPT !.curr_offset = off]
      BY <2>2 DEF Init
    <3>2. bytes \in Nat \ {0} /\ chunks \in Nat \ {0} /\ bytes * chunks \in Nat
      BY ProductPositive
    <3> QED BY <3>1, <3>2
  <2> QED BY <2>1, <2>2
<1>2. PICK bytes \in Nat \ {0}, chunks \in Nat \ {0}, off \in Nat :
        /\ off < bytes * chunks
        /\ \/ s = [Mapped(bytes, chunks) EXCEPT !.curr_offset = off]
           \/ off = 0 /\ s = Mapped(bytes, chunks)
  BY <1>1
<1>3. s \in States /\ s.data = <<>> /\ s.curr_offset = off /\ Size = bytes * chunks
  <2> DEFINE m == Mapped(bytes, chunks)
             t == [m EXCEPT !.curr_offset = off]
  <2>1. /\ t \in States /\ m \in States /\ t.data = <<>> /\ m.data = <<>>
        /\ BytesPerBuffer(t) = bytes * chunks /\ BytesPerBuffer(m) = bytes * chunks
        /\ t.curr_offset = off /\ m.curr_offset = 0
    BY MappedFacts
  <2>2. s = t \/ (off = 0 /\ s = m)
    BY <1>2
  <2> HIDE DEF t, m
  <2> QED BY <2>1, <2>2 DEF Size
<1>4. <<>> \in Seq(Entries(s.bytes_per_chunk))
  OBVIOUS
<1> QED BY <1>2, <1>3, <1>4 DEF IInv

LEMMA NextIInv == IInv /\ [Next]_<<s, packet>> => IInv'
<1> SUFFICES ASSUME IInv, [Next]_<<s, packet>>  PROVE IInv'
  OBVIOUS
<1>1. CASE Next
  <2> DEFINE e(len) == [id |-> Len(s.data) + 1, len |-> len]
  <2>1. PICK len \in 0..s.bytes_per_chunk : s' = StateRegisterChunk(s, e(len), 1)
    BY <1>1 DEF Next
  <2>2. s \in States /\ s.data \in Seq(Entries(s.bytes_per_chunk)) /\ s.bytes_per_chunk \in Nat
    BY DEF IInv, States
  <2>3. e(len) \in Entries(s.bytes_per_chunk) /\ e(len) \in [id : Nat, len : Nat]
    BY <2>2 DEF Entries
  <2> HIDE DEF e
  <2>4. s' = [s EXCEPT !.data = Append(s.data, e(len)), !.data_length = s.data_length + 1 + 1]
    BY <2>1 DEF StateRegisterChunk
  <2>5. Append(s.data, e(len)) \in Seq(Entries(s.bytes_per_chunk))
    BY <2>2, <2>3
  <2>6. Append(s.data, e(len)) \in Seq([id : Nat, len : Nat])
    <3>1. s.data \in Seq([id : Nat, len : Nat])
      BY <2>2 DEF States
    <3> QED BY <2>3, <3>1
  <2>7. s.data_length + 1 + 1 \in Nat
    BY <2>2 DEF States
  <2>8. s' \in States
    BY <2>2, <2>4, <2>6, <2>7 DEF States
  <2>9. /\ s'.data = Append(s.data, e(len)) /\ s'.bytes_per_chunk = s.bytes_per_chunk
        /\ s'.chunks_per_buffer = s.chunks_per_buffer /\ s'.curr_offset = s.curr_offset
    BY <2>2, <2>4 DEF States
  <2> QED BY <2>5, <2>8, <2>9 DEF IInv, Size, BytesPerBuffer
<1>2. CASE UNCHANGED <<s, packet>>
  BY <1>2 DEF IInv, Size
<1> QED BY <1>1, <1>2

LEMMA SpecIInv == Spec => []IInv
  BY InitIInv, NextIInv, PTL DEF Spec

LEMMA IInvQueueable == ASSUME IInv  PROVE Queueable(s)
<1>1. /\ s.bytes_per_chunk \in Nat \ {0} /\ s.chunks_per_buffer \in Nat \ {0}
      /\ s.curr_offset \in Nat /\ s.curr_offset < Size
  BY DEF IInv, States
<1>2. Size \in Nat \ {0} /\ s.bytes_per_chunk <= Size
  BY <1>1, ProductPositive DEF Size, BytesPerBuffer
<1>3. ASSUME NEW k \in 1..Len(s.data)
      PROVE  s.data[k].len \in Nat /\ s.data[k].len <= Size
  <2>1. s.data[k] \in Entries(s.bytes_per_chunk)
    BY DEF IInv
  <2>2. s.data[k].len \in 0..s.bytes_per_chunk
    BY <2>1 DEF Entries
  <2> QED BY <1>1, <1>2, <2>2
<1>4. Len(s.data) \in Nat
  BY DEF IInv
<1>5. s.curr_offset \in 0..(Size - 1)
  BY <1>1, <1>2
<1> QED BY <1>2, <1>3, <1>4, <1>5 DEF Queueable, IsEntries, Size

-----------------------------------------------------------------------------
(***************************************************************************)
(* The hardware gets each registered entry once, in order, with a payload  *)
(* inside the buffer, and queue_chunks leaves an offset inside it.         *)
(***************************************************************************)
THEOREM HandsOverOnceInside == Spec => []HandedOnceInside
<1>1. IInv => HandedOnceInside
  <2> SUFFICES ASSUME IInv  PROVE HandedOnceInside
    OBVIOUS
  <2>1. /\ Len(Handed(s)) = Len(s.data)
        /\ \A k \in 1..Len(s.data) :
             /\ Handed(s)[k].e = s.data[k]
             /\ Handed(s)[k].at + s.data[k].len <= Size
        /\ QueuedOf(s).offset \in 0..(Size - 1)
    BY IInvQueueable, QueuedFacts DEF Size
  <2>2. Size \in Nat
    BY IInvQueueable DEF Queueable, Size
  <2>3. QueuedOf(s).offset < Size
    BY <2>1, <2>2
  <2> QED BY <2>1, <2>3 DEF HandedOnceInside, End
<1> QED BY <1>1, SpecIInv, PTL

(***************************************************************************)
(* While no payload crosses the end of the buffer, queue_chunks tells the  *)
(* hardware the places where register_packet of the IT context put them.   *)
(***************************************************************************)
THEOREM HandsOverInPlace == Spec => []HandedInPlace
<1>1. IInv => HandedInPlace
  <2> SUFFICES ASSUME IInv, \A k \in DOMAIN s.data : ~Crosses(k)
               PROVE  /\ \A k \in DOMAIN s.data :
                           Handed(s)[k].at = (s.curr_offset + Bytes(s.data, k - 1)) % Size
                      /\ QueuedOf(s).offset
                           = (s.curr_offset + Bytes(s.data, Len(s.data))) % Size
    BY DEF HandedInPlace
  <2>1. DOMAIN s.data = 1..Len(s.data) /\ Queueable(s)
    BY IInvQueueable DEF IInv
  <2>2. NoneCrosses(s)
    <3> SUFFICES ASSUME NEW k \in 1..Len(s.data)
                 PROVE  PlaceBehind(s, k - 1) + s.data[k].len <= BytesPerBuffer(s)
      BY DEF NoneCrosses
    <3>1. ~(PlaceBehind(s, k - 1) + s.data[k].len > Size)
      BY <2>1 DEF Crosses, PlaceBehind, Size
    <3>2. Size \in Nat \ {0} /\ s.data[k].len \in Nat /\ s.curr_offset \in Nat
      BY <2>1 DEF Queueable, IsEntries, Size
    <3>3. k - 1 \in 0..Len(s.data)
      BY <2>1 DEF Queueable, IsEntries
    <3>4. Bytes(s.data, k - 1) \in Nat
      BY <2>1, <3>3, BytesFacts DEF Queueable
    <3>5. PlaceBehind(s, k - 1) \in Int
      <4> DEFINE x == s.curr_offset + Bytes(s.data, k - 1)
      <4>1. x \in Int
        BY <3>2, <3>4
      <4>2. PlaceBehind(s, k - 1) = x % Size
        BY DEF PlaceBehind, Size
      <4> HIDE DEF x, Size
      <4>3. x % Size \in 0..(Size - 1)
        BY <3>2, <4>1, DivisionFacts
      <4> QED BY <3>2, <4>2, <4>3
    <3> HIDE DEF Size
    <3>6. PlaceBehind(s, k - 1) + s.data[k].len <= Size
      BY <3>1, <3>2, <3>5
    <3> QED BY <3>6 DEF Size
  <2> QED BY <2>1, <2>2, QueuedFacts DEF PlaceBehind, Size
<1> QED BY <1>1, SpecIInv, PTL

\* Entries of one byte are as many bytes as they are.
LEMMA BytesOfOnes ==
  ASSUME NEW data, IsEntries(data), \A k \in 1..Len(data) : data[k].len = 1
  PROVE  \A k \in 0..Len(data) : Bytes(data, k) = k
<1> DEFINE n == Len(data)
           N == {k \in Nat : k <= n => Bytes(data, k) = k}
<1>1. n \in Nat /\ Bytes(data, 0) = 0
  BY BytesFacts DEF IsEntries
<1>2. \A k \in 1..n : Bytes(data, k) = Bytes(data, k - 1) + 1
  BY BytesFacts
<1>3. 0 \in N
  BY <1>1
<1>4. ASSUME NEW k \in Nat, k \in N  PROVE k + 1 \in N
  <2> SUFFICES ASSUME k + 1 <= n  PROVE Bytes(data, k + 1) = k + 1
    OBVIOUS
  <2>1. k + 1 \in 1..n /\ (k + 1) - 1 = k /\ Bytes(data, k) = k
    BY <1>1, <1>4
  <2> QED BY <1>2, <2>1
<1> HIDE DEF N
<1>5. \A k \in Nat : k \in N
  BY <1>3, <1>4, Induction
<1> QED BY <1>1, <1>5 DEF N

(***************************************************************************)
(* In the IR modes, where every entry is one chunk, the loop of            *)
(* queue_chunks gives the chunks in their order around the ring: the       *)
(* models of the IR contexts, which count chunks, say what it does.        *)
(***************************************************************************)
THEOREM LoopIsIrClosedForm == Spec => []IrClosedForm
<1>1. IInv => IrClosedForm
  <2> SUFFICES ASSUME IInv, s.bytes_per_chunk = 1, \A k \in DOMAIN s.data : s.data[k].len = 1
               PROVE  /\ [k \in DOMAIN s.data |-> Handed(s)[k].at] = IrChunks(s)
                      /\ StateQueued(s) = StateIrDrained(s)
    BY DEF IrClosedForm
  <2> DEFINE n == Len(s.data)
             c == s.chunks_per_buffer
             o == s.curr_offset
  <2>1. DOMAIN s.data = 1..n /\ Queueable(s) /\ n \in Nat
    BY IInvQueueable DEF IInv
  <2>2. c \in Nat \ {0} /\ BytesPerBuffer(s) = c /\ o \in Nat
    BY DEF IInv, States, BytesPerBuffer
  <2>3. ASSUME NEW k \in 0..n  PROVE PlaceBehind(s, k) = IrChunk(s, k)
    <3>1. Bytes(s.data, k) = k
      BY <2>1, BytesOfOnes DEF Queueable
    <3> QED BY <2>2, <3>1 DEF PlaceBehind, IrChunk
  <2>4. ASSUME NEW k \in 0..n  PROVE IrChunk(s, k) \in 0..(c - 1)
    <3>1. o + k \in Int
      BY <2>1, <2>2
    <3> QED BY <2>2, <3>1, DivisionFacts DEF IrChunk
  <2>5. NoneCrosses(s)
    <3> SUFFICES ASSUME NEW k \in 1..n  PROVE PlaceBehind(s, k - 1) + s.data[k].len <= c
      BY <2>2 DEF NoneCrosses
    <3>1. k - 1 \in 0..n
      BY <2>1
    <3>2. s.data[k].len = 1
      BY <2>1
    <3>3. PlaceBehind(s, k - 1) \in 0..(c - 1)
      BY <2>3, <2>4, <3>1
    <3> QED BY <2>2, <3>2, <3>3
  <2>6. /\ QueuedOf(s).offset = PlaceBehind(s, n)
        /\ \A k \in 1..n : Handed(s)[k].at = PlaceBehind(s, k - 1)
    BY <2>1, <2>5, QueuedFacts
  <2>7. ASSUME NEW k \in 1..n  PROVE Handed(s)[k].at = IrChunk(s, k - 1)
    <3>1. k - 1 \in 0..n
      BY <2>1
    <3> QED BY <2>3, <2>6, <3>1
  <2>8. [k \in DOMAIN s.data |-> Handed(s)[k].at] = IrChunks(s)
    <3> HIDE DEF n
    <3>1. IrChunks(s) = [k \in 1..n |-> IrChunk(s, k - 1)]
      BY DEF IrChunks, n
    <3> QED BY <2>1, <2>7, <3>1
  <2>9. StateQueued(s) = StateIrDrained(s)
    <3>1. n \in 0..n
      BY <2>1
    <3>2. QueuedOf(s).offset = IrChunk(s, n)
      BY <2>3, <2>6, <3>1
    <3> QED BY <3>2 DEF StateQueued, StateIrDrained
  <2> QED BY <2>8, <2>9
<1> QED BY <1>1, SpecIInv, PTL

-----------------------------------------------------------------------------
(***************************************************************************)
(* Numbers and their places.  The provers know a power only of numbers     *)
(* they are given.                                                         *)
(***************************************************************************)
LEMMA Powers ==
  ASSUME NEW i \in 0..30
  PROVE  2^i \in Nat \ {0} /\ 2^(i + 1) = 2 * 2^i
<1> DEFINE P == [j \in 0..31 |-> 2^j]
<1>1.
      /\ P[0] = 1 /\ P[1] = 2 /\ P[2] = 4 /\ P[3] = 8
      /\ P[4] = 16 /\ P[5] = 32 /\ P[6] = 64 /\ P[7] = 128
      /\ P[8] = 256 /\ P[9] = 512 /\ P[10] = 1024 /\ P[11] = 2048
      /\ P[12] = 4096 /\ P[13] = 8192 /\ P[14] = 16384 /\ P[15] = 32768
      /\ P[16] = 65536 /\ P[17] = 131072 /\ P[18] = 262144 /\ P[19] = 524288
      /\ P[20] = 1048576 /\ P[21] = 2097152 /\ P[22] = 4194304 /\ P[23] = 8388608
      /\ P[24] = 16777216 /\ P[25] = 33554432 /\ P[26] = 67108864 /\ P[27] = 134217728
      /\ P[28] = 268435456 /\ P[29] = 536870912 /\ P[30] = 1073741824 /\ P[31] = 2147483648
  OBVIOUS
<1>2. P[i] = 2^i /\ P[i + 1] = 2^(i + 1)
  OBVIOUS
<1> HIDE DEF P
<1>3. P[i] \in Nat \ {0} /\ P[i + 1] = 2 * P[i]
  BY <1>1
<1> QED BY <1>2, <1>3

Bit(v, i) == (v \div 2^i) % 2

\* One place more in a remainder.
LEMMA NextPlace ==
  ASSUME NEW v \in Nat, NEW w \in Nat \ {0}
  PROVE  v % (2 * w) = (v % w) + w * ((v \div w) % 2)
<1>1. PICK q : q = v \div w
  OBVIOUS
<1>2. PICK r : r = v % w
  OBVIOUS
<1>3. q \in Int /\ r \in 0..(w - 1) /\ v = w * q + r
  BY <1>1, <1>2, DivisionFacts
<1>4. PICK h : h = q \div 2
  OBVIOUS
<1>5. PICK b : b = q % 2
  OBVIOUS
<1>6. h \in Int /\ b \in 0..1 /\ q = 2 * h + b
  BY <1>3, <1>4, <1>5
<1>7. v = (2 * w) * h + (w * b + r)
  <2>1. w * (2 * h + b) = (2 * w) * h + w * b
    BY <1>6
  <2> QED BY <1>3, <1>6, <2>1
<1>8. 2 * w \in Nat \ {0} /\ w * b + r \in 0..(2 * w - 1)
  <2>1. b = 0 \/ b = 1
    BY <1>6
  <2>2. w * 0 = 0 /\ w * 1 = w
    OBVIOUS
  <2> QED BY <1>3, <2>1, <2>2
<1>9. v % (2 * w) = w * b + r
  BY <1>6, <1>7, <1>8, RemainderUnique
<1>10. (v % w) + w * ((v \div w) % 2) = r + w * b
  BY <1>1, <1>2, <1>5
<1>11. r + w * b = w * b + r
  BY <1>3, <1>6
<1> QED BY <1>9, <1>10, <1>11

\* A number has no ones in the places it does not need.
LEMMA NoHighBits ==
  ASSUME NEW v \in Nat, NEW k \in 0..31, v < 2^k, NEW i \in k..30
  PROVE  Bit(v, i) # 1
<1> DEFINE N == {j \in Nat : k + j <= 30 => v < 2^(k + j)}
<1>1. 0 \in N
  <2>1. k + 0 = k
    OBVIOUS
  <2> QED BY <2>1
<1>2. ASSUME NEW j \in Nat, j \in N  PROVE j + 1 \in N
  <2> SUFFICES ASSUME k + (j + 1) <= 30  PROVE v < 2^(k + (j + 1))
    OBVIOUS
  <2>1. k + j \in 0..30 /\ (k + j) + 1 = k + (j + 1) /\ v < 2^(k + j)
    BY <1>2
  <2>2. PICK w : w = 2^(k + j)
    OBVIOUS
  <2>3. w \in Nat \ {0} /\ 2^(k + (j + 1)) = 2 * w
    BY <2>1, <2>2, Powers
  <2> QED BY <2>1, <2>2, <2>3
<1> HIDE DEF N
<1>3. \A j \in Nat : j \in N
  BY <1>1, <1>2, Induction
<1>4. i - k \in Nat /\ k + (i - k) = i /\ i \in 0..30
  OBVIOUS
<1>5. v < 2^i
  BY <1>3, <1>4 DEF N
<1>6. PICK w : w = 2^i
  OBVIOUS
<1>7. w \in Nat \ {0}
  BY <1>4, <1>6, Powers
<1>8. v \div w = 0
  BY <1>5, <1>6, <1>7
<1>9. Bit(v, i) = 0 % 2
  BY <1>6, <1>8 DEF Bit
<1> QED BY <1>9

\* The places of a number are in the word.
Holds(word, first, width, v) ==
  \A i \in 0..(width - 1) : first + i \in word <=> Bit(v, i) = 1

(***************************************************************************)
(* What is read from a field: never more than it has room for, and of a    *)
(* number whose places are there, what is left of it in them.              *)
(***************************************************************************)
LEMMA FieldFacts ==
  ASSUME NEW word, NEW first \in Nat, NEW width \in 1..30
  PROVE  /\ Field(word, first, width) \in 0..(2^width - 1)
         /\ \A v \in Nat :
              Holds(word, first, width, v) => Field(word, first, width) = v % 2^width
<1> DEFINE One(i) == IF first + i - 1 \in word THEN 2^(i - 1) ELSE 0
           step == [i \in 1..width |-> [x \in Nat |-> x + One(i)]]
           Sum(f) == [i \in 0..width |-> IF i = 0 THEN 0 ELSE f[i - 1] + One(i)]
           sum[i \in 0..width] == IF i = 0 THEN 0 ELSE sum[i - 1] + One(i)
<1>1. Field(word, first, width) = sum[width]
  BY DEF Field
<1>2. ASSUME NEW i \in 1..width
      PROVE  /\ One(i) \in Nat /\ i - 1 \in 0..30
             /\ 2^(i - 1) \in Nat \ {0} /\ 2^i = 2 * 2^(i - 1)
  <2>1. i - 1 \in 0..30 /\ (i - 1) + 1 = i
    OBVIOUS
  <2>2. 2^(i - 1) \in Nat \ {0} /\ 2^((i - 1) + 1) = 2 * 2^(i - 1)
    BY <2>1, Powers
  <2> QED BY <2>1, <2>2
<1>3. \E f : f = Sum(f)
  <2>1. step \in [1..width -> [Nat -> Nat]]
    BY <1>2
  <2> HIDE DEF step
  <2>2. PICK f : Iterates(f, Nat, 0, step, width)
    <3>1. width \in Nat /\ 0 \in Nat
      OBVIOUS
    <3> QED BY <2>1, <3>1, Iteration
  <2>3. f \in [0..width -> Nat] /\ f[0] = 0 /\ \A i \in 1..width : f[i] = step[i][f[i - 1]]
    BY <2>2 DEF Iterates
  <2>4. ASSUME NEW i \in 1..width  PROVE f[i] = f[i - 1] + One(i)
    <3>1. f[i - 1] \in Nat
      <4>1. i - 1 \in 0..width
        OBVIOUS
      <4> QED BY <2>3, <4>1
    <3>2. f[i] = step[i][f[i - 1]]
      BY <2>3
    <3> HIDE DEF One
    <3> QED BY <3>1, <3>2 DEF step
  <2> HIDE DEF One
  <2>5. f = Sum(f)
    BY <2>3, <2>4
  <2> QED BY <2>5
<1> HIDE DEF One
<1>4. sum = Sum(sum)
  BY <1>3
<1> HIDE DEF sum
<1>5. sum[0] = 0 /\ \A i \in 1..width : sum[i] = sum[i - 1] + One(i)
  BY <1>4
<1>6. ASSUME NEW i \in 1..width  PROVE One(i) \in {0, 2^(i - 1)}
  BY DEF One
<1>7. sum[width] \in 0..(2^width - 1)
  <2> DEFINE N == {i \in Nat : i <= width => sum[i] \in 0..(2^i - 1)}
  <2>1. 0 \in N
    <3>1. 2^0 = 1
      OBVIOUS
    <3> QED BY <1>5, <3>1
  <2>2. ASSUME NEW i \in Nat, i \in N  PROVE i + 1 \in N
    <3> SUFFICES ASSUME i + 1 <= width  PROVE sum[i + 1] \in 0..(2^(i + 1) - 1)
      OBVIOUS
    <3>1. i + 1 \in 1..width /\ (i + 1) - 1 = i /\ sum[i] \in 0..(2^i - 1)
      BY <2>2
    <3>2. PICK w : w = 2^i
      OBVIOUS
    <3>3. /\ w \in Nat \ {0} /\ 2^(i + 1) = 2 * w /\ One(i + 1) \in {0, w}
          /\ sum[i + 1] = sum[i] + One(i + 1)
      BY <1>2, <1>5, <1>6, <3>1, <3>2
    <3> QED BY <3>1, <3>2, <3>3
  <2> HIDE DEF N
  <2>3. \A i \in Nat : i \in N
    BY <2>1, <2>2, Induction
  <2> QED BY <2>3 DEF N
<1>8. ASSUME NEW v \in Nat, Holds(word, first, width, v)
      PROVE  sum[width] = v % 2^width
  <2> DEFINE N == {i \in Nat : i <= width => sum[i] = v % 2^i}
  <2>1. 0 \in N
    <3>1. 2^0 = 1 /\ v % 1 = 0
      OBVIOUS
    <3> QED BY <1>5, <3>1
  <2>2. ASSUME NEW i \in Nat, i \in N  PROVE i + 1 \in N
    <3> SUFFICES ASSUME i + 1 <= width  PROVE sum[i + 1] = v % 2^(i + 1)
      OBVIOUS
    <3>1. i + 1 \in 1..width /\ (i + 1) - 1 = i /\ i \in 0..(width - 1) /\ sum[i] = v % 2^i
      BY <2>2
    <3>2. PICK w : w = 2^i
      OBVIOUS
    <3>3. w \in Nat \ {0} /\ 2^(i + 1) = 2 * w /\ sum[i + 1] = (v % w) + One(i + 1)
      BY <1>2, <1>5, <3>1, <3>2
    <3>4. v % (2 * w) = (v % w) + w * Bit(v, i)
      BY <3>2, <3>3, NextPlace DEF Bit
    <3>5. Bit(v, i) \in {0, 1}
      <4>1. v \div w \in Int
        BY <3>3, DivisionFacts
      <4> QED BY <3>2, <4>1 DEF Bit
    <3>6. first + (i + 1) - 1 = first + i
      OBVIOUS
    <3>7. One(i + 1) = w * Bit(v, i)
      <4>1. CASE Bit(v, i) = 1
        <5>1. first + i \in word
          BY <1>8, <3>1, <4>1 DEF Holds
        <5>2. One(i + 1) = w
          BY <3>1, <3>2, <3>6, <5>1 DEF One
        <5> QED BY <3>3, <4>1, <5>2
      <4>2. CASE Bit(v, i) = 0
        <5>1. first + i \notin word
          BY <1>8, <3>1, <4>2 DEF Holds
        <5>2. One(i + 1) = 0
          BY <3>6, <5>1 DEF One
        <5> QED BY <3>3, <4>2, <5>2
      <4> QED BY <3>5, <4>1, <4>2
    <3> QED BY <3>3, <3>4, <3>7
  <2> HIDE DEF N
  <2>3. \A i \in Nat : i \in N
    BY <2>1, <2>2, Induction
  <2> QED BY <2>3 DEF N
<1> QED BY <1>1, <1>7, <1>8

(***************************************************************************)
(* The driver gets a packet back whose fields fit, the tag as the flag's   *)
(* own number.                                                             *)
(***************************************************************************)
Fits(p) == p.tags < 2^2 /\ p.header_length < 2^8 /\ p.payload_length < 2^16

LEMMA PacketType ==
  ASSUME NEW p \in Packets
  PROVE  /\ p = [payload_length |-> p.payload_length, header_length |-> p.header_length,
                 tags |-> p.tags, sync_code |-> p.sync_code, skip |-> p.skip,
                 schedule_interrupt |-> p.schedule_interrupt]
         /\ p.payload_length \in Nat /\ p.header_length \in Nat
         /\ p.tags \in Nat /\ p.sync_code \in Nat /\ p.sync_code < 2^4
         /\ p.skip \in BOOLEAN /\ p.schedule_interrupt \in BOOLEAN
<1>1. p \in [tags : {0, 1, 2, 4, 8}, sync_code : 0..15, skip : BOOLEAN,
             header_length : Lengths, payload_length : Lengths,
             schedule_interrupt : BOOLEAN]
  BY DEF Packets
<1>2. p = [payload_length |-> p.payload_length, header_length |-> p.header_length,
           tags |-> p.tags, sync_code |-> p.sync_code, skip |-> p.skip,
           schedule_interrupt |-> p.schedule_interrupt]
  BY <1>1
<1>3. p.payload_length \in Lengths /\ p.header_length \in Lengths
  BY <1>1
<1>4. p.tags \in {0, 1, 2, 4, 8} /\ p.sync_code \in 0..15
  BY <1>1
<1>5. p.skip \in BOOLEAN /\ p.schedule_interrupt \in BOOLEAN
  BY <1>1
<1>6. 2^4 = 16
  OBVIOUS
<1>7. p.tags \in Nat /\ p.sync_code \in Nat /\ p.sync_code < 2^4
  BY <1>4, <1>6
<1>8. p.payload_length \in Nat /\ p.header_length \in Nat
  BY <1>3
<1> QED BY <1>2, <1>5, <1>7, <1>8

\* Which of the six fields a place of the word has its one from.
LEMMA PlacesOf ==
  ASSUME NEW p, NEW i \in 0..31
  PROVE  i \in ControlWord(p) <=>
           \/ i \in 0..30 /\ Bit(p.payload_length, i) = 1
           \/ i - 18 \in 0..30 /\ Bit(p.tags, i - 18) = 1
           \/ i - 20 \in 0..30 /\ Bit(p.sync_code, i - 20) = 1
           \/ i - 24 \in 0..30 /\ Bit(p.header_length, i - 24) = 1
           \/ i = 17 /\ p.skip
           \/ i = 16 /\ p.schedule_interrupt
<1>1. i - 0 = i
  OBVIOUS
<1> QED BY <1>1 DEF ControlWord, Shifted, Word, Bit

LEMMA FittingIsRead ==
  ASSUME NEW p \in Packets, Fits(p)
  PROVE  DriverReads(ControlWord(p)) = p
<1> DEFINE word == ControlWord(p)
<1>1. /\ \A i \in 16..30 : Bit(p.payload_length, i) # 1
      /\ \A i \in 2..30 : Bit(p.tags, i) # 1
      /\ \A i \in 4..30 : Bit(p.sync_code, i) # 1
      /\ \A i \in 8..30 : Bit(p.header_length, i) # 1
  <2>1. 16 \in 0..31 /\ 2 \in 0..31 /\ 4 \in 0..31 /\ 8 \in 0..31
    OBVIOUS
  <2> QED BY <2>1, PacketType, NoHighBits DEF Fits
<1>2. ASSUME NEW v \in Nat, NEW first \in Nat, NEW width \in 1..30, v < 2^width,
             Holds(word, first, width, v)
      PROVE  Field(word, first, width) = v
  <2>1. Field(word, first, width) = v % 2^width
    <3> HIDE DEF word
    <3> QED BY <1>2, FieldFacts
  <2>2. PICK w : w = 2^width
    OBVIOUS
  <2>3. w \in Nat \ {0}
    <3>1. width \in 0..30
      OBVIOUS
    <3> QED BY <2>2, <3>1, Powers
  <2>4. v % w = v
    BY <1>2, <2>2, <2>3, RemainderSmall
  <2> QED BY <2>1, <2>2, <2>4
<1>3. PayloadLength(word) = p.payload_length
  <2>1. ASSUME NEW i \in 0..15  PROVE 0 + i \in word <=> Bit(p.payload_length, i) = 1
    <3>1. 0 + i = i /\ i \in 0..31 /\ i \in 0..30
      OBVIOUS
    <3> QED BY <3>1, PlacesOf
  <2>2. 0 \in Nat /\ 16 \in 1..30 /\ 16 - 1 = 15
    OBVIOUS
  <2> QED BY <1>2, <2>1, <2>2, PacketType DEF PayloadLength, Fits, Holds
<1>4. HeaderLength(word) = p.header_length
  <2>1. ASSUME NEW i \in 0..7  PROVE 24 + i \in word <=> Bit(p.header_length, i) = 1
    <3>1. PICK j : j = 24 + i
      OBVIOUS
    <3>2. /\ j \in 0..31 /\ j # 17 /\ j # 16 /\ j - 24 = i /\ i \in 0..30
          /\ j - 18 \in 2..30 /\ j - 20 \in 4..30 /\ (j \in 0..30 => j \in 16..30)
      BY <3>1
    <3> QED BY <1>1, <3>1, <3>2, PlacesOf
  <2>2. 24 \in Nat /\ 8 \in 1..30 /\ 8 - 1 = 7
    OBVIOUS
  <2> QED BY <1>2, <2>1, <2>2, PacketType DEF HeaderLength, Fits, Holds
<1>5. Field(word, 18, 2) = p.tags
  <2>1. ASSUME NEW i \in 0..1  PROVE 18 + i \in word <=> Bit(p.tags, i) = 1
    <3>1. PICK j : j = 18 + i
      OBVIOUS
    <3>2. /\ j \in 0..31 /\ j # 17 /\ j # 16 /\ j - 18 = i /\ i \in 0..30
          /\ j - 20 \notin 0..30 /\ j - 24 \notin 0..30 /\ j \in 16..30
      BY <3>1
    <3> QED BY <1>1, <3>1, <3>2, PlacesOf
  <2>2. 18 \in Nat /\ 2 \in 1..30 /\ 2 - 1 = 1
    OBVIOUS
  <2> QED BY <1>2, <2>1, <2>2, PacketType DEF Fits, Holds
<1>6. Field(word, 20, 4) = p.sync_code
  <2>1. ASSUME NEW i \in 0..3  PROVE 20 + i \in word <=> Bit(p.sync_code, i) = 1
    <3>1. PICK j : j = 20 + i
      OBVIOUS
    <3>2. /\ j \in 0..31 /\ j # 17 /\ j # 16 /\ j - 20 = i /\ i \in 0..30
          /\ j - 18 \in 2..30 /\ j - 24 \notin 0..30 /\ j \in 16..30
      BY <3>1
    <3> QED BY <1>1, <3>1, <3>2, PlacesOf
  <2>2. 20 \in Nat /\ 4 \in 1..30 /\ 4 - 1 = 3
    OBVIOUS
  <2> QED BY <1>2, <2>1, <2>2, PacketType DEF Holds
<1>7. (17 \in word) = p.skip /\ (16 \in word) = p.schedule_interrupt
  <2>1. /\ 17 \in 0..31 /\ 17 \in 16..30 /\ 17 - 18 \notin 0..30 /\ 17 - 20 \notin 0..30
        /\ 17 - 24 \notin 0..30 /\ 16 \in 0..31 /\ 16 \in 16..30 /\ 16 - 18 \notin 0..30
        /\ 16 - 20 \notin 0..30 /\ 16 - 24 \notin 0..30 /\ 17 # 16
    OBVIOUS
  <2>2. (17 \in word <=> p.skip) /\ (16 \in word <=> p.schedule_interrupt)
    BY <1>1, <2>1, PlacesOf
  <2>3. p.skip \in BOOLEAN /\ p.schedule_interrupt \in BOOLEAN
    BY PacketType
  <2> QED BY <2>2, <2>3
<1> HIDE DEF word
<1>8. DriverReads(word) =
        [payload_length |-> p.payload_length, header_length |-> p.header_length,
         tags |-> p.tags, sync_code |-> p.sync_code, skip |-> p.skip,
         schedule_interrupt |-> p.schedule_interrupt]
  BY <1>3, <1>4, <1>5, <1>6, <1>7 DEF DriverReads
<1>9. DriverReads(word) = p
  BY <1>8, PacketType
<1> QED BY <1>9 DEF word

\* What the driver takes for the tag is the flag without what does not fit the field.
LEMMA TagRead ==
  ASSUME NEW p \in Packets, p.payload_length < 2^16
  PROVE  Field(ControlWord(p), 18, 2) = p.tags % 4
<1> DEFINE word == ControlWord(p)
<1>1. \A i \in 16..30 : Bit(p.payload_length, i) # 1
  <2>1. 16 \in 0..31
    OBVIOUS
  <2> QED BY <2>1, PacketType, NoHighBits
<1>2. ASSUME NEW i \in 0..1  PROVE 18 + i \in word <=> Bit(p.tags, i) = 1
  <2>1. PICK j : j = 18 + i
    OBVIOUS
  <2>2. /\ j \in 0..31 /\ j # 17 /\ j # 16 /\ j - 18 = i /\ i \in 0..30
        /\ j - 20 \notin 0..30 /\ j - 24 \notin 0..30 /\ j \in 16..30
    BY <2>1
  <2> QED BY <1>1, <2>1, <2>2, PlacesOf
<1>3. 18 \in Nat /\ 2 \in 1..30 /\ 2 - 1 = 1 /\ 2^2 = 4
  OBVIOUS
<1> HIDE DEF word
<1>4. Holds(word, 18, 2, p.tags)
  BY <1>2, <1>3 DEF Holds
<1>5. Field(word, 18, 2) = p.tags % 2^2
  BY <1>3, <1>4, PacketType, FieldFacts
<1> QED BY <1>3, <1>5 DEF word

LEMMA ReadIsFitting ==
  ASSUME NEW p \in Packets, DriverReads(ControlWord(p)) = Meant(p)
  PROVE  p.tags = 0 /\ LengthsFit(p)
<1> DEFINE word == ControlWord(p)
<1>1. /\ Meant(p).payload_length = Field(word, 0, 16)
      /\ Meant(p).header_length = Field(word, 24, 8)
      /\ Meant(p).tags = Field(word, 18, 2)
  BY DEF DriverReads, PayloadLength, HeaderLength
<1>2. /\ Meant(p).payload_length = p.payload_length
      /\ Meant(p).header_length = p.header_length
      /\ Meant(p).tags = TagOf(p.tags)
  <2>1. p \in [tags : {0, 1, 2, 4, 8}, sync_code : 0..15, skip : BOOLEAN,
               header_length : Lengths, payload_length : Lengths,
               schedule_interrupt : BOOLEAN]
    BY DEF Packets
  <2> QED BY <2>1 DEF Meant
<1> HIDE DEF word
<1>3. Field(word, 0, 16) \in 0..(2^16 - 1) /\ Field(word, 24, 8) \in 0..(2^8 - 1)
  <2>1. 0 \in Nat /\ 24 \in Nat /\ 16 \in 1..30 /\ 8 \in 1..30
    OBVIOUS
  <2> QED BY <2>1, FieldFacts
<1>4. 2^16 = 65536 /\ 2^8 = 256
  OBVIOUS
<1>5. p.payload_length < 2^16 /\ p.header_length < 2^8
  BY <1>1, <1>2, <1>3, <1>4
<1>6. TagOf(p.tags) = p.tags % 4
  BY <1>1, <1>2, <1>5, TagRead DEF word
<1>7. p.tags \in {0, 1, 2, 4, 8}
  BY DEF Packets
<1>8. p.tags = 0
  BY <1>6, <1>7 DEF TagOf
<1> QED BY <1>5, <1>8 DEF LengthsFit

(***************************************************************************)
(* Of a packet with headers and payloads of any length, the driver reads   *)
(* from the control word what the program meant exactly when header and    *)
(* payload fit their fields and no flag was given for the tag.             *)
(***************************************************************************)
THEOREM ReadBackExactly == Spec => []ReadBackIffFits
<1> DEFINE PacketInv == packet # NoPacket => packet \in Packets
<1>1. Init => PacketInv
  BY DEF Init
<1>2. PacketInv /\ [Next]_<<s, packet>> => PacketInv'
  BY DEF Next
<1>3. PacketInv => ReadBackIffFits
  <2> SUFFICES ASSUME packet \in Packets
               PROVE  DriverReads(ControlWord(packet)) = Meant(packet) <=>
                        packet.tags = 0 /\ LengthsFit(packet)
    BY DEF ReadBackIffFits
  <2>1. ASSUME packet.tags = 0, LengthsFit(packet)
        PROVE  DriverReads(ControlWord(packet)) = Meant(packet)
    <3>1. 0 < 2^2
      OBVIOUS
    <3>2. DriverReads(ControlWord(packet)) = packet
      BY <2>1, <3>1, FittingIsRead DEF Fits, LengthsFit
    <3>3. packet = Meant(packet)
      <4>1. packet \in [tags : {0, 1, 2, 4, 8}, sync_code : 0..15, skip : BOOLEAN,
                        header_length : Lengths, payload_length : Lengths,
                        schedule_interrupt : BOOLEAN]
        BY DEF Packets
      <4>2. TagOf(packet.tags) = packet.tags
        BY <2>1 DEF TagOf
      <4> QED BY <4>1, <4>2 DEF Meant
    <3> QED BY <3>2, <3>3
  <2> QED BY <2>1, ReadIsFitting
<1> QED BY <1>1, <1>2, <1>3, PTL DEF Spec
=============================================================================
