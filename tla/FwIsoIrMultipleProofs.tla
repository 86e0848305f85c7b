----------------------- MODULE FwIsoIrMultipleProofs -----------------------
(***************************************************************************)
(* Proofs about FwIsoIrMultiple, for chunks and a buffer of any size,      *)
(* packets with any data up to the longest payload, in whole quadlets or   *)
(* not, and any G_MAXINT that is no smaller than the buffer has chunks.    *)
(*                                                                         *)
(* The packets not shown yet are behind prev_offset without a gap; what    *)
(* the events tell, how far the hardware is and which chunks it holds are  *)
(* all positions counted from there.  Stream says so; the properties       *)
(* follow from it, and the walk of handle_event finds the packets because  *)
(* it is so - until it passes one with padding and has gone astray.        *)
(***************************************************************************)
EXTENDS FwIsoIrMultiple, FwIsoCtxQueueProofs, FiniteSetTheorems

StateRecords ==
  [fd : BOOLEAN, mode : {"IR_MULTIPLE"}, header_size : {0},
   addr : {"null", "failed", "mapped"},
   bytes_per_chunk : {0, 1}, chunks_per_buffer : {0, ChunksPerBuffer},
   data : Seq(BOOLEAN \cup {Stale}), data_length : 0..ChunksPerBuffer,
   alloc_data_length : {0, ChunksPerBuffer}, curr_offset : Chunks, running : BOOLEAN]

StateType ==
  {s \in StateRecords :
     /\ s.data_length = Len(s.data)
     /\ s.addr # "null" => s.fd
     /\ s.addr = "mapped" =>
          s.chunks_per_buffer = ChunksPerBuffer /\ s.alloc_data_length = ChunksPerBuffer
     /\ s.running => s.addr = "mapped"}

Held == [chunk : Chunks, irq : BOOLEAN]

\* What packets take in the buffer, and what the walk may take for a length.
Lengths == {Space(d) : d \in DataLengths}
Read == {d + 8 : d \in DataLengths \cup Words}

HwType ==
  /\ ring \in Seq(Held)
  /\ fill \in 0..(BytesPerChunk - 1)
  /\ untold \in 0..Size
  /\ devq \in Seq(1..Size) /\ Len(devq) <= MaxEvents

OtherTypes ==
  /\ prev_offset \in 0..(Size - 1)
  /\ chunks_per_irq \in Intervals \cup {0} /\ chunks_per_irq < ChunksPerBuffer
  /\ accumulated_chunk_count \in 0..(MaxInt - 1)
  /\ handling \in BOOLEAN /\ attached \in BOOLEAN
  /\ history \subseteq {"mapped", "started", "failed", "round", "short", "astray", "overrun"}
  /\ received \in Nat

Cells ==
  {c \in Nat \X (0..(BytesPerChunk + 8)) \X ({0} \cup DataLengths) :
     c[2] = 1 => c[3] \in DataLengths}

BufferType == buffer \in [0..(Size - 1) -> Cells]

HandlerType ==
  /\ ctx_payloads \in Seq([offset : 0..(Size - 1), length : Read])
  /\ accum_length \in 0..Size
  /\ "astray" \notin history => Len(ctx_payloads) <= received
  /\ ~handling => ctx_payloads = <<>> /\ accum_length = 0

(***************************************************************************)
(* How far the object is in its life.                                      *)
(***************************************************************************)
BeforeStart ==
  "started" \notin history =>
    /\ ring = <<>> /\ fill = 0 /\ untold = 0 /\ devq = <<>> /\ received = 0
    /\ ~handling /\ prev_offset = 0
    /\ st.data = <<>> /\ st.curr_offset = 0 /\ ~st.running

Phases ==
  /\ BeforeStart
  /\ "started" \in history => "mapped" \in history
  /\ st.addr = "mapped" => "mapped" \in history
  /\ "mapped" \in history => st.chunks_per_buffer = ChunksPerBuffer /\ st.addr # "failed"
  /\ attached => st.addr = "mapped"
  /\ st.running => st.data = <<>>
  /\ ~st.running => fill = 0 /\ untold = 0
  /\ st.addr = "mapped" /\ "failed" \notin history => st.data = <<>>

(***************************************************************************)
(* Positions in bytes are counted from prev_offset.                        *)
(***************************************************************************)
At(r) == (prev_offset + r) % Size
ChunkAt(r) == (prev_offset + r) \div BytesPerChunk
Mark(r) == IF At(r) = 0 THEN Size ELSE At(r)

\* The i-th packet not shown is between the bounds i - 1 and i.
Bounds(b) ==
  /\ b \in [0..received -> 0..Size]
  /\ b[0] = 0
  /\ \A i \in 1..received : b[i] - b[i - 1] \in Lengths
  /\ "short" \notin history => \A i \in 1..received : 16 <= b[i] - b[i - 1]
  /\ \A i, j \in 0..received : i <= j => b[i] + (j - i) <= b[j]

Packet(b, i, d) ==
  /\ b[i] - b[i - 1] = Space(d)
  /\ \A k \in 1..(b[i] - b[i - 1]) :
       buffer[At(b[i - 1] + k - 1)] = <<i, k, IF k = 1 THEN d ELSE 0>>

Written(b) == \A i \in 1..received : \E d \in DataLengths : Packet(b, i, d)

\* The header of the packet tells all that it takes.
Unpadded(b, i) == \E d \in DataLengths : Packet(b, i, d) /\ b[i] - b[i - 1] = d + 8

Showing(b) ==
  /\ accum_length = b[Len(ctx_payloads)]
  /\ \A i \in 1..Len(ctx_payloads) :
       /\ ctx_payloads[i] = [offset |-> At(b[i - 1]), length |-> b[i] - b[i - 1]]
       /\ Unpadded(b, i)

\* The event handled last tells of e[0], the i-th to be read of e[i].
Events(b, e) ==
  /\ e \in [0..Len(devq) -> 0..Size]
  /\ \A i \in 1..Len(devq) : devq[i] = Mark(e[i])
  /\ \A i, j \in 0..Len(devq) : i < j => e[i] < e[j]
  /\ accum_length <= e[0] /\ e[Len(devq)] <= b[received]
  /\ "round" \notin history /\ Len(ctx_payloads) < received =>
       e[0] < b[Len(ctx_payloads) + 1]
  /\ st.running =>
       untold = (IF e[Len(devq)] = b[received] THEN 0 ELSE Mark(b[received]))

\* Each chunk from prev_offset on has a packet, is held by the hardware, or is still
\* registered.
Holding(b) ==
  /\ Len(st.data) + ChunkAt(b[received]) <= ChunkAt(0) + ChunksPerBuffer
  /\ st.running =>
       /\ fill = (prev_offset + b[received]) % BytesPerChunk
       /\ Len(ring) + ChunkAt(b[received]) = ChunkAt(0) + ChunksPerBuffer
       /\ \A i \in 1..Len(ring) :
            ring[i].chunk = (ChunkAt(b[received]) + i - 1) % ChunksPerBuffer
       /\ st.curr_offset = ChunkAt(0)

Stream ==
  st.addr = "mapped" /\ "astray" \notin history =>
    \E b : /\ Bounds(b) /\ Written(b) /\ Showing(b) /\ Holding(b)
           /\ \E e : Events(b, e)

\* The counter goes on from the chunk the hardware holds last.
Marked ==
  st.running /\ chunks_per_irq > 0 =>
    \A i \in 1..Len(ring) :
      ring[i].irq <=> (accumulated_chunk_count - Len(ring) + i) % chunks_per_irq = 0

IInv ==
  /\ st \in StateType /\ HwType /\ OtherTypes /\ BufferType /\ HandlerType
  /\ Phases /\ Stream /\ Marked

-----------------------------------------------------------------------------
(***************************************************************************)
(* Arithmetic.                                                             *)
(***************************************************************************)
LEMMA Constants ==
  /\ BytesPerChunk \in Nat \ {0} /\ ChunksPerBuffer \in Nat \ {0}
  /\ Size \in Nat \ {0} /\ BytesPerChunk <= Size
  /\ MaxInt \in Nat /\ ChunksPerBuffer <= MaxInt
  /\ \A d \in DataLengths : d \in Nat /\ Space(d) \in Nat /\ d + 8 <= Space(d)
  /\ \A l \in Lengths : l \in Nat /\ 8 <= l /\ l <= BytesPerChunk + 8
  /\ \A l \in Read : l \in Nat /\ 8 <= l
  /\ MaxTurns \in Nat /\ Size < 8 * MaxTurns + 8
  /\ Descriptors \in Nat /\ Size < 16 * Descriptors + 16
  /\ Intervals \subseteq Nat
  /\ Chunks = 0..(ChunksPerBuffer - 1) /\ 0 \in Chunks
<1> DEFINE Q == BytesPerChunk
           C == ChunksPerBuffer
<1>0. ASSUME NEW d \in Nat
      PROVE  Padded(d) \in Nat /\ d <= Padded(d) /\ Padded(d) <= d + 3 /\ Padded(d) % 4 = 0
  BY DEF Padded
<1>1. Q \in Nat \ {0} /\ C \in Nat \ {0}
  BY <1>0, FwIsoIrMultipleAssumption DEF BytesPerChunk
<1>2. Size = Q * C
  BY DEF Size
<1>3. Size \in Nat \ {0} /\ Q <= Size
  <2> HIDE DEF Q, C
  <2>1. Q * C \in Nat /\ Q * C = Q + Q * (C - 1) /\ Q * (C - 1) \in Nat
    BY <1>1
  <2> QED BY <1>1, <1>2, <2>1
<1>4. ASSUME NEW d \in DataLengths
      PROVE  /\ d \in Nat /\ Space(d) \in Nat /\ d + 8 <= Space(d)
             /\ Space(d) <= BytesPerChunk + 8
  <2>1. d \in Nat /\ d <= MaxPayload /\ MaxPayload \in Nat
    BY FwIsoIrMultipleAssumption
  <2>2. Padded(d) <= Padded(MaxPayload)
    BY <2>1 DEF Padded
  <2> QED BY <1>0, <2>1, <2>2 DEF Space, BytesPerChunk
<1>5. \A l \in Lengths : l \in Nat /\ 8 <= l /\ l <= BytesPerChunk + 8
  BY <1>1, <1>4 DEF Lengths
<1>6. \A l \in Read : l \in Nat /\ 8 <= l
  BY <1>4, FwIsoIrMultipleAssumption DEF Read
<1>7. /\ MaxTurns \in Nat /\ Size < 8 * MaxTurns + 8
      /\ Descriptors \in Nat /\ Size < 16 * Descriptors + 16
  BY <1>3 DEF MaxTurns, Descriptors
<1> QED BY <1>1, <1>3, <1>4, <1>5, <1>6, <1>7, FwIsoIrMultipleAssumption DEF Chunks

\* A quotient is known by the remainder it leaves.
LEMMA QuotientUnique ==
  ASSUME NEW n \in Nat \ {0}, NEW q \in Int, NEW r \in 0..(n - 1)
  PROVE  (n * q + r) \div n = q
<1>1. (n * q + r) \in Int
  OBVIOUS
<1>2. (n * q + r) % n = r
  BY RemainderUnique
<1> DEFINE a == n * q + r
           p == a \div n
<1>3. p \in Int /\ a = n * p + r
  BY <1>1, <1>2, DivisionFacts
<1> HIDE DEF p
<1>4. n * p = n * q
  BY <1>3
<1>5. n * (p - q) = 0
  BY <1>3, <1>4
<1>6. p - q = 0
  BY <1>3, <1>5
<1>7. p = q
  BY <1>3, <1>6
<1> QED BY <1>7 DEF p

\* Where a byte is: its chunk and the position in it.
LEMMA ChunkAndByte ==
  ASSUME NEW x \in Nat, NEW r \in 0..(BytesPerChunk - 1)
  PROVE  /\ (x * BytesPerChunk + r) \div BytesPerChunk = x
         /\ (x * BytesPerChunk + r) % BytesPerChunk = r
         /\ (x * BytesPerChunk + r) % Size =
              (x % ChunksPerBuffer) * BytesPerChunk + r
         /\ x % ChunksPerBuffer \in Chunks
<1> DEFINE Q == BytesPerChunk
           C == ChunksPerBuffer
           d == x \div C
           m == x % C
<1>1. /\ Q \in Nat \ {0} /\ C \in Nat \ {0} /\ Size \in Nat \ {0} /\ Size = Q * C
      /\ Chunks = 0..(C - 1)
  BY Constants DEF Size
<1>2. d \in Int /\ m \in 0..(C - 1) /\ x = C * d + m
  BY <1>1, DivisionFacts
<1>3. x * Q = Q * x
  BY <1>1
<1>4. (x * Q + r) \div Q = x /\ (x * Q + r) % Q = r
  BY <1>1, <1>3, QuotientUnique, RemainderUnique
<1> HIDE DEF Q, C, d, m
<1>5. x * Q + r = Size * d + (m * Q + r)
  BY <1>1, <1>2
<1>6. m * Q + r \in 0..(Size - 1)
  <2>1. m * Q \in Nat /\ Q * C = Q * m + Q * (C - m) /\ m * Q = Q * m
    BY <1>1, <1>2
  <2>2. Q * (C - m) >= Q
    <3>1. Q * (C - m) = Q + Q * (C - m - 1) /\ Q * (C - m - 1) \in Nat
      BY <1>1, <1>2
    <3> QED BY <1>1, <1>2, <3>1
  <2>3. r \in 0..(Q - 1)
    BY DEF Q
  <2>4. Q * (C - m) \in Int
    BY <1>1, <1>2
  <2> QED BY <1>1, <2>1, <2>2, <2>3, <2>4
<1>7. (x * Q + r) % Size = m * Q + r
  <2> DEFINE y == m * Q + r
  <2>1. y \in 0..(Size - 1) /\ x * Q + r = Size * d + y
    BY <1>5, <1>6
  <2> HIDE DEF y
  <2>2. (Size * d + y) % Size = y
    BY <1>1, <1>2, <2>1, RemainderUnique
  <2> QED BY <2>1, <2>2 DEF y
<1> QED BY <1>1, <1>2, <1>4, <1>7 DEF Q, C, m

LEMMA ChunkOf ==
  ASSUME NEW a \in Nat
  PROVE  /\ a \div BytesPerChunk \in Nat
         /\ a % BytesPerChunk \in 0..(BytesPerChunk - 1)
         /\ a = (a \div BytesPerChunk) * BytesPerChunk + (a % BytesPerChunk)
<1> DEFINE Q == BytesPerChunk
           q == a \div Q
           r == a % Q
<1>1. Q \in Nat \ {0}
  BY Constants
<1>2. q \in Int /\ r \in 0..(Q - 1) /\ a = Q * q + r
  BY <1>1, DivisionFacts
<1> HIDE DEF q, r, Q
<1>3. Q * q = q * Q
  BY <1>1, <1>2
<1>4. q >= 0
  <2> SUFFICES ASSUME q <= -1  PROVE FALSE
    BY <1>2
  <2>1. Q * q = Q * (q + 1) - Q /\ Q * (q + 1) <= 0
    BY <1>1, <1>2
  <2> QED BY <1>1, <1>2, <2>1
<1> QED BY <1>2, <1>3, <1>4 DEF q, r, Q

\* The order of bytes is that of chunks.
LEMMA ChunkOrder ==
  ASSUME NEW a \in Nat, NEW b \in Nat, a <= b
  PROVE  a \div BytesPerChunk <= b \div BytesPerChunk
<1> DEFINE Q == BytesPerChunk
           p == a \div Q
           q == b \div Q
           r == a % Q
           s == b % Q
<1>1. Q \in Nat \ {0} /\ p \in Nat /\ q \in Nat /\ r \in 0..(Q - 1) /\ s \in 0..(Q - 1)
      /\ a = p * Q + r /\ b = q * Q + s
  BY Constants, ChunkOf
<1> HIDE DEF Q, p, q, r, s
<1>2. SUFFICES ASSUME p >= q + 1  PROVE FALSE
  BY <1>1 DEF Q, p, q
<1>3. p * Q = (q * Q + Q) + (p - q - 1) * Q /\ (p - q - 1) * Q \in Nat
  BY <1>1, <1>2
<1>4. p * Q \in Nat /\ q * Q \in Nat
  BY <1>1
<1> QED BY <1>1, <1>3, <1>4

\* One round of the buffer is all its chunks.
LEMMA ChunkRound ==
  ASSUME NEW a \in Nat
  PROVE  /\ (a + Size) \div BytesPerChunk = a \div BytesPerChunk + ChunksPerBuffer
         /\ (a + Size) % BytesPerChunk = a % BytesPerChunk
         /\ a < Size => a \div BytesPerChunk < ChunksPerBuffer
         /\ a + 1 <= Size => a \div BytesPerChunk <= ChunksPerBuffer - 1
<1> DEFINE Q == BytesPerChunk
           C == ChunksPerBuffer
           q == a \div Q
           r == a % Q
<1>1. /\ Q \in Nat \ {0} /\ C \in Nat \ {0} /\ q \in Nat /\ r \in 0..(Q - 1)
      /\ a = q * Q + r /\ Size = Q * C /\ Size \in Nat
  BY Constants, ChunkOf DEF Size
<1>2. a + Size = (q + C) * Q + r /\ q + C \in Nat
  <2> HIDE DEF Q, C, q, r
  <2> QED BY <1>1
<1>3. (a + Size) \div Q = q + C /\ (a + Size) % Q = r
  <2> DEFINE x == q + C
  <2>1. x \in Nat /\ a + Size = x * BytesPerChunk + r
    BY <1>2
  <2>2. r \in 0..(BytesPerChunk - 1)
    BY <1>1
  <2> HIDE DEF x, r
  <2>3. /\ (x * BytesPerChunk + r) \div BytesPerChunk = x
        /\ (x * BytesPerChunk + r) % BytesPerChunk = r
    BY <2>1, <2>2, ChunkAndByte
  <2> QED BY <2>1, <2>3 DEF x
<1>4. a < Size => q < C
  <2> HIDE DEF Q, C, q, r
  <2> SUFFICES ASSUME q >= C, a < Size  PROVE FALSE
    BY <1>1
  <2>1. q * Q = C * Q + (q - C) * Q /\ (q - C) * Q \in Nat /\ C * Q = Q * C
    BY <1>1
  <2>2. q * Q \in Nat /\ C * Q \in Nat
    BY <1>1
  <2> QED BY <1>1, <2>1, <2>2
<1> QED BY <1>1, <1>3, <1>4

-----------------------------------------------------------------------------
(***************************************************************************)
(* Positions counted from prev_offset.                                     *)
(***************************************************************************)
LEMMA AtFacts ==
  ASSUME prev_offset \in 0..(Size - 1), NEW r \in 0..Size
  PROVE  /\ At(r) \in 0..(Size - 1)
         /\ At(r) = IF prev_offset + r < Size THEN prev_offset + r
                    ELSE (prev_offset + r) - Size
         /\ Mark(r) \in 1..Size
         /\ ChunkAt(r) \in Nat
         /\ \A s \in 0..Size : r < s /\ s < r + Size => At(r) # At(s)
<1>1. Size \in Nat \ {0} /\ prev_offset + r \in Nat
  BY Constants
<1>2. At(r) = IF prev_offset + r < Size THEN prev_offset + r ELSE (prev_offset + r) - Size
  <2>1. CASE prev_offset + r < Size
    <3>1. prev_offset + r \in 0..(Size - 1)
      BY <1>1, <2>1
    <3> QED BY <1>1, <2>1, <3>1, RemainderSmall DEF At
  <2>2. CASE ~(prev_offset + r < Size)
    <3> DEFINE y == (prev_offset + r) - Size
    <3>1. y \in 0..(Size - 1) /\ Size * 1 + y = prev_offset + r
      BY <1>1, <2>2
    <3>2. (Size * 1 + y) % Size = y
      BY <1>1, <3>1, RemainderUnique
    <3> QED BY <2>2, <3>1, <3>2 DEF At
  <2> QED BY <2>1, <2>2
<1>3. At(r) \in 0..(Size - 1)
  BY <1>1, <1>2
<1>4. Mark(r) \in 1..Size
  BY <1>1, <1>3 DEF Mark
<1>5. ChunkAt(r) \in Nat
  BY <1>1, ChunkOf DEF ChunkAt
<1>6. ASSUME NEW s \in 0..Size, r < s, s < r + Size  PROVE At(r) # At(s)
  <2>1. /\ s - r \in 1..(Size - 1)
        /\ (prev_offset + r) + (s - r) = prev_offset + s
    BY <1>1, <1>6
  <2>2. ((prev_offset + r) + (s - r)) % Size # (prev_offset + r) % Size
    BY <1>1, <2>1, RemainderDistinct
  <2> QED BY <2>1, <2>2 DEF At
<1> QED BY <1>2, <1>3, <1>4, <1>5, <1>6

\* What handle_event makes of the position in an event: the way from prev_offset to
\* it, but after a whole round nothing.
LEMMA AccumEndFacts ==
  ASSUME prev_offset \in 0..(Size - 1), NEW r \in 1..Size
  PROVE  \/ AccumEnd(Mark(r)) - prev_offset = r
         \/ AccumEnd(Mark(r)) - prev_offset = 0 /\ Mark(r) = prev_offset
<1>1. Size \in Nat \ {0} /\ r \in 0..Size
  BY Constants
<1>2. At(r) = IF prev_offset + r < Size THEN prev_offset + r ELSE (prev_offset + r) - Size
  BY <1>1, AtFacts
<1>3. CASE prev_offset + r < Size
  BY <1>1, <1>2, <1>3 DEF Mark, AccumEnd
<1>4. CASE prev_offset + r = Size
  BY <1>1, <1>2, <1>4 DEF Mark, AccumEnd
<1>5. CASE prev_offset + r > Size
  BY <1>1, <1>2, <1>5 DEF Mark, AccumEnd
<1> QED BY <1>1, <1>3, <1>4, <1>5

-----------------------------------------------------------------------------
(***************************************************************************)
(* What the operators of FwIsoCtxState do.                                 *)
(***************************************************************************)
LEMMA InitEffect ==
  LET s == StateInit("IR_MULTIPLE", 0)
  IN  s \in StateType /\ s.data = <<>> /\ s.curr_offset = 0 /\ ~s.running /\ s.addr = "null"
<1> DEFINE s == StateInit("IR_MULTIPLE", 0)
<1>1. s = [fd |-> FALSE, mode |-> "IR_MULTIPLE", header_size |-> 0,
           addr |-> "null", bytes_per_chunk |-> 0, chunks_per_buffer |-> 0,
           data |-> <<>>, data_length |-> 0, alloc_data_length |-> 0,
           curr_offset |-> 0, running |-> FALSE]
  BY Zenon DEF StateInit
<1> HIDE DEF s
<1>2. /\ 0 \in 0..ChunksPerBuffer /\ 0 \in Chunks /\ <<>> \in Seq(BOOLEAN \cup {Stale})
      /\ Len(<<>>) = 0
  BY Constants
<1>3. s \in StateRecords
  BY <1>1, <1>2 DEF StateRecords
<1>4. /\ s.data = <<>> /\ s.data_length = 0 /\ s.addr = "null" /\ s.curr_offset = 0
      /\ ~s.running
  BY <1>1
<1> QED BY <1>2, <1>3, <1>4 DEF s, StateType

LEMMA AllocateEffect ==
  ASSUME NEW s \in StateType
  PROVE  LET t == StateAllocate(s)
         IN  /\ t \in StateType /\ t.data = s.data /\ t.curr_offset = s.curr_offset
             /\ t.running = s.running /\ t.addr = s.addr
             /\ t.chunks_per_buffer = s.chunks_per_buffer
  BY DEF StateAllocate, StateType, StateRecords

LEMMA StartedEffect ==
  ASSUME NEW s \in StateType, s.addr = "mapped"
  PROVE  LET t == StateStarted(s)
         IN  /\ t \in StateType /\ t.data = s.data /\ t.curr_offset = s.curr_offset
             /\ t.running /\ t.addr = s.addr /\ t.chunks_per_buffer = s.chunks_per_buffer
  BY DEF StateStarted, StateType, StateRecords

LEMMA StopEffect ==
  ASSUME NEW s \in StateType
  PROVE  LET t == StateStop(s)
         IN  /\ t \in StateType /\ ~t.running /\ t.addr = s.addr
             /\ t.chunks_per_buffer = s.chunks_per_buffer
             /\ ~s.running => t = s
             /\ s.running => t.data = <<>> /\ t.curr_offset = 0
<1>1. CASE ~s.running
  BY <1>1 DEF StateStop
<1>2. CASE s.running
  <2> DEFINE t == [s EXCEPT !.running = FALSE, !.data = <<>>, !.data_length = 0,
                            !.curr_offset = 0]
  <2>1. StateStop(s) = t
    BY <1>2 DEF StateStop
  <2>2. /\ 0 \in 0..ChunksPerBuffer /\ 0 \in Chunks /\ <<>> \in Seq(BOOLEAN \cup {Stale})
        /\ Len(<<>>) = 0
    BY Constants
  <2>3. t \in StateRecords
    BY <2>2 DEF StateType, StateRecords
  <2>4. /\ t.data = <<>> /\ t.curr_offset = 0 /\ ~t.running /\ t.data_length = 0
        /\ t.addr = s.addr /\ t.fd = s.fd /\ t.alloc_data_length = s.alloc_data_length
        /\ t.chunks_per_buffer = s.chunks_per_buffer
    BY DEF StateType, StateRecords
  <2> HIDE DEF t
  <2>5. t \in StateType
    BY <2>2, <2>3, <2>4 DEF StateType
  <2> QED BY <1>2, <2>1, <2>4, <2>5
<1> QED BY <1>1, <1>2

LEMMA ForgetEffect ==
  ASSUME NEW data \in Seq(BOOLEAN \cup {Stale})
  PROVE  /\ Forget(data) \in Seq(BOOLEAN \cup {Stale}) /\ Len(Forget(data)) = Len(data)
         /\ data = <<>> => Forget(data) = <<>>
  BY DEF Forget

LEMMA UnmapEffect ==
  ASSUME NEW s \in StateType, ~s.running,
         NEW t \in {StateUnmapBuffer(s), StateRelease(StateUnmapBuffer(s))}
  PROVE  /\ t \in StateType /\ ~t.running /\ t.addr = "null"
         /\ t.chunks_per_buffer = s.chunks_per_buffer /\ t.curr_offset = s.curr_offset
         /\ s.data = <<>> => t.data = <<>>
<1> DEFINE u == [s EXCEPT !.addr = "null", !.data = Forget(s.data)]
<1>1. /\ Forget(s.data) \in Seq(BOOLEAN \cup {Stale}) /\ Len(Forget(s.data)) = Len(s.data)
      /\ s.data = <<>> => Forget(s.data) = <<>>
  BY ForgetEffect DEF StateType, StateRecords
<1>2. u \in StateRecords
  BY <1>1 DEF StateType, StateRecords
<1>3. /\ u.data = Forget(s.data) /\ u.data_length = s.data_length /\ u.addr = "null"
      /\ ~u.running /\ u.chunks_per_buffer = s.chunks_per_buffer
      /\ u.curr_offset = s.curr_offset
  BY DEF StateType, StateRecords
<1>4. StateUnmapBuffer(s) = u
  BY DEF StateUnmapBuffer
<1> HIDE DEF u
<1>5. s.data_length = Len(s.data)
  BY DEF StateType
<1>6. u \in StateType
  BY <1>1, <1>2, <1>3, <1>5 DEF StateType
<1>7. CASE t = u
  BY <1>1, <1>3, <1>6, <1>7
<1>8. CASE t = StateRelease(u)
  <2>1. t = [u EXCEPT !.fd = FALSE]
    BY <1>8 DEF StateRelease
  <2>2. /\ t \in StateRecords /\ t.data = u.data /\ t.data_length = u.data_length
        /\ t.addr = "null" /\ ~t.running /\ t.chunks_per_buffer = u.chunks_per_buffer
        /\ t.curr_offset = u.curr_offset
    BY <1>3, <1>6, <2>1 DEF StateType, StateRecords
  <2>3. t \in StateType
    BY <1>6, <2>2 DEF StateType
  <2> QED BY <1>1, <1>3, <2>2, <2>3
<1> QED BY <1>4, <1>7, <1>8

LEMMA MapEffect ==
  ASSUME NEW s \in StateType, MapBufferError(s) = "none", s.data = <<>>, ~s.running,
         NEW t \in {StateMapBuffer(s, 1, ChunksPerBuffer), StateMapFailed(s, ChunksPerBuffer)}
  PROVE  /\ t \in StateType /\ t.data = <<>> /\ ~t.running /\ t.curr_offset = s.curr_offset
         /\ t = StateMapFailed(s, ChunksPerBuffer) => t.addr = "failed"
         /\ t = StateMapBuffer(s, 1, ChunksPerBuffer) =>
              t.addr = "mapped" /\ t.chunks_per_buffer = ChunksPerBuffer
<1>1. s.fd /\ s.addr = "null" /\ s.data_length = 0 /\ Len(<<>>) = 0
  BY DEF MapBufferError, StateType
<1>2. Forget(s.data) = <<>> /\ <<>> \in Seq(BOOLEAN \cup {Stale})
  BY DEF Forget
<1>3. ChunksPerBuffer * DatumSize(s) = ChunksPerBuffer
  <2>1. DatumSize(s) = 1
    BY DEF DatumSize, StateType, StateRecords
  <2> QED BY <2>1, Constants
<1> DEFINE m == [s EXCEPT !.data = <<>>, !.alloc_data_length = ChunksPerBuffer]
<1>4. MallocData(s, ChunksPerBuffer) = m
  BY <1>2, <1>3 DEF MallocData
<1>5. m \in StateRecords
  BY <1>2 DEF StateType, StateRecords
<1>6. /\ m.data = <<>> /\ m.data_length = 0 /\ m.alloc_data_length = ChunksPerBuffer
      /\ m.fd /\ ~m.running /\ m.curr_offset = s.curr_offset
  BY <1>1 DEF StateType, StateRecords
<1> HIDE DEF m
<1>7. CASE t = StateMapFailed(s, ChunksPerBuffer)
  <2>1. t = [m EXCEPT !.addr = "failed"]
    BY <1>4, <1>7 DEF StateMapFailed
  <2>2. /\ t \in StateRecords /\ t.data = <<>> /\ t.data_length = 0 /\ t.addr = "failed"
        /\ t.fd /\ ~t.running /\ t.curr_offset = s.curr_offset
    BY <1>5, <1>6, <2>1 DEF StateRecords
  <2>3. t # StateMapBuffer(s, 1, ChunksPerBuffer)
    <3>1. StateMapBuffer(s, 1, ChunksPerBuffer).addr = "mapped"
      BY <1>4, <1>5 DEF StateMapBuffer, StateRecords
    <3> QED BY <2>2, <3>1
  <2>4. t \in StateType
    BY <1>1, <2>2 DEF StateType
  <2> QED BY <2>2, <2>3, <2>4
<1>8. CASE t = StateMapBuffer(s, 1, ChunksPerBuffer)
  <2>1. t = [m EXCEPT !.addr = "mapped", !.bytes_per_chunk = 1,
                      !.chunks_per_buffer = ChunksPerBuffer]
    BY <1>4, <1>8 DEF StateMapBuffer
  <2>2. /\ t \in StateRecords /\ t.data = <<>> /\ t.data_length = 0 /\ t.addr = "mapped"
        /\ t.fd /\ ~t.running /\ t.curr_offset = s.curr_offset
        /\ t.chunks_per_buffer = ChunksPerBuffer /\ t.alloc_data_length = ChunksPerBuffer
    <3>1. t \in StateRecords
      BY <1>5, <2>1, Constants DEF StateRecords
    <3>2. /\ t.data = m.data /\ t.data_length = m.data_length /\ t.addr = "mapped"
          /\ t.fd = m.fd /\ t.running = m.running /\ t.curr_offset = m.curr_offset
          /\ t.chunks_per_buffer = ChunksPerBuffer
          /\ t.alloc_data_length = m.alloc_data_length
      BY <1>5, <2>1 DEF StateRecords
    <3> QED BY <1>6, <3>1, <3>2
  <2>3. t # StateMapFailed(s, ChunksPerBuffer)
    <3>1. StateMapFailed(s, ChunksPerBuffer).addr = "failed"
      BY <1>4, <1>5 DEF StateMapFailed, StateRecords
    <3> QED BY <2>2, <3>1
  <2>4. t \in StateType
    BY <1>1, <2>2 DEF StateType
  <2> QED BY <2>2, <2>3, <2>4
<1> QED BY <1>7, <1>8

LEMMA DrainedEffect ==
  ASSUME NEW s \in StateType, s.chunks_per_buffer = ChunksPerBuffer
  PROVE  LET t == StateIrDrained(s)
         IN  /\ t \in StateType /\ t.data = <<>> /\ t.running = s.running
             /\ t.addr = s.addr /\ t.chunks_per_buffer = ChunksPerBuffer
             /\ t.curr_offset = (s.curr_offset + Len(s.data)) % ChunksPerBuffer
<1> DEFINE c == (s.curr_offset + Len(s.data)) % ChunksPerBuffer
           t == [s EXCEPT !.curr_offset = c, !.data = <<>>, !.data_length = 0]
<1>1. StateIrDrained(s) = t
  BY DEF StateIrDrained, StateDrained, IrChunk
<1>2. c \in Chunks
  <2>1. s.curr_offset + Len(s.data) \in Int
    BY Constants DEF StateType, StateRecords
  <2> QED BY <2>1, Constants, DivisionFacts
<1> HIDE DEF c
<1>3. 0 \in 0..ChunksPerBuffer /\ <<>> \in Seq(BOOLEAN \cup {Stale}) /\ Len(<<>>) = 0
  BY Constants
<1>4. t \in StateRecords
  BY <1>2, <1>3 DEF StateType, StateRecords
<1>5. /\ t.data = <<>> /\ t.data_length = 0 /\ t.running = s.running /\ t.addr = s.addr
      /\ t.fd = s.fd /\ t.chunks_per_buffer = s.chunks_per_buffer /\ t.curr_offset = c
      /\ t.alloc_data_length = s.alloc_data_length
  BY DEF StateType, StateRecords
<1> HIDE DEF t
<1>6. t \in StateType
  BY <1>3, <1>4, <1>5 DEF StateType
<1> QED BY <1>1, <1>5, <1>6 DEF c

-----------------------------------------------------------------------------
(***************************************************************************)
(* Registering chunks: from a structure with room for them all, each is    *)
(* registered, every interval-th of the count one to raise an interrupt;   *)
(* from a structure without a buffer none is.                              *)
(***************************************************************************)
Registrations == [st : StateType, count : 0..(MaxInt - 1), ok : BOOLEAN]

MarkAt(count, interval, j) == interval > 0 /\ (count + j) % interval = 0

Extended(s, count, interval, i, r) ==
  /\ r.ok
  /\ Len(r.st.data) = Len(s.data) + i
  /\ \A j \in 1..Len(s.data) : r.st.data[j] = s.data[j]
  /\ \A j \in 1..i : r.st.data[Len(s.data) + j] = MarkAt(count, interval, j)
  /\ interval > 0 => r.count % interval = (count + i) % interval

Registered(s, count, interval, i) ==
  {r \in Registrations :
     /\ r.st.addr = s.addr /\ r.st.running = s.running
     /\ r.st.curr_offset = s.curr_offset
     /\ r.st.chunks_per_buffer = s.chunks_per_buffer
     /\ s.addr = "null" => r.st = s /\ (i > 0 => ~r.ok)
     /\ s.addr = "mapped" /\ Len(s.data) + i <= ChunksPerBuffer =>
          Extended(s, count, interval, i, r)}

LEMMA CountedFacts ==
  ASSUME NEW count \in 0..(MaxInt - 1), NEW interval \in Nat, interval < ChunksPerBuffer
  PROVE  /\ Counted(count, interval) \in 0..(MaxInt - 1)
         /\ interval > 0 => Counted(count, interval) % interval = (count + 1) % interval
<1>0. MaxInt \in Nat /\ ChunksPerBuffer <= MaxInt /\ ChunksPerBuffer \in Nat
  BY Constants
<1>1. CASE interval = 0
  BY <1>0, <1>1 DEF Counted
<1>2. CASE interval > 0 /\ count + 1 >= MaxInt
  <2> DEFINE a == count + 1
             r == a % interval
  <2>1. interval \in Nat \ {0} /\ a \in Int
    BY <1>0, <1>2
  <2>3. Counted(count, interval) = r
    <3>1. interval # 0 /\ ~(count + 1 < MaxInt)
      BY <1>0, <1>2
    <3> QED BY <1>2, <3>1, Zenon DEF Counted
  <2> HIDE DEF a
  <2>2. r \in 0..(interval - 1)
    BY <2>1, DivisionFacts, Zenon
  <2>4. r % interval = r
    BY <2>1, <2>2, RemainderSmall
  <2> HIDE DEF r
  <2>5. r \in 0..(MaxInt - 1)
    BY <1>0, <2>1, <2>2
  <2> QED BY <2>3, <2>4, <2>5 DEF r, a
<1>3. CASE interval > 0 /\ count + 1 < MaxInt
  BY <1>0, <1>3 DEF Counted
<1> QED BY <1>0, <1>1, <1>2, <1>3

\* The remainder of the next count, known that of this one.
LEMMA NextRemainder ==
  ASSUME NEW n \in Nat \ {0}, NEW a \in Nat, NEW b \in Nat, a % n = b % n
  PROVE  (a + 1) % n = (b + 1) % n
<1>1. (a + 1) % n = ((a % n) + 1) % n
  BY RemainderOfSum
<1>2. (b + 1) % n = ((b % n) + 1) % n
  BY RemainderOfSum
<1> QED BY <1>1, <1>2

\* One chunk more in the structure.
LEMMA RegisterEffect ==
  ASSUME NEW s \in StateType, NEW irq \in BOOLEAN, s.addr # "null",
         s.data_length + 1 <= s.alloc_data_length
  PROVE  LET t == StateRegisterChunk(s, irq, 0)
         IN  /\ t \in StateType /\ t.data = Append(s.data, irq)
             /\ t.curr_offset = s.curr_offset /\ t.running = s.running
             /\ t.addr = s.addr /\ t.chunks_per_buffer = s.chunks_per_buffer
<1> DEFINE d == Append(s.data, irq)
           n == s.data_length + 1
           t == [s EXCEPT !.data = d, !.data_length = n]
<1>1. /\ s.data \in Seq(BOOLEAN \cup {Stale}) /\ s.data_length \in 0..ChunksPerBuffer
      /\ s.data_length = Len(s.data) /\ s.alloc_data_length \in {0, ChunksPerBuffer}
      /\ ChunksPerBuffer \in Nat
  BY Constants DEF StateType, StateRecords
<1>2. d \in Seq(BOOLEAN \cup {Stale}) /\ Len(d) = n
  BY <1>1
<1>3. n \in 0..ChunksPerBuffer
  BY <1>1
<1>4. StateRegisterChunk(s, irq, 0) = t
  BY <1>1 DEF StateRegisterChunk
<1> HIDE DEF d, n
<1>5. t \in StateRecords
  BY <1>2, <1>3 DEF StateType, StateRecords
<1>6. /\ t.data = d /\ t.data_length = n /\ t.alloc_data_length = s.alloc_data_length
      /\ t.curr_offset = s.curr_offset /\ t.running = s.running /\ t.addr = s.addr
      /\ t.chunks_per_buffer = s.chunks_per_buffer /\ t.fd = s.fd
  BY DEF StateType, StateRecords
<1> HIDE DEF t
<1>7. t \in StateType
  BY <1>2, <1>5, <1>6 DEF StateType
<1> QED BY <1>4, <1>6, <1>7 DEF d

LEMMA RegisterChunkStep ==
  ASSUME NEW s \in StateType, NEW count \in Nat, NEW interval \in Nat,
         interval < ChunksPerBuffer, NEW i \in Nat,
         NEW r \in Registered(s, count, interval, i)
  PROVE  (IF r.ok THEN RegisterChunk(r, interval) ELSE r)
           \in Registered(s, count, interval, i + 1)
<1>1. /\ r \in Registrations /\ r.st \in StateType /\ r.count \in 0..(MaxInt - 1)
      /\ r.ok \in BOOLEAN
      /\ r.st.addr = s.addr /\ r.st.running = s.running
      /\ r.st.curr_offset = s.curr_offset
      /\ r.st.chunks_per_buffer = s.chunks_per_buffer
      /\ s.addr = "null" => r.st = s /\ (i > 0 => ~r.ok)
      /\ s.addr = "mapped" /\ Len(s.data) + i <= ChunksPerBuffer =>
           Extended(s, count, interval, i, r)
  BY DEF Registered, Registrations
<1>2. ChunksPerBuffer \in Nat /\ MaxInt \in Nat /\ Len(s.data) \in Nat
  BY Constants DEF StateType, StateRecords
<1>f. Len(s.data) + (i + 1) <= ChunksPerBuffer => Len(s.data) + i <= ChunksPerBuffer
  <2> DEFINE n == Len(s.data)
  <2>1. n \in Nat
    BY <1>2
  <2> HIDE DEF n
  <2>2. n + (i + 1) <= ChunksPerBuffer => n + i <= ChunksPerBuffer
    BY <1>2, <2>1
  <2> QED BY <2>2 DEF n
<1>3. CASE ~r.ok
  <2>1. ~(s.addr = "mapped" /\ Len(s.data) + (i + 1) <= ChunksPerBuffer)
    BY <1>1, <1>f, <1>3, Zenon DEF Extended
  <2> QED BY <1>1, <1>3, <2>1 DEF Registered
<1>4. CASE r.ok
  <2> DEFINE irq == interval > 0 /\ (r.count + 1) % interval = 0
             ok  == RoomFor(r.st, 0) /\ RegisterChunkError(r.st) = "none"
             t   == IF ok THEN StateRegisterChunk(r.st, irq, 0) ELSE r.st
             c   == Counted(r.count, interval)
             q   == RegisterChunk(r, interval)
  <2>1. q = [st |-> t, count |-> c, ok |-> ok]
    BY DEF RegisterChunk
  <2>2. /\ c \in 0..(MaxInt - 1)
        /\ interval > 0 => c % interval = (r.count + 1) % interval
    BY <1>1, CountedFacts
  <2>3. irq \in BOOLEAN /\ ok \in BOOLEAN
    OBVIOUS
  <2>4. ok => r.st.addr # "null" /\ r.st.data_length + 1 <= r.st.alloc_data_length
    <3>1. r.st.data_length \in Nat
      BY <1>1, <1>2 DEF StateType, StateRecords
    <3>2. RoomFor(r.st, 0) => r.st.data_length + 1 <= r.st.alloc_data_length
      BY <3>1 DEF RoomFor
    <3>3. RegisterChunkError(r.st) = "none" => r.st.addr # "null"
      BY DEF RegisterChunkError
    <3> QED BY <3>2, <3>3
  <2>5. /\ t \in StateType /\ t.addr = s.addr /\ t.running = s.running
        /\ t.curr_offset = s.curr_offset /\ t.chunks_per_buffer = s.chunks_per_buffer
        /\ ok => t.data = Append(r.st.data, irq)
    <3> HIDE DEF irq
    <3>1. CASE ok
      BY <1>1, <2>3, <2>4, <3>1, RegisterEffect
    <3>2. CASE ~ok
      BY <1>1, <3>2
    <3> QED BY <3>1, <3>2
  <2>6. s.addr = "null" => ~ok /\ t = s
    BY <1>1, <2>4
  <2>7. ASSUME s.addr = "mapped", Len(s.data) + (i + 1) <= ChunksPerBuffer
        PROVE  Extended(s, count, interval, i + 1, q)
    <3>1. Len(s.data) + i <= ChunksPerBuffer
      BY <1>f, <2>7, Zenon
    <3>2. /\ Len(r.st.data) = Len(s.data) + i
          /\ \A j \in 1..Len(s.data) : r.st.data[j] = s.data[j]
          /\ \A j \in 1..i : r.st.data[Len(s.data) + j] = MarkAt(count, interval, j)
          /\ interval > 0 => r.count % interval = (count + i) % interval
      BY <1>1, <2>7, <3>1 DEF Extended
    <3>3. /\ r.st.data_length = Len(r.st.data) /\ r.st.fd /\ r.st.addr = "mapped"
          /\ r.st.alloc_data_length = ChunksPerBuffer
          /\ r.st.data \in Seq(BOOLEAN \cup {Stale})
      BY <1>1, <2>7 DEF StateType, StateRecords
    <3>4. ok
      <4>1. RegisterChunkError(r.st) = "none"
        BY <3>3 DEF RegisterChunkError
      <4>2. RoomFor(r.st, 0)
        BY <1>2, <2>7, <3>2, <3>3 DEF RoomFor
      <4> QED BY <4>1, <4>2
    <3>5. interval > 0 => (r.count + 1) % interval = (count + (i + 1)) % interval
      <4> SUFFICES ASSUME interval > 0
                   PROVE  (r.count + 1) % interval = (count + (i + 1)) % interval
        OBVIOUS
      <4>1. interval \in Nat \ {0} /\ r.count \in Nat /\ count + i \in Nat
        BY <1>1, <1>2
      <4>2. (r.count + 1) % interval = ((count + i) + 1) % interval
        BY <3>2, <4>1, NextRemainder
      <4>3. (count + i) + 1 = count + (i + 1)
        OBVIOUS
      <4> QED BY <4>2, <4>3
    <3>6. irq = MarkAt(count, interval, i + 1)
      BY <3>5 DEF MarkAt
    <3>7. t.data = Append(r.st.data, irq)
      BY <2>5, <3>4
    <3> DEFINE d == t.data
    <3>8. /\ Len(d) = Len(s.data) + (i + 1)
          /\ \A j \in 1..(Len(s.data) + i) : d[j] = r.st.data[j]
          /\ d[Len(s.data) + (i + 1)] = irq
      <4> DEFINE n == Len(s.data)
                 e == r.st.data
      <4>1. /\ n \in Nat /\ e \in Seq(BOOLEAN \cup {Stale}) /\ Len(e) = n + i
            /\ d = Append(e, irq) /\ irq \in BOOLEAN
        BY <1>2, <2>3, <3>2, <3>3, <3>7
      <4> HIDE DEF n, e, d, irq
      <4>2. Len(d) = n + (i + 1) /\ (\A j \in 1..(n + i) : d[j] = e[j]) /\ d[n + (i + 1)] = irq
        BY <4>1
      <4> QED BY <4>2 DEF n, e
    <3> HIDE DEF d, irq
    <3>9. \A j \in 1..Len(s.data) : d[j] = s.data[j]
      <4> DEFINE n == Len(s.data)
      <4>1. n \in Nat
        BY <1>2
      <4> HIDE DEF n
      <4>2. 1..n \subseteq 1..(n + i)
        BY <4>1
      <4> QED BY <3>2, <3>8, <4>2, Zenon DEF n
    <3>10. \A j \in 1..(i + 1) : d[Len(s.data) + j] = MarkAt(count, interval, j)
      <4> SUFFICES ASSUME NEW j \in 1..(i + 1)
                   PROVE  d[Len(s.data) + j] = MarkAt(count, interval, j)
        OBVIOUS
      <4>1. CASE j \in 1..i
        <5>1. Len(s.data) + j \in 1..(Len(s.data) + i)
          BY <1>2, <4>1
        <5> QED BY <3>2, <3>8, <4>1, <5>1
      <4>2. CASE j = i + 1
        BY <3>6, <3>8, <4>2
      <4> QED BY <4>1, <4>2
    <3>11. interval > 0 => c % interval = (count + (i + 1)) % interval
      BY <2>2, <3>5
    <3>12. q.ok = ok /\ q.st = t /\ q.count = c
      BY <2>1
    <3> HIDE DEF q, c, t, ok
    <3> QED BY <3>4, <3>8, <3>9, <3>10, <3>11, <3>12 DEF Extended, d
  <2>8. q.ok = ok /\ q.st = t /\ q.count = c
    BY <2>1
  <2>9. q \in Registrations
    <3> HIDE DEF t, c, ok
    <3> QED BY <2>1, <2>2, <2>3, <2>5 DEF Registrations, ok
  <2> HIDE DEF q, c, t, ok
  <2>10. q \in Registered(s, count, interval, i + 1)
    BY <2>5, <2>6, <2>7, <2>8, <2>9 DEF Registered
  <2> QED BY <1>4, <2>10 DEF q
<1> QED BY <1>1, <1>3, <1>4

\* The chunks registered up to now are those to begin with.
LEMMA NoneRegistered ==
  ASSUME NEW s \in StateType, NEW count \in 0..(MaxInt - 1), NEW interval \in Nat
  PROVE  [st |-> s, count |-> count, ok |-> TRUE] \in Registered(s, count, interval, 0)
<1> DEFINE r == [st |-> s, count |-> count, ok |-> TRUE]
<1>1. r \in Registrations /\ r.st = s /\ r.ok /\ r.count = count
  BY DEF Registrations
<1> HIDE DEF r
<1>2. Len(s.data) \in Nat /\ count \in Nat /\ count + 0 = count
  BY Constants DEF StateType, StateRecords
<1>3. Extended(s, count, interval, 0, r)
  BY <1>1, <1>2 DEF Extended
<1> QED BY <1>1, <1>3 DEF Registered, r

LEMMA RegisterChunksEffect ==
  ASSUME NEW s \in StateType, NEW count \in 0..(MaxInt - 1), NEW interval \in Nat,
         interval < ChunksPerBuffer, NEW m \in Nat
  PROVE  RegisterChunks(s, count, interval, m) \in Registered(s, count, interval, m)
<1> DEFINE base == [st |-> s, count |-> count, ok |-> TRUE]
           Once(r) == IF r.ok THEN RegisterChunk(r, interval) ELSE r
           step == [i \in 1..m |-> [r \in Registrations |-> Once(r)]]
           Body(f) == [i \in 0..m |-> IF i = 0 THEN base ELSE Once(f[i - 1])]
           after[i \in 0..m] == IF i = 0 THEN base ELSE Once(after[i - 1])
<1>1. ASSUME NEW r \in Registrations  PROVE Once(r) \in Registrations
  <2>1. r.st \in StateType /\ r.count \in 0..(MaxInt - 1) /\ r.ok \in BOOLEAN
        /\ r = [st |-> r.st, count |-> r.count, ok |-> r.ok]
    BY DEF Registrations
  <2>2. CASE r.ok
    <3>1. r \in Registered(r.st, r.count, interval, 0)
      <4>1. r = [st |-> r.st, count |-> r.count, ok |-> TRUE]
        BY <2>1, <2>2
      <4> QED BY <2>1, <4>1, NoneRegistered
    <3>2. 0 \in Nat /\ r.count \in Nat
      BY <2>1, Constants
    <3>3. Once(r) \in Registered(r.st, r.count, interval, 0 + 1)
      BY <2>1, <3>1, <3>2, RegisterChunkStep
    <3> HIDE DEF Once
    <3> QED BY <3>3 DEF Registered
  <2>3. CASE ~r.ok
    BY <2>3
  <2> QED BY <2>2, <2>3
<1>2. base \in Registered(s, count, interval, 0)
  BY NoneRegistered
<1>3. base \in Registrations
  BY <1>2 DEF Registered
<1> HIDE DEF base
<1>4. PICK f : Iterates(f, Registrations, base, step, m)
  <2>1. step \in [1..m -> [Registrations -> Registrations]]
    BY <1>1
  <2> HIDE DEF step
  <2> QED BY <1>3, <2>1, Iteration
<1>5. f \in [0..m -> Registrations] /\ f[0] = base /\ \A i \in 1..m : f[i] = step[i][f[i - 1]]
  BY <1>4 DEF Iterates
<1>6. ASSUME NEW i \in 1..m  PROVE f[i] = Once(f[i - 1])
  <2>1. f[i - 1] \in Registrations
    BY <1>5
  <2> HIDE DEF Once
  <2> QED BY <1>5, <2>1
<1>7. RegisterChunks(s, count, interval, m) = after[m]
  BY DEF RegisterChunks, base
<1> HIDE DEF Once
<1>8. f = Body(f)
  BY <1>5, <1>6
<1>9. after = Body(after)
  BY <1>8
<1> HIDE DEF after
<1>10. after[0] = base /\ \A i \in 1..m : after[i] = Once(after[i - 1])
  BY <1>9
<1> DEFINE N == {i \in Nat : i <= m => after[i] \in Registered(s, count, interval, i)}
<1>11. 0 \in N
  BY <1>2, <1>10
<1>12. ASSUME NEW i \in Nat, i \in N  PROVE i + 1 \in N
  <2> SUFFICES ASSUME i + 1 <= m
               PROVE  after[i + 1] \in Registered(s, count, interval, i + 1)
    OBVIOUS
  <2>1. after[i] \in Registered(s, count, interval, i) /\ i + 1 \in 1..m /\ (i + 1) - 1 = i
    BY <1>12
  <2>2. Once(after[i]) \in Registered(s, count, interval, i + 1)
    <3>1. count \in Nat
      BY Constants
    <3> QED BY <2>1, <3>1, RegisterChunkStep DEF Once
  <2> QED BY <1>10, <2>1, <2>2
<1> HIDE DEF N
<1>13. m \in N
  BY <1>11, <1>12, Induction
<1> QED BY <1>7, <1>13 DEF N

-----------------------------------------------------------------------------
(***************************************************************************)
(* What is handed to the hardware, and the events it raises.               *)
(***************************************************************************)
LEMMA EntriesFacts ==
  ASSUME NEW s \in StateType, s.chunks_per_buffer = ChunksPerBuffer
  PROVE  /\ Entries(s) \in Seq(Held) /\ Len(Entries(s)) = Len(s.data)
         /\ \A i \in 1..Len(s.data) :
              /\ Entries(s)[i].chunk = (s.curr_offset + (i - 1)) % ChunksPerBuffer
              /\ Entries(s)[i].irq <=> s.data[i] = TRUE
<1> DEFINE n == Len(s.data)
           C == ChunksPerBuffer
           f == [i \in 1..n |->
                   [chunk |-> (s.curr_offset + (i - 1)) % C, irq |-> s.data[i] = TRUE]]
<1>1. /\ n \in Nat /\ DOMAIN s.data = 1..n /\ s.curr_offset \in Nat /\ C \in Nat \ {0}
      /\ Chunks = 0..(C - 1)
  BY Constants DEF StateType, StateRecords
<1>2. Entries(s) = f
  BY <1>1 DEF Entries, IrChunks, IrChunk
<1>3. ASSUME NEW i \in 1..n
      PROVE  (s.curr_offset + (i - 1)) % C \in Chunks
  <2> HIDE DEF n, C
  <2>1. s.curr_offset + (i - 1) \in Int
    BY <1>1
  <2> QED BY <1>1, <2>1, DivisionFacts
<1> HIDE DEF n, C
<1>4. \A i \in 1..n : f[i] \in Held
  BY <1>3 DEF Held
<1>5. \A i \in 1..n : f[i].chunk = (s.curr_offset + (i - 1)) % C /\ (f[i].irq <=> s.data[i] = TRUE)
  OBVIOUS
<1>6. DOMAIN f = 1..n
  OBVIOUS
<1>7. f = [i \in 1..n |-> f[i]]
  OBVIOUS
<1> HIDE DEF f
<1>8. f \in Seq(Held) /\ Len(f) = n
  BY <1>1, <1>4, <1>6, <1>7
<1> QED BY <1>2, <1>5, <1>8 DEF n, C

LEMMA BeforeFailureType ==
  ASSUME NEW s \in StateType, s.chunks_per_buffer = ChunksPerBuffer,
         NEW chunks \in EntriesBeforeFailure(s) \cup {<<>>}
  PROVE  chunks \in Seq(Held)
<1>1. Entries(s) \in Seq(Held) /\ Len(Entries(s)) = Len(s.data) /\ Len(s.data) \in Nat
  <2>1. Len(s.data) \in Nat
    BY DEF StateType, StateRecords
  <2> QED BY <2>1, EntriesFacts
<1>2. CASE chunks = <<>>
  BY <1>2
<1>3. CASE chunks \in EntriesBeforeFailure(s)
  <2>1. PICK n \in {0} \cup {n \in 1..(Len(s.data) - 1) : IrChunk(s, n) = 0} :
          chunks = SubSeq(Entries(s), 1, n)
    BY <1>3 DEF EntriesBeforeFailure
  <2>2. CASE n = 0
    BY <1>1, <2>1, <2>2
  <2>3. CASE n \in 1..(Len(s.data) - 1)
    <3>1. n \in 1..Len(Entries(s))
      BY <1>1, <2>3
    <3> QED BY <1>1, <2>1, <3>1, CutSequence
  <2> QED BY <2>1, <2>2, <2>3
<1> QED BY <1>2, <1>3

LEMMA EndOfChunk ==
  ASSUME NEW c \in Chunks
  PROVE  EndOf(c) \in 1..Size
<1> DEFINE Q == BytesPerChunk
           C == ChunksPerBuffer
           e == (c + 1) * Q
<1>1. Q \in Nat \ {0} /\ C \in Nat \ {0} /\ Size = Q * C /\ c \in 0..(C - 1)
  BY Constants DEF Size
<1>2. EndOf(c) = e
  BY DEF EndOf
<1> HIDE DEF Q, C
<1>3. e \in Nat /\ e = Q + c * Q /\ c * Q \in Nat
  BY <1>1
<1>4. Size = e + Q * (C - 1 - c) /\ Q * (C - 1 - c) \in Nat
  BY <1>1
<1> HIDE DEF e
<1> QED BY <1>1, <1>2, <1>3, <1>4

\* Which of the first i chunks the events q are about.
Told(chunks, i, events, q) ==
  /\ q \in [1..Len(events) -> 1..i]
  /\ \A k \in 1..Len(events) : events[k] = EndOf(chunks[q[k]].chunk)
  /\ \A j, k \in 1..Len(events) : j < k => q[j] < q[k]
  /\ i > 0 => (chunks[i].irq <=> Len(events) > 0 /\ q[Len(events)] = i)

LEMMA OneMoreTold ==
  ASSUME NEW chunks \in Seq(Held), NEW i \in Nat, i + 1 <= Len(chunks),
         NEW events \in Seq(1..Size), NEW q, Told(chunks, i, events, q)
  PROVE  LET next == IF chunks[i + 1].irq THEN Append(events, EndOf(chunks[i + 1].chunk))
                     ELSE events
         IN  next \in Seq(1..Size) /\ \E p : Told(chunks, i + 1, next, p)
<1> DEFINE n == Len(events)
           new == EndOf(chunks[i + 1].chunk)
<1>1. /\ n \in Nat /\ q \in [1..n -> 1..i]
      /\ \A k \in 1..n : events[k] = EndOf(chunks[q[k]].chunk)
      /\ \A j, k \in 1..n : j < k => q[j] < q[k]
  BY DEF Told
<1>2. i + 1 \in 1..Len(chunks)
  OBVIOUS
<1>3. chunks[i + 1] \in Held
  BY <1>2
<1>4. new \in 1..Size
  BY <1>3, EndOfChunk DEF Held
<1>5. CASE ~chunks[i + 1].irq
  <2>1. q \in [1..n -> 1..(i + 1)]
    BY <1>1
  <2>2. ~(n > 0 /\ q[n] = i + 1)
    BY <1>1
  <2>3. Told(chunks, i + 1, events, q)
    <3> HIDE DEF new
    <3> QED BY <1>1, <1>5, <2>1, <2>2 DEF Told
  <2> QED BY <1>5, <2>3
<1>6. CASE chunks[i + 1].irq
  <2> DEFINE next == Append(events, new)
             p == [k \in 1..(n + 1) |-> IF k <= n THEN q[k] ELSE i + 1]
  <2> HIDE DEF new
  <2>1. next \in Seq(1..Size) /\ Len(next) = n + 1
    BY <1>4
  <2>2. \A k \in 1..n : next[k] = events[k]
    OBVIOUS
  <2>3. next[n + 1] = new
    OBVIOUS
  <2> HIDE DEF next, n
  <2>4. p \in [1..(n + 1) -> 1..(i + 1)]
    BY <1>1
  <2>5. ASSUME NEW k \in 1..(n + 1)  PROVE next[k] = EndOf(chunks[p[k]].chunk)
    <3>1. CASE k <= n
      BY <1>1, <2>2, <3>1
    <3>2. CASE k = n + 1
      BY <1>1, <2>3, <3>2 DEF new
    <3> QED BY <1>1, <3>1, <3>2
  <2>6. ASSUME NEW j \in 1..(n + 1), NEW k \in 1..(n + 1), j < k  PROVE p[j] < p[k]
    <3>1. j \in 1..n /\ q[j] \in 1..i /\ p[j] = q[j]
      BY <1>1, <2>6
    <3>2. CASE k <= n
      BY <1>1, <2>6, <3>1, <3>2
    <3>3. CASE k = n + 1
      BY <1>1, <3>1, <3>3
    <3> QED BY <1>1, <3>2, <3>3
  <2>7. n + 1 > 0 /\ p[n + 1] = i + 1
    BY <1>1
  <2> HIDE DEF p
  <2>8. Told(chunks, i + 1, next, p)
    BY <1>1, <1>6, <2>1, <2>4, <2>5, <2>6, <2>7 DEF Told
  <2> QED BY <1>6, <2>1, <2>8 DEF next, new
<1> QED BY <1>5, <1>6

LEMMA RaisedFacts ==
  ASSUME NEW chunks \in Seq(Held)
  PROVE  /\ Raised(chunks) \in Seq(1..Size)
         /\ \E q : Told(chunks, Len(chunks), Raised(chunks), q)
<1> DEFINE m == Len(chunks)
           Event(i) == EndOf(chunks[i].chunk)
           Once(i, r) == IF chunks[i].irq THEN Append(r, Event(i)) ELSE r
           step == [i \in 1..m |-> [r \in Seq(1..Size) |-> Once(i, r)]]
           Body(f) == [i \in 0..m |-> IF i = 0 THEN <<>> ELSE Once(i, f[i - 1])]
           after[i \in 0..m] == IF i = 0 THEN <<>> ELSE Once(i, after[i - 1])
<1>0. m \in Nat
  OBVIOUS
<1>1. ASSUME NEW i \in 1..m, NEW r \in Seq(1..Size)  PROVE Once(i, r) \in Seq(1..Size)
  <2>1. chunks[i] \in Held
    OBVIOUS
  <2>2. Event(i) \in 1..Size
    BY <2>1, EndOfChunk DEF Held
  <2> DEFINE T == 1..Size
             x == Event(i)
  <2>3. x \in T /\ r \in Seq(T)
    BY <2>2
  <2> HIDE DEF T, x
  <2>4. Append(r, x) \in Seq(T)
    BY <2>3
  <2> QED BY <2>3, <2>4 DEF T, x
<1>2. <<>> \in Seq(1..Size)
  OBVIOUS
<1> HIDE DEF Once, m
<1>4. PICK f : Iterates(f, Seq(1..Size), <<>>, step, m)
  <2>1. step \in [1..m -> [Seq(1..Size) -> Seq(1..Size)]]
    BY <1>1
  <2> HIDE DEF step
  <2> QED BY <1>0, <1>2, <2>1, Iteration
<1>5. f \in [0..m -> Seq(1..Size)] /\ f[0] = <<>> /\ \A i \in 1..m : f[i] = step[i][f[i - 1]]
  BY <1>4 DEF Iterates
<1>6. ASSUME NEW i \in 1..m  PROVE f[i] = Once(i, f[i - 1])
  <2>1. f[i - 1] \in Seq(1..Size)
    BY <1>0, <1>5
  <2> QED BY <1>5, <2>1
<1>7. Raised(chunks) = after[m]
  BY DEF Raised, Once, m
<1>8. f = Body(f)
  BY <1>0, <1>5, <1>6
<1>9. after = Body(after)
  BY <1>8
<1> HIDE DEF after
<1>10. after[0] = <<>> /\ \A i \in 1..m : after[i] = Once(i, after[i - 1])
  BY <1>0, <1>9
<1> DEFINE N == {i \in Nat : i <= m => /\ after[i] \in Seq(1..Size)
                                       /\ \E q : Told(chunks, i, after[i], q)}
<1>11. 0 \in N
  <2> DEFINE none == [k \in 1..0 |-> k]
  <2>1. Told(chunks, 0, <<>>, none)
    <3>1. Len(<<>>) = 0 /\ none \in [1..0 -> 1..0] /\ 1..0 = {}
      OBVIOUS
    <3> QED BY <3>1 DEF Told
  <2> HIDE DEF none
  <2> QED BY <1>2, <1>10, <2>1
<1>12. ASSUME NEW i \in Nat, i \in N  PROVE i + 1 \in N
  <2> SUFFICES ASSUME i + 1 <= m
               PROVE  /\ after[i + 1] \in Seq(1..Size)
                      /\ \E q : Told(chunks, i + 1, after[i + 1], q)
    OBVIOUS
  <2>1. i <= m /\ i + 1 \in 1..m /\ (i + 1) - 1 = i
    BY <1>0
  <2>2. after[i] \in Seq(1..Size) /\ \E q : Told(chunks, i, after[i], q)
    BY <1>12, <2>1
  <2>3. PICK q : Told(chunks, i, after[i], q)
    BY <2>2
  <2>4. after[i + 1] = Once(i + 1, after[i])
    BY <1>10, <2>1
  <2> HIDE DEF N
  <2>5. i + 1 <= Len(chunks)
    BY DEF m
  <2> QED BY <2>2, <2>3, <2>4, <2>5, OneMoreTold DEF Once
<1> HIDE DEF N
<1>13. m \in N
  BY <1>0, <1>11, <1>12, Induction
<1> QED BY <1>0, <1>7, <1>13 DEF N, m

-----------------------------------------------------------------------------
\* As RemainderOfSum, for numbers below 0 too.
LEMMA RemainderShift ==
  ASSUME NEW n \in Nat \ {0}, NEW a \in Int, NEW b \in Int, NEW k \in Int, a % n = b % n
  PROVE  (a + k) % n = (b + k) % n
<1> DEFINE p == a \div n
           q == b \div n
           u == a % n
           d == (b + k) \div n
           v == (b + k) % n
<1>1. p \in Int /\ q \in Int /\ u \in Int /\ a = n * p + u /\ b = n * q + u
  BY DivisionFacts
<1>2. d \in Int /\ v \in 0..(n - 1) /\ b + k = n * d + v
  BY DivisionFacts
<1> HIDE DEF p, q, u, d, v
<1>3. a + k = n * ((p - q) + d) + v
  <2>1. a + k = n * p - n * q + (b + k)
    BY <1>1
  <2>2. n * ((p - q) + d) = n * p - n * q + n * d
    BY <1>1, <1>2
  <2>3. n * p \in Int /\ n * q \in Int /\ n * d \in Int
    BY <1>1, <1>2
  <2> QED BY <1>2, <2>1, <2>2, <2>3
<1>4. (p - q) + d \in Int
  BY <1>1, <1>2
<1>5. (n * ((p - q) + d) + v) % n = v
  BY <1>2, <1>4, RemainderUnique
<1> QED BY <1>3, <1>5 DEF v

\* One round more.
LEMMA RoundOff ==
  ASSUME NEW n \in Nat \ {0}, NEW x \in Nat
  PROVE  (x + n) % n = x % n
<1> DEFINE q == x \div n
           r == x % n
<1>1. q \in Int /\ r \in 0..(n - 1) /\ x = n * q + r
  BY DivisionFacts
<1> HIDE DEF q, r
<1>2. x + n = n * (q + 1) + r /\ q + 1 \in Int
  BY <1>1
<1>3. (n * (q + 1) + r) % n = r
  BY <1>1, <1>2, RemainderUnique
<1> QED BY <1>2, <1>3 DEF r

\* Of n numbers in a row one is a multiple of n.
LEMMA OneMultiple ==
  ASSUME NEW n \in Nat \ {0}, NEW a \in Int
  PROVE  \E k \in 1..n : \A j \in 1..n : (a + j) % n = 0 <=> j = k
<1> DEFINE d == a \div n
           u == a % n
           k == n - u
<1>1. d \in Int /\ u \in 0..(n - 1) /\ a = n * d + u
  BY DivisionFacts
<1> HIDE DEF d, u
<1>2. k \in 1..n
  BY <1>1
<1>3. ASSUME NEW j \in 1..n  PROVE (a + j) % n = 0 <=> j = k
  <2>1. CASE u + j < n
    <3> DEFINE r == u + j
    <3>1. r \in 1..(n - 1) /\ a + j = n * d + r
      BY <1>1, <2>1
    <3> HIDE DEF r
    <3>2. (n * d + r) % n = r
      BY <1>1, <3>1, RemainderUnique
    <3> QED BY <1>1, <2>1, <3>1, <3>2
  <2>2. CASE u + j >= n
    <3> DEFINE r == u + j - n
               e == d + 1
    <3>1. r \in 0..(n - 1) /\ e \in Int
      BY <1>1, <2>2
    <3>2. a + j = n * e + r
      <4>1. n * e = n * d + n
        BY <1>1
      <4> QED BY <1>1, <4>1
    <3>3. r = 0 <=> j = k
      BY <1>1
    <3> HIDE DEF r, e
    <3>4. (n * e + r) % n = r
      BY <3>1, RemainderUnique
    <3> QED BY <3>2, <3>3, <3>4
  <2> QED BY <1>1, <2>1, <2>2
<1> QED BY <1>2, <1>3

-----------------------------------------------------------------------------
(***************************************************************************)
(* The walk of handle_event: it shows the packets that end before what the *)
(* event tells, and no header is looked for where there is none.           *)
(***************************************************************************)
Payloads == [offset : 0..(Size - 1), length : Read]
Walks == [payloads : Seq(Payloads), length : 0..Size]

\* What grows by m at least in each step.
LEMMA Growth ==
  ASSUME NEW n \in Nat, NEW m \in Nat, NEW b,
         b[0] = 0, \A i \in 0..n : b[i] \in Nat, \A i \in 1..n : m <= b[i] - b[i - 1]
  PROVE  \A i \in 0..n : m * i <= b[i]
<1> DEFINE N == {i \in Nat : i <= n => m * i <= b[i]}
<1>1. 0 \in N
  OBVIOUS
<1>2. ASSUME NEW i \in Nat, i \in N  PROVE i + 1 \in N
  <2> SUFFICES ASSUME i + 1 <= n  PROVE m * (i + 1) <= b[i + 1]
    OBVIOUS
  <2>1. i + 1 \in 1..n /\ (i + 1) - 1 = i /\ i \in 0..n /\ i + 1 \in 0..n /\ m * i <= b[i]
    BY <1>2
  <2>2. b[i] \in Nat /\ b[i + 1] \in Nat /\ m <= b[i + 1] - b[(i + 1) - 1]
    BY <2>1
  <2>3. m * (i + 1) = m * i + m /\ m * i \in Nat
    OBVIOUS
  <2> QED BY <2>1, <2>2, <2>3
<1> HIDE DEF N
<1>3. \A i \in Nat : i \in N
  BY <1>1, <1>2, Induction
<1> QED BY <1>3 DEF N

LEMMA BoundsFacts ==
  ASSUME received \in Nat, NEW b, Bounds(b)
  PROVE  /\ \A i \in 0..received : b[i] \in 0..Size /\ b[i] \in Nat /\ i <= b[i]
         /\ \A i, j \in 0..received : i <= j => b[i] <= b[j]
         /\ 8 * received <= Size
         /\ "short" \notin history => \A i \in 0..received : 16 * i <= b[i]
         /\ \A i \in 1..received : /\ b[i] - b[i - 1] \in Lengths
                                   /\ b[i - 1] + 1 <= b[i] /\ i - 1 \in 0..received
<1>0. Size \in Nat
  BY Constants
<1>1. \A i \in 0..received : b[i] \in 0..Size /\ b[i] \in Nat
  <2>1. b \in [0..received -> 0..Size]
    BY DEF Bounds
  <2> QED BY <1>0, <2>1
<1>2. \A i, j \in 0..received : i <= j => b[i] + (j - i) <= b[j]
  BY DEF Bounds
<1>3. \A i \in 0..received : i <= b[i]
  <2> SUFFICES ASSUME NEW i \in 0..received  PROVE i <= b[i]
    OBVIOUS
  <2>1. b[0] + (i - 0) <= b[i] /\ b[0] = 0
    BY <1>2 DEF Bounds
  <2> QED BY <1>1, <2>1
<1>4. \A i, j \in 0..received : i <= j => b[i] <= b[j]
  <2> SUFFICES ASSUME NEW i \in 0..received, NEW j \in 0..received, i <= j
               PROVE  b[i] <= b[j]
    OBVIOUS
  <2>1. b[i] + (j - i) <= b[j] /\ b[i] \in Nat /\ b[j] \in Nat
    BY <1>1, <1>2
  <2> QED BY <2>1
<1>5. 8 * received <= Size
  <2>1. \A i \in 1..received : 8 <= b[i] - b[i - 1]
    BY Constants DEF Bounds
  <2>2. b[0] = 0 /\ \A i \in 0..received : b[i] \in Nat
    BY <1>1 DEF Bounds
  <2>3. received \in 0..received /\ b[received] <= Size
    BY <1>0, <1>1
  <2>4. 8 * received <= b[received]
    BY <2>1, <2>2, <2>3, Growth
  <2> QED BY <1>0, <1>1, <2>3, <2>4
<1>7. ASSUME "short" \notin history  PROVE \A i \in 0..received : 16 * i <= b[i]
  <2>1. b[0] = 0 /\ \A i \in 0..received : b[i] \in Nat
    BY <1>1 DEF Bounds
  <2>2. \A i \in 1..received : 16 <= b[i] - b[i - 1]
    BY <1>7 DEF Bounds
  <2> QED BY <2>1, <2>2, Growth
<1>6. ASSUME NEW i \in 1..received
      PROVE  /\ b[i] - b[i - 1] \in Lengths
             /\ b[i - 1] + 1 <= b[i] /\ i - 1 \in 0..received
  <2>1. i - 1 \in 0..received /\ i \in 0..received /\ i - 1 <= i /\ i - (i - 1) = 1
    OBVIOUS
  <2>2. b[i - 1] + (i - (i - 1)) <= b[i]
    BY <1>2, <2>1
  <2>3. b[i] - b[i - 1] \in Lengths
    BY DEF Bounds
  <2> QED BY <2>1, <2>2, <2>3
<1> QED BY <1>1, <1>3, <1>4, <1>5, <1>6, <1>7

Shows(b, j, walk) ==
  /\ walk \in Walks
  /\ Len(walk.payloads) = j /\ walk.length = b[j]
  /\ \A i \in 1..j :
       /\ walk.payloads[i] = [offset |-> At(b[i - 1]), length |-> b[i] - b[i - 1]]
       /\ Unpadded(b, i)

(***************************************************************************)
(* A turn shows at most one packet more, of 8 bytes or more, wherever it   *)
(* reads the header.                                                       *)
(***************************************************************************)
LEMMA TurnType ==
  ASSUME prev_offset \in 0..(Size - 1), BufferType,
         NEW completed, NEW word \in Words, NEW a \in 0..Size,
         AccumEnd(completed) - prev_offset = a, AccumEnd(completed) \in Int,
         NEW walk \in Walks, walk.length <= a
  PROVE  LET turn == Turn(completed, word, walk)
         IN  /\ turn \in Walks /\ turn.length <= a
             /\ Astray(walk.payloads) => Astray(turn.payloads)
<1> DEFINE avail  == AccumEnd(completed) - prev_offset - walk.length
           offset == (prev_offset + walk.length) % Size
           length == LengthAt(offset, word)
           p == [offset |-> offset, length |-> length]
           next == [payloads |-> Append(walk.payloads, p), length |-> walk.length + length]
<1>1. /\ Size \in Nat \ {0} /\ walk.length \in 0..Size /\ walk.payloads \in Seq(Payloads)
      /\ avail = a - walk.length /\ avail \in Nat
  BY Constants DEF Walks
<1>2. offset \in 0..(Size - 1)
  <2> DEFINE x == prev_offset + walk.length
  <2>1. x \in Int
    BY <1>1
  <2> HIDE DEF x
  <2>2. x % Size \in 0..(Size - 1)
    BY <1>1, <2>1, DivisionFacts
  <2> QED BY <2>2 DEF x
<1>3. length \in Read
  <2>1. buffer[offset] \in Cells
    BY <1>2 DEF BufferType
  <2>2. buffer[offset][2] = 1 => buffer[offset][3] \in DataLengths
    BY <2>1 DEF Cells
  <2> HIDE DEF offset
  <2> QED BY <2>2 DEF LengthAt, Read
<1>4. length \in Nat
  BY <1>3, Constants
<1>5. Turn(completed, word, walk) =
        IF avail >= 4 /\ Complete(avail, length) THEN next ELSE walk
  BY DEF Turn
<1> HIDE DEF offset, length
<1>6. p \in Payloads
  BY <1>2, <1>3 DEF Payloads
<1>7. ASSUME Complete(avail, length)
      PROVE  /\ next \in Walks /\ next.length <= a
             /\ Astray(walk.payloads) => Astray(next.payloads)
  <2>1. walk.length + length <= a /\ walk.length + length \in 0..Size
    BY <1>1, <1>4, <1>7 DEF Complete
  <2> DEFINE s == walk.payloads
  <2>2. s \in Seq(Payloads)
    BY <1>1
  <2> HIDE DEF p, s
  <2>3. /\ Append(s, p) \in Seq(Payloads) /\ 1..Len(s) \subseteq 1..Len(Append(s, p))
        /\ DOMAIN s = 1..Len(s) /\ DOMAIN Append(s, p) = 1..Len(Append(s, p))
        /\ \A i \in 1..Len(s) : Append(s, p)[i] = s[i]
    BY <1>6, <2>2
  <2>4. Astray(s) => Astray(Append(s, p))
    BY <2>3 DEF Astray
  <2>5. next.payloads = Append(s, p) /\ next.length = walk.length + length
    BY DEF s
  <2> QED BY <2>1, <2>3, <2>4, <2>5 DEF Walks, s
<1> QED BY <1>5, <1>7

LEMMA TurnStep ==
  ASSUME prev_offset \in 0..(Size - 1), received \in Nat, NEW b, Bounds(b), Written(b),
         NEW completed, NEW word, NEW a \in 0..Size, AccumEnd(completed) - prev_offset = a,
         AccumEnd(completed) \in Int,
         a <= b[received], NEW j \in 0..received, b[j] <= a, NEW walk, Shows(b, j, walk)
  PROVE  \/ /\ j = received \/ a < b[j + 1]
            /\ Turn(completed, word, walk) = walk
         \/ /\ j < received /\ b[j + 1] <= a
            /\ Shows(b, j + 1, Turn(completed, word, walk))
         \/ Astray(Turn(completed, word, walk).payloads)
<1> DEFINE avail  == AccumEnd(completed) - prev_offset - walk.length
           offset == (prev_offset + walk.length) % Size
           length == LengthAt(offset, word)
<1>1. /\ b[j] \in 0..Size /\ b[j] \in Nat /\ b[received] \in Nat /\ Size \in Nat
      /\ walk.length = b[j] /\ Len(walk.payloads) = j /\ walk.payloads \in Seq(Payloads)
  <2>1. received \in 0..received
    OBVIOUS
  <2> QED BY <2>1, BoundsFacts, Constants DEF Shows, Walks
<1>2. avail = a - b[j] /\ avail \in Nat
  BY <1>1, Constants
<1>3. offset = At(b[j])
  BY <1>1 DEF At
<1>4. CASE j = received
  <2>1. avail = 0
    BY <1>1, <1>2, <1>4
  <2>2. Turn(completed, word, walk) = walk
    BY <2>1 DEF Turn
  <2> QED BY <1>4, <2>2
<1>5. CASE j < received
  <2> DEFINE l == b[j + 1] - b[j]
             next == [payloads |-> Append(walk.payloads, [offset |-> offset, length |-> length]),
                      length   |-> walk.length + length]
  <2>1. j + 1 \in 1..received /\ (j + 1) - 1 = j
    BY <1>5
  <2>2. /\ l \in Lengths /\ l \in Nat /\ 8 <= l /\ b[j + 1] \in 0..Size
        /\ b[j + 1] \in Nat
    <3>1. b[j + 1] - b[(j + 1) - 1] \in Lengths
      BY <2>1, BoundsFacts
    <3>2. j + 1 \in 0..received
      BY <2>1
    <3>3. b[j + 1] \in 0..Size /\ b[j + 1] \in Nat
      BY <3>2, BoundsFacts
    <3> QED BY <2>1, <3>1, <3>3, Constants
  <2>3. PICK d \in DataLengths : l = Space(d) /\ length = d + 8 /\ Packet(b, j + 1, d)
    <3> DEFINE i == j + 1
    <3>1. i \in 1..received /\ b[i - 1] = b[j] /\ b[i] - b[i - 1] = l
      BY <2>1
    <3>2. PICK d \in DataLengths :
            /\ Packet(b, i, d)
            /\ l = Space(d)
            /\ \A k \in 1..(b[i] - b[i - 1]) :
                 buffer[At(b[i - 1] + k - 1)] = <<i, k, IF k = 1 THEN d ELSE 0>>
      BY <3>1 DEF Written, Packet
    <3>3. 1 \in 1..(b[i] - b[i - 1])
      BY <2>2, <3>1
    <3>4. buffer[At(b[i - 1] + 1 - 1)] = <<i, 1, IF 1 = 1 THEN d ELSE 0>>
      BY <3>2, <3>3
    <3>5. b[i - 1] + 1 - 1 = b[j]
      BY <1>1, <3>1
    <3>6. buffer[offset] = <<i, 1, d>>
      BY <1>3, <3>4, <3>5
    <3> HIDE DEF offset, l
    <3> QED BY <3>2, <3>6 DEF LengthAt
  <2>4. /\ d \in Nat /\ d + 8 <= l /\ length \in Nat
        /\ Read # {} /\ length \in Read
    BY <2>3, Constants DEF Read
  <2>5. Turn(completed, word, walk) = IF avail >= 4 /\ Complete(avail, length) THEN next ELSE walk
    BY DEF Turn
  <2>8. avail >= 4 /\ Complete(avail, length) <=> d + 8 <= avail
    <3>1. Complete(avail, length) <=> avail >= d + 8
      BY <2>3 DEF Complete
    <3> HIDE DEF avail, length
    <3> QED BY <1>2, <2>4, <3>1
  <2>9. avail < d + 8 => a < b[j + 1]
    <3> DEFINE bj == b[j]
               bk == b[j + 1]
    <3>1. avail = a - bj /\ l = bk - bj /\ bj \in Nat /\ bk \in Nat
      BY <1>1, <1>2, <2>2
    <3> HIDE DEF avail, l, bj, bk
    <3>2. avail < d + 8 => a < bk
      BY <2>4, <3>1
    <3> QED BY <3>2 DEF bk
  <2>6. CASE ~(d + 8 <= avail)
    <3>1. Turn(completed, word, walk) = walk
      BY <2>5, <2>6, <2>8
    <3> QED BY <1>2, <2>4, <2>6, <2>9, <3>1
  <2>10. CASE d + 8 <= avail /\ d + 8 # l
    <3> DEFINE p == [offset |-> offset, length |-> length]
               s == walk.payloads
    <3>1. Turn(completed, word, walk).payloads = Append(s, p)
      BY <2>5, <2>8, <2>10
    <3>2. p.length = d + 8 /\ p.length - 8 = d
      BY <2>3, <2>4
    <3> HIDE DEF p
    <3>3. Len(s) + 1 \in DOMAIN Append(s, p) /\ Append(s, p)[Len(s) + 1] = p
      BY <1>1
    <3>4. p.length # Space(p.length - 8)
      BY <2>3, <2>10, <3>2
    <3>5. Astray(Append(s, p))
      BY <3>3, <3>4 DEF Astray
    <3> QED BY <3>1, <3>5
  <2>7. CASE d + 8 <= avail /\ d + 8 = l
    <3>0. length = l /\ b[j + 1] <= a
      <4> DEFINE bj == b[j]
                 bk == b[j + 1]
      <4>1. avail = a - bj /\ l = bk - bj /\ bj \in Nat /\ bk \in Nat
        BY <1>1, <1>2, <2>2
      <4>2. length = l
        BY <2>3, <2>7
      <4> HIDE DEF avail, l, bj, bk, length
      <4>3. bk <= a
        BY <2>7, <4>1
      <4> QED BY <4>2, <4>3 DEF bk
    <3> DEFINE p == [offset |-> offset, length |-> length]
    <3>1. Turn(completed, word, walk) = next
      BY <2>5, <2>7, <2>8
    <3>2. p \in Payloads /\ p = [offset |-> At(b[j]), length |-> b[j + 1] - b[j]]
      <4>1. offset \in 0..(Size - 1)
        BY <1>1, <1>3, AtFacts
      <4> HIDE DEF offset, length
      <4> QED BY <1>3, <2>2, <2>4, <3>0, <4>1 DEF Payloads
    <3>3. next.payloads = Append(walk.payloads, p) /\ next.length = walk.length + length
      OBVIOUS
    <3>4. next.length = b[j + 1]
      <4> HIDE DEF length, next
      <4> DEFINE bj == b[j]
                 bk == b[j + 1]
      <4>1. /\ next.length = walk.length + length /\ walk.length = bj
            /\ length = bk - bj /\ bj \in Nat /\ bk \in Nat
        BY <1>1, <2>2, <3>0, <3>3
      <4> HIDE DEF bj, bk
      <4>2. next.length = bk
        BY <4>1
      <4> QED BY <4>2 DEF bk
    <3>5. next \in Walks
      <4>1. Append(walk.payloads, p) \in Seq(Payloads)
        <5> HIDE DEF p
        <5> QED BY <1>1, <3>2
      <4>2. walk.length + length \in 0..Size
        BY <2>2, <3>3, <3>4
      <4> HIDE DEF length, offset
      <4> QED BY <4>1, <4>2 DEF Walks
    <3> HIDE DEF p, next, length, offset
    <3>6. /\ Len(next.payloads) = j + 1 /\ next.payloads[j + 1] = p
          /\ \A i \in 1..j : next.payloads[i] = walk.payloads[i]
      <4> DEFINE s == walk.payloads
      <4>1. s \in Seq(Payloads) /\ Len(s) = j /\ p \in Payloads
        BY <1>1, <3>2
      <4>2. next.payloads = Append(s, p)
        BY <3>3
      <4> HIDE DEF s
      <4>3. /\ Len(Append(s, p)) = j + 1 /\ Append(s, p)[j + 1] = p
            /\ \A i \in 1..j : Append(s, p)[i] = s[i]
        BY <4>1
      <4> QED BY <4>2, <4>3 DEF s
    <3>7. ASSUME NEW i \in 1..(j + 1)
          PROVE  /\ next.payloads[i] = [offset |-> At(b[i - 1]), length |-> b[i] - b[i - 1]]
                 /\ Unpadded(b, i)
      <4>1. CASE i \in 1..j
        BY <3>6, <4>1 DEF Shows
      <4>2. CASE i = j + 1
        <5>1. b[i] - b[i - 1] = d + 8 /\ Packet(b, i, d)
          BY <2>1, <2>3, <2>7, <4>2
        <5>2. Unpadded(b, i)
          BY <5>1 DEF Unpadded
        <5> QED BY <2>1, <3>2, <3>6, <4>2, <5>2
      <4> QED BY <4>1, <4>2
    <3>8. Shows(b, j + 1, next)
      BY <3>4, <3>5, <3>6, <3>7 DEF Shows
    <3> QED BY <1>5, <3>0, <3>1, <3>8
  <2> QED BY <2>6, <2>7, <2>10
<1> QED BY <1>4, <1>5

(***************************************************************************)
(* The walk stays in a set of walks that the turns do not leave.           *)
(***************************************************************************)
LEMMA WalkIteration ==
  ASSUME NEW completed, NEW words \in [1..MaxTurns -> Words], NEW S,
         [payloads |-> <<>>, length |-> 0] \in S,
         \A w \in S, word \in Words : Turn(completed, word, w) \in S
  PROVE  \E after \in [0..MaxTurns -> S] :
           /\ after[0] = [payloads |-> <<>>, length |-> 0]
           /\ \A n \in 1..MaxTurns :
                after[n] = Turn(completed, words[n], after[n - 1])
           /\ Walk(completed, words) = after[MaxTurns]
<1> DEFINE Once(n, w) == Turn(completed, words[n], w)
           base == [payloads |-> <<>>, length |-> 0]
           step == [n \in 1..MaxTurns |-> [w \in S |-> Once(n, w)]]
           Body(f) == [n \in 0..MaxTurns |-> IF n = 0 THEN base ELSE Once(n, f[n - 1])]
           after[n \in 0..MaxTurns] == IF n = 0 THEN base ELSE Once(n, after[n - 1])
<1>0. MaxTurns \in Nat
  BY Constants
<1>1. ASSUME NEW n \in 1..MaxTurns, NEW w \in S  PROVE Once(n, w) \in S
  OBVIOUS
<1>2. base \in S
  OBVIOUS
<1>3. Walk(completed, words) = after[MaxTurns]
  BY DEF Walk
<1> HIDE DEF base, Once
<1>4. PICK f : Iterates(f, S, base, step, MaxTurns)
  <2>1. step \in [1..MaxTurns -> [S -> S]]
    BY <1>1
  <2> HIDE DEF step
  <2> QED BY <1>0, <1>2, <2>1, Iteration
<1>5. /\ f \in [0..MaxTurns -> S] /\ f[0] = base
      /\ \A n \in 1..MaxTurns : f[n] = step[n][f[n - 1]]
  BY <1>4 DEF Iterates
<1>6. ASSUME NEW n \in 1..MaxTurns  PROVE f[n] = Once(n, f[n - 1])
  <2>1. f[n - 1] \in S
    BY <1>0, <1>5
  <2> QED BY <1>5, <2>1
<1>7. f = Body(f)
  BY <1>0, <1>5, <1>6
<1>8. after = Body(after)
  BY <1>7
<1> HIDE DEF after
<1>9. after[0] = base /\ \A n \in 1..MaxTurns : after[n] = Once(n, after[n - 1])
  BY <1>0, <1>8
<1> DEFINE N == {n \in Nat : n <= MaxTurns => after[n] \in S}
<1>10. 0 \in N
  BY <1>2, <1>9
<1>11. ASSUME NEW n \in Nat, n \in N  PROVE n + 1 \in N
  <2> SUFFICES ASSUME n + 1 <= MaxTurns  PROVE after[n + 1] \in S
    OBVIOUS
  <2>1. after[n] \in S /\ n + 1 \in 1..MaxTurns /\ (n + 1) - 1 = n
    BY <1>0, <1>11
  <2> QED BY <1>1, <1>9, <2>1
<1> HIDE DEF N
<1>12. \A n \in Nat : n \in N
  BY <1>10, <1>11, Induction
<1>13. \A n \in 0..MaxTurns : after[n] \in S
  BY <1>0, <1>12 DEF N
<1>14. after = [n \in 0..MaxTurns |-> after[n]]
  BY <1>8
<1>15. after \in [0..MaxTurns -> S]
  BY <1>13, <1>14
<1> QED BY <1>3, <1>9, <1>15 DEF Once, base

LEMMA WalkType ==
  ASSUME prev_offset \in 0..(Size - 1), BufferType, NEW completed \in 1..Size,
         NEW words \in [1..MaxTurns -> Words]
  PROVE  Walk(completed, words) \in Walks
<1> DEFINE a == AccumEnd(completed) - prev_offset
           S == {w \in Walks : w.length <= a}
           base == [payloads |-> <<>>, length |-> 0]
<1>1. Size \in Nat \ {0} /\ AccumEnd(completed) \in Int /\ a \in 0..Size
  BY Constants DEF AccumEnd
<1>2. base \in S
  <2>1. base \in Walks /\ base.length = 0
    BY <1>1 DEF Walks
  <2> HIDE DEF base, a
  <2> QED BY <1>1, <2>1
<1>3. ASSUME NEW w \in S, NEW word \in Words  PROVE Turn(completed, word, w) \in S
  <2> DEFINE c == a
  <2>1. c \in 0..Size /\ AccumEnd(completed) - prev_offset = c /\ w.length <= c
    BY <1>1
  <2> HIDE DEF c
  <2>2. Turn(completed, word, w) \in Walks /\ Turn(completed, word, w).length <= c
    BY <1>1, <2>1, TurnType
  <2> QED BY <2>2 DEF c
<1>4. PICK after \in [0..MaxTurns -> S] : Walk(completed, words) = after[MaxTurns]
  <2> HIDE DEF S
  <2> QED BY <1>2, <1>3, WalkIteration
<1>5. after[MaxTurns] \in S
  BY Constants
<1> QED BY <1>4, <1>5

(***************************************************************************)
(* The walk shows the packets that end before what the event tells, or it  *)
(* has gone astray.                                                        *)
(***************************************************************************)
LEMMA WalkFacts ==
  ASSUME prev_offset \in 0..(Size - 1), BufferType, received \in Nat,
         NEW b, Bounds(b), Written(b),
         NEW completed, NEW words \in [1..MaxTurns -> Words], NEW a \in 0..Size,
         AccumEnd(completed) - prev_offset = a, AccumEnd(completed) \in Int,
         a <= b[received]
  PROVE  \/ Astray(Walk(completed, words).payloads)
         \/ \E j \in 0..received :
              /\ Shows(b, j, Walk(completed, words)) /\ b[j] <= a
              /\ j < received => a < b[j + 1]
<1> DEFINE End(j) == j < received => a < b[j + 1]
           S == {w \in Walks : w.length <= a}
           base == [payloads |-> <<>>, length |-> 0]
<1>0. Size \in Nat /\ MaxTurns \in Nat
  BY Constants
<1>1. Shows(b, 0, base) /\ b[0] <= a /\ 0 \in 0..received
  <2>1. b[0] = 0
    BY DEF Bounds
  <2>2. base \in Walks /\ base.length = 0 /\ base.payloads = <<>> /\ Len(<<>>) = 0
    <3>1. <<>> \in Seq(Payloads) /\ 0 \in 0..Size
      BY <1>0
    <3> QED BY <3>1 DEF Walks
  <2> HIDE DEF base
  <2> QED BY <2>1, <2>2 DEF Shows
<1>2. base \in S
  <2>1. base.length = 0 /\ 0 <= a
    OBVIOUS
  <2> HIDE DEF base
  <2> QED BY <1>1, <2>1 DEF Shows
<1>3. ASSUME NEW w \in S, NEW word \in Words  PROVE Turn(completed, word, w) \in S
  BY TurnType
<1>4. PICK after \in [0..MaxTurns -> S] :
        /\ after[0] = base
        /\ \A n \in 1..MaxTurns : after[n] = Turn(completed, words[n], after[n - 1])
        /\ Walk(completed, words) = after[MaxTurns]
  <2> HIDE DEF S
  <2> QED BY <1>2, <1>3, WalkIteration
<1> DEFINE N == {n \in Nat : n <= MaxTurns =>
                   \/ Astray(after[n].payloads)
                   \/ \E j \in 0..received : /\ Shows(b, j, after[n]) /\ b[j] <= a
                                             /\ j = n \/ End(j)}
<1>11. 0 \in N
  BY <1>1, <1>4
<1>12. ASSUME NEW n \in Nat, n \in N  PROVE n + 1 \in N
  <2> SUFFICES ASSUME n + 1 <= MaxTurns
               PROVE  \/ Astray(after[n + 1].payloads)
                      \/ \E j \in 0..received : /\ Shows(b, j, after[n + 1]) /\ b[j] <= a
                                                /\ j = n + 1 \/ End(j)
    OBVIOUS
  <2>1. /\ n <= MaxTurns /\ n + 1 \in 1..MaxTurns /\ (n + 1) - 1 = n
        /\ words[n + 1] \in Words /\ after[n] \in Walks /\ after[n].length <= a
    BY <1>0, <1>4
  <2>2. after[n + 1] = Turn(completed, words[n + 1], after[n])
    BY <1>4, <2>1
  <2>3. CASE Astray(after[n].payloads)
    BY <2>1, <2>2, <2>3, TurnType
  <2>4. CASE ~Astray(after[n].payloads)
    <3>1. PICK j \in 0..received : Shows(b, j, after[n]) /\ b[j] <= a /\ (j = n \/ End(j))
      BY <1>12, <2>1, <2>4
    <3>2. \/ (j = received \/ a < b[j + 1]) /\ after[n + 1] = after[n]
          \/ j < received /\ b[j + 1] <= a /\ Shows(b, j + 1, after[n + 1])
          \/ Astray(after[n + 1].payloads)
      BY <2>2, <3>1, TurnStep
    <3> HIDE DEF N
    <3>3. CASE (j = received \/ a < b[j + 1]) /\ after[n + 1] = after[n]
      <4>1. End(j)
        BY <3>3
      <4> HIDE DEF End
      <4> QED BY <3>1, <3>3, <4>1
    <3>4. CASE j < received /\ b[j + 1] <= a /\ Shows(b, j + 1, after[n + 1])
      <4>1. j + 1 \in 0..received
        BY <3>4
      <4>2. ~End(j)
        <5>1. b[j + 1] \in Nat
          BY <4>1, BoundsFacts
        <5> QED BY <1>0, <3>4, <5>1
      <4> HIDE DEF End
      <4>3. j = n
        BY <3>1, <4>2
      <4> QED BY <3>4, <4>1, <4>3
    <3> QED BY <3>2, <3>3, <3>4
  <2> QED BY <2>3, <2>4
<1> HIDE DEF N
<1>13. MaxTurns \in N
  BY <1>0, <1>11, <1>12, Induction
<1>14. ASSUME NEW j \in 0..received, j = MaxTurns \/ End(j)  PROVE End(j)
  <2> SUFFICES ASSUME j = MaxTurns, j < received  PROVE FALSE
    BY <1>14
  <2>1. 8 * received <= Size /\ Size < 8 * MaxTurns + 8
    BY BoundsFacts, Constants
  <2> QED BY <1>0, <2>1
<1> HIDE DEF End
<1>15. \/ Astray(after[MaxTurns].payloads)
       \/ \E j \in 0..received : Shows(b, j, after[MaxTurns]) /\ b[j] <= a /\ End(j)
  BY <1>0, <1>13, <1>14 DEF N
<1> QED BY <1>4, <1>15 DEF End

-----------------------------------------------------------------------------
(***************************************************************************)
(* The steps, first those that move no packet.                             *)
(***************************************************************************)
LEMMA EmptyBuffer ==
  Empty \in [0..(Size - 1) -> Cells]
<1>1. Blank \in Cells
  BY Constants DEF Blank, Cells
<1> QED BY <1>1 DEF Empty

LEMMA InitIInv == Init => IInv
<1> SUFFICES ASSUME Init  PROVE IInv
  OBVIOUS
<1>1. /\ st \in StateType /\ st.data = <<>> /\ st.curr_offset = 0 /\ ~st.running
      /\ st.addr = "null"
  BY InitEffect DEF Init
<1>2. Size \in Nat \ {0} /\ MaxInt \in Nat \ {0} /\ ChunksPerBuffer \in Nat \ {0}
      /\ BytesPerChunk \in Nat \ {0} /\ MaxEvents \in Nat
  BY Constants, FwIsoIrMultipleAssumption
<1>3. HwType
  BY <1>2 DEF Init, HwType
<1>4. OtherTypes
  <2>1. /\ 0 \in 0..(Size - 1) /\ 0 < ChunksPerBuffer /\ 0 \in 0..(MaxInt - 1)
        /\ 0 \in Nat /\ 0 \in Intervals \cup {0}
    BY <1>2
  <2>2. {} \subseteq {"mapped", "started", "failed", "round", "short", "astray", "overrun"} /\ FALSE \in BOOLEAN
    OBVIOUS
  <2>3. /\ prev_offset = 0 /\ chunks_per_irq = 0 /\ accumulated_chunk_count = 0
        /\ handling = FALSE /\ attached = FALSE /\ history = {} /\ received = 0
    BY DEF Init
  <2> QED BY <2>1, <2>2, <2>3 DEF OtherTypes
<1>5. BufferType
  BY EmptyBuffer DEF Init, BufferType
<1>6. HandlerType
  <2>1. <<>> \in Seq([offset : 0..(Size - 1), length : Read]) /\ Len(<<>>) = 0
    OBVIOUS
  <2> QED BY <1>2, <2>1 DEF Init, HandlerType
<1>7. Phases
  BY <1>1 DEF Init, Phases, BeforeStart
<1>8. Stream /\ Marked
  BY <1>1 DEF Stream, Marked
<1> QED BY <1>1, <1>3, <1>4, <1>5, <1>6, <1>7, <1>8 DEF IInv

LEMMA WrittenKept ==
  ASSUME NEW b, Written(b), UNCHANGED <<prev_offset, received, buffer>>
  PROVE  Written(b)'
<1> SUFFICES ASSUME NEW i \in 1..received  PROVE \E d \in DataLengths : Packet(b, i, d)'
  BY DEF Written
<1>1. PICK d \in DataLengths : Packet(b, i, d)
  BY DEF Written
<1>2. Packet(b, i, d)'
  BY <1>1 DEF Packet, At
<1> QED BY <1>2

LEMMA UnpaddedKept ==
  ASSUME NEW b, NEW i, Unpadded(b, i), UNCHANGED <<prev_offset, buffer>>
  PROVE  Unpadded(b, i)'
<1>1. PICK d \in DataLengths : Packet(b, i, d) /\ b[i] - b[i - 1] = d + 8
  BY DEF Unpadded
<1>2. Packet(b, i, d)'
  BY <1>1 DEF Packet, At
<1> QED BY <1>1, <1>2 DEF Unpadded

\* What a step keeps of the stream when the hardware goes on as it was or stops.
LEMMA StreamKept ==
  ASSUME st \in StateType, OtherTypes, Stream,
         UNCHANGED <<prev_offset, received, buffer, ctx_payloads, accum_length, devq>>,
         st'.addr = "mapped" => st.addr = "mapped",
         Len(st'.data) <= Len(st.data) /\ Len(st'.data) \in Nat,
         history \subseteq history',
         st'.running => /\ st.running /\ UNCHANGED <<ring, fill, untold>>
                        /\ st'.curr_offset = st.curr_offset
  PROVE  Stream'
<1> SUFFICES ASSUME st'.addr = "mapped", "astray" \notin history'
             PROVE  \E b : /\ Bounds(b)' /\ Written(b)' /\ Showing(b)' /\ Holding(b)'
                           /\ \E e : Events(b, e)'
  BY DEF Stream
<1>1. PICK b : /\ Bounds(b) /\ Written(b) /\ Showing(b) /\ Holding(b)
               /\ \E e : Events(b, e)
  BY DEF Stream
<1>2. PICK e : Events(b, e)
  BY <1>1
<1>3. /\ prev_offset' = prev_offset /\ received' = received /\ buffer' = buffer
      /\ ctx_payloads' = ctx_payloads /\ accum_length' = accum_length /\ devq' = devq
  OBVIOUS
<1>4. Bounds(b)'
  BY <1>1, <1>3 DEF Bounds
<1>5. Written(b)'
  BY <1>1, <1>3, WrittenKept
<1>6. Showing(b)'
  <2>1. \A i : Unpadded(b, i) => Unpadded(b, i)'
    BY <1>3, UnpaddedKept
  <2> QED BY <1>1, <1>3, <2>1 DEF Showing, At
<1>7. Holding(b)'
  <2>1. ChunkAt(0)' = ChunkAt(0) /\ ChunkAt(b[received])' = ChunkAt(b[received])
    BY <1>3 DEF ChunkAt
  <2>2. ChunkAt(0) \in Nat /\ ChunkAt(b[received]) \in Nat /\ Len(st.data) \in Nat
        /\ ChunksPerBuffer \in Nat
    <3>1. received \in 0..received /\ received \in Nat
      BY DEF OtherTypes
    <3>2. b[received] \in 0..Size /\ 0 \in 0..Size
      BY <1>1, <3>1, BoundsFacts, Constants
    <3>3. prev_offset \in 0..(Size - 1)
      BY DEF OtherTypes
    <3>4. ChunkAt(0) \in Nat /\ ChunkAt(b[received]) \in Nat
      BY <3>2, <3>3, AtFacts
    <3>5. Len(st.data) \in Nat
      BY DEF StateType, StateRecords
    <3> QED BY <3>4, <3>5, Constants
  <2>3. Len(st'.data) + ChunkAt(b[received])' <= ChunkAt(0)' + ChunksPerBuffer
    <3>1. Len(st.data) + ChunkAt(b[received]) <= ChunkAt(0) + ChunksPerBuffer
      BY <1>1 DEF Holding
    <3> QED BY <2>1, <2>2, <3>1
  <2>4. ASSUME st'.running
        PROVE  /\ fill' = (prev_offset' + b[received']) % BytesPerChunk
               /\ Len(ring') + ChunkAt(b[received])' = ChunkAt(0)' + ChunksPerBuffer
               /\ \A i \in 1..Len(ring') :
                    ring'[i].chunk = (ChunkAt(b[received])' + i - 1) % ChunksPerBuffer
               /\ st'.curr_offset = ChunkAt(0)'
    <3>1. ring' = ring /\ fill' = fill /\ st.running /\ st'.curr_offset = st.curr_offset
      BY <2>4
    <3> QED BY <1>1, <1>3, <2>1, <3>1 DEF Holding
  <2> QED BY <2>3, <2>4 DEF Holding
<1>8. Events(b, e)'
  <2>1. \A r : Mark(r)' = Mark(r)
    BY <1>3 DEF Mark, At
  <2>2. st'.running => st.running /\ untold' = untold
    OBVIOUS
  <2> QED BY <1>2, <1>3, <2>1, <2>2 DEF Events
<1> QED BY <1>4, <1>5, <1>6, <1>7, <1>8

LEMMA MarkedKept ==
  ASSUME Marked, UNCHANGED <<chunks_per_irq, accumulated_chunk_count>>,
         st'.running => st.running /\ ring' = ring
  PROVE  Marked'
  BY DEF Marked

\* Steps that leave everything but st, attached and the hardware alone.
LEMMA ObjectKept ==
  ASSUME IInv, UNCHANGED <<object, handler, received, history>>, attached' \in BOOLEAN
  PROVE  /\ OtherTypes' /\ HandlerType'
         /\ buffer' \in {buffer, Empty} => BufferType'
<1>1. OtherTypes'
  BY DEF IInv, OtherTypes, object, handler
<1>2. HandlerType'
  BY DEF IInv, HandlerType, handler
<1>3. buffer' \in {buffer, Empty} => BufferType'
  BY EmptyBuffer DEF IInv, BufferType
<1> QED BY <1>1, <1>2, <1>3

LEMMA AllocateStep == ASSUME IInv, Allocate  PROVE IInv'
<1>1. /\ st \in StateType /\ HwType /\ OtherTypes /\ Phases /\ Stream /\ Marked
      /\ st' = StateAllocate(st)
      /\ UNCHANGED <<object, handler, attached, hw, buffer, received, history>>
  BY DEF IInv, Allocate
<1>2. /\ st' \in StateType /\ st'.data = st.data /\ st'.curr_offset = st.curr_offset
      /\ st'.running = st.running /\ st'.addr = st.addr
      /\ st'.chunks_per_buffer = st.chunks_per_buffer
  BY <1>1, AllocateEffect
<1>3. OtherTypes' /\ HandlerType' /\ BufferType'
  BY <1>1, ObjectKept DEF OtherTypes
<1>4. HwType'
  BY <1>1 DEF HwType, hw
<1>5. Phases'
  BY <1>1, <1>2 DEF Phases, BeforeStart, hw, handler, object
<1>6. Stream'
  <2>1. Len(st.data) \in Nat
    BY <1>1 DEF StateType, StateRecords
  <2> QED BY <1>1, <1>2, <2>1, StreamKept DEF hw, handler, object
<1>7. Marked'
  BY <1>1, <1>2, MarkedKept DEF hw, object
<1> QED BY <1>2, <1>3, <1>4, <1>5, <1>6, <1>7 DEF IInv

LEMMA SourceStep ==
  ASSUME IInv, CreateSource \/ DestroySource \/ UNCHANGED vars
  PROVE  IInv'
<1>1. /\ st \in StateType /\ HwType /\ OtherTypes /\ Phases /\ Stream /\ Marked
      /\ UNCHANGED <<st, object, handler, hw, buffer, received, history>>
      /\ attached' \in BOOLEAN /\ (attached' => attached \/ st.addr = "mapped")
  <2>1. attached \in BOOLEAN
    BY DEF IInv, OtherTypes
  <2>2. CASE CreateSource
    BY <2>1, <2>2 DEF IInv, CreateSource
  <2>3. CASE DestroySource
    BY <2>1, <2>3 DEF IInv, DestroySource
  <2>4. CASE UNCHANGED vars
    BY <2>1, <2>4 DEF IInv, vars
  <2> QED BY <2>2, <2>3, <2>4
<1>3. OtherTypes' /\ HandlerType' /\ BufferType'
  BY <1>1, ObjectKept
<1>4. HwType'
  BY <1>1 DEF HwType, hw
<1>5. Phases'
  BY <1>1 DEF Phases, BeforeStart, hw, handler, object
<1>6. Stream'
  <2>1. Len(st.data) \in Nat
    BY <1>1 DEF StateType, StateRecords
  <2> QED BY <1>1, <2>1, StreamKept DEF hw, handler, object
<1>7. Marked'
  BY <1>1, MarkedKept DEF hw, object
<1> QED BY <1>1, <1>3, <1>4, <1>5, <1>6, <1>7 DEF IInv

LEMMA StoppedHw ==
  ASSUME HwType, Phases, NEW s, StopOr(s)
  PROVE  /\ HwType' /\ st' = s /\ devq' = devq
         /\ ~st.running => UNCHANGED hw
         /\ fill' = 0 /\ untold' = 0
         /\ "started" \notin history => ring' = <<>>
<1>0. Size \in Nat /\ 0 \in 0..(BytesPerChunk - 1)
  BY Constants
<1>1. CASE st.running
  BY <1>0, <1>1 DEF StopOr, HwStop, HwType, Phases, BeforeStart
<1>2. CASE ~st.running
  BY <1>0, <1>2 DEF StopOr, hw, HwType, Phases, BeforeStart
<1> QED BY <1>1, <1>2

LEMMA StopStep == ASSUME IInv, Stop  PROVE IInv'
<1>1. /\ st \in StateType /\ HwType /\ OtherTypes /\ Phases /\ Stream /\ Marked
      /\ StopOr(StateStop(st))
      /\ UNCHANGED <<object, handler, attached, buffer, received, history>>
  BY DEF IInv, Stop
<1>2. /\ st' \in StateType /\ ~st'.running /\ st'.addr = st.addr
      /\ st'.chunks_per_buffer = st.chunks_per_buffer
      /\ ~st.running => st' = st
      /\ st.running => st'.data = <<>> /\ st'.curr_offset = 0
  BY <1>1, StopEffect, StoppedHw
<1>3. OtherTypes' /\ HandlerType' /\ BufferType'
  BY <1>1, ObjectKept DEF OtherTypes
<1>4. /\ HwType' /\ devq' = devq /\ fill' = 0 /\ untold' = 0
      /\ "started" \notin history => ring' = <<>>
  BY <1>1, StoppedHw
<1>5. Phases'
  <2>1. BeforeStart'
    BY <1>1, <1>2, <1>4 DEF Phases, BeforeStart, object, handler
  <2>2. st'.addr = "mapped" /\ "failed" \notin history' => st'.data = <<>>
    BY <1>1, <1>2 DEF Phases
  <2> QED BY <1>1, <1>2, <1>4, <2>1, <2>2 DEF Phases
<1>6. Stream'
  <2>1. Len(st'.data) <= Len(st.data) /\ Len(st'.data) \in Nat
    <3>1. Len(st.data) \in Nat /\ Len(<<>>) = 0
      BY <1>1 DEF StateType, StateRecords
    <3> QED BY <1>2, <3>1
  <2> QED BY <1>1, <1>2, <1>4, <2>1, StreamKept DEF handler, object
<1>7. Marked'
  BY <1>2 DEF Marked
<1> QED BY <1>2, <1>3, <1>4, <1>5, <1>6, <1>7 DEF IInv

\* The buffer goes away, and with it the stream.
LEMMA UnmappedStep ==
  ASSUME IInv, UNCHANGED <<object, handler, received, history>>,
         st' \in {StateUnmapBuffer(StateStop(st)), StateRelease(StateUnmapBuffer(StateStop(st)))},
         HwType', fill' = 0 /\ untold' = 0, devq' \in {devq, <<>>},
         "started" \notin history => ring' = <<>>, attached' = FALSE, buffer' = Empty
  PROVE  IInv'
<1>1. st \in StateType /\ Phases
  BY DEF IInv
<1>2. /\ StateStop(st) \in StateType /\ ~StateStop(st).running
      /\ StateStop(st).chunks_per_buffer = st.chunks_per_buffer
      /\ st.data = <<>> => StateStop(st).data = <<>>
      /\ st.curr_offset = 0 => StateStop(st).curr_offset = 0
  BY <1>1, StopEffect
<1>3. /\ st' \in StateType /\ ~st'.running /\ st'.addr = "null"
      /\ st'.chunks_per_buffer = st.chunks_per_buffer
      /\ st.data = <<>> => st'.data = <<>>
      /\ st.curr_offset = 0 => st'.curr_offset = 0
  <2> DEFINE s == StateStop(st)
  <2>1. s \in StateType /\ ~s.running /\ st' \in {StateUnmapBuffer(s), StateRelease(StateUnmapBuffer(s))}
    BY <1>2
  <2> HIDE DEF s
  <2>2. /\ st' \in StateType /\ ~st'.running /\ st'.addr = "null"
        /\ st'.chunks_per_buffer = s.chunks_per_buffer /\ st'.curr_offset = s.curr_offset
        /\ s.data = <<>> => st'.data = <<>>
    BY <2>1, UnmapEffect
  <2> QED BY <1>2, <2>2 DEF s
<1>4. OtherTypes' /\ HandlerType' /\ BufferType'
  BY ObjectKept
<1>5. Phases'
  <2>1. BeforeStart'
    BY <1>1, <1>3 DEF Phases, BeforeStart, object, handler
  <2> QED BY <1>1, <1>3, <2>1 DEF Phases
<1>6. Stream' /\ Marked'
  BY <1>3 DEF Stream, Marked
<1> QED BY <1>3, <1>4, <1>5, <1>6 DEF IInv

LEMMA UnmapSteps == ASSUME IInv, UnmapBuffer \/ Release  PROVE IInv'
<1>1. CASE UnmapBuffer
  <2>1. /\ StopOr(StateUnmapBuffer(StateStop(st))) /\ ~attached /\ attached' = attached
        /\ UNCHANGED <<object, handler, received, history>> /\ buffer' = Empty
    BY <1>1 DEF UnmapBuffer
  <2>2. /\ HwType' /\ devq' = devq /\ fill' = 0 /\ untold' = 0
        /\ "started" \notin history => ring' = <<>>
        /\ st' = StateUnmapBuffer(StateStop(st))
    BY <2>1, StoppedHw DEF IInv
  <2>3. attached' = FALSE
    BY <2>1 DEF IInv, OtherTypes
  <2> QED BY <2>1, <2>2, <2>3, UnmappedStep
<1>2. CASE Release
  <2>1. /\ st' = StateRelease(StateUnmapBuffer(StateStop(st))) /\ attached' = FALSE
        /\ UNCHANGED <<object, handler, received, history>> /\ buffer' = Empty
        /\ ring' = <<>> /\ fill' = 0 /\ untold' = 0 /\ devq' = <<>>
    BY <1>2 DEF Release, HwClose
  <2>2. HwType'
    <3>1. /\ <<>> \in Seq(Held) /\ <<>> \in Seq(1..Size) /\ Len(<<>>) = 0
          /\ 0 \in 0..(BytesPerChunk - 1) /\ 0 \in 0..Size /\ 0 <= MaxEvents
      BY Constants, FwIsoIrMultipleAssumption
    <3> QED BY <2>1, <3>1 DEF HwType
  <2> QED BY <2>1, <2>2, UnmappedStep
<1> QED BY <1>1, <1>2

\* A stream without a packet.
LEMMA NewStream ==
  ASSUME st' \in StateType, st'.addr = "mapped", received' = 0, prev_offset' = 0,
         ctx_payloads' = <<>>, accum_length' = 0, devq' = <<>>,
         fill' = 0, untold' = 0, Len(st'.data) <= ChunksPerBuffer,
         st'.running => /\ Len(ring') = ChunksPerBuffer /\ st'.curr_offset = 0
                        /\ \A i \in 1..ChunksPerBuffer :
                             ring'[i].chunk = (0 + (i - 1)) % ChunksPerBuffer
  PROVE  Stream'
<1> DEFINE z == [i \in 0..0 |-> 0]
<1>1. /\ z[0] = 0 /\ z \in [0..0 -> 0..Size] /\ Size \in Nat \ {0}
      /\ ChunksPerBuffer \in Nat \ {0} /\ BytesPerChunk \in Nat \ {0} /\ Len(<<>>) = 0
  BY Constants
<1> HIDE DEF z
<1>2. ChunkAt(0)' = 0 /\ (0 + 0) % BytesPerChunk = 0
  <2>1. (0 * BytesPerChunk + 0) \div BytesPerChunk = 0
        /\ (0 * BytesPerChunk + 0) % BytesPerChunk = 0
    BY <1>1, ChunkAndByte
  <2>2. 0 * BytesPerChunk + 0 = 0 /\ 0 + 0 = 0
    BY <1>1
  <2> QED BY <2>1, <2>2 DEF ChunkAt
<1>3. Bounds(z)'
  BY <1>1 DEF Bounds
<1>4. Written(z)'
  BY DEF Written
<1>5. Showing(z)'
  BY <1>1 DEF Showing
<1>6. Holding(z)'
  <2>1. z[received'] = 0 /\ ChunkAt(z[received])' = 0
    BY <1>1, <1>2
  <2>2. Len(st'.data) \in Nat
    BY DEF StateType, StateRecords
  <2>3. Len(st'.data) + 0 <= 0 + ChunksPerBuffer
    BY <1>1, <2>2
  <2>4. fill' = (prev_offset' + z[received']) % BytesPerChunk
    BY <1>2, <2>1
  <2>5. ASSUME st'.running
        PROVE  /\ Len(ring') + 0 = 0 + ChunksPerBuffer
               /\ \A i \in 1..Len(ring') : ring'[i].chunk = (0 + i - 1) % ChunksPerBuffer
               /\ st'.curr_offset = 0
    <3>1. Len(ring') = ChunksPerBuffer /\ st'.curr_offset = 0
          /\ \A i \in 1..ChunksPerBuffer : ring'[i].chunk = (0 + (i - 1)) % ChunksPerBuffer
      BY <2>5
    <3>2. \A i \in 1..ChunksPerBuffer : 0 + (i - 1) = 0 + i - 1
      OBVIOUS
    <3> QED BY <1>1, <3>1, <3>2
  <2> QED BY <1>2, <2>1, <2>3, <2>4, <2>5 DEF Holding
<1>7. Events(z, z)'
  <2>1. z[Len(devq')] = 0 /\ z[received'] = 0
    BY <1>1
  <2>2. accum_length' <= z[0] /\ z[Len(devq')] <= z[received']
    BY <1>1, <2>1
  <2>3. ~(Len(ctx_payloads') < received')
    BY <1>1
  <2>4. \A i, j \in 0..Len(devq') : ~(i < j)
    BY <1>1
  <2>5. 1..Len(devq') = {} /\ z \in [0..Len(devq') -> 0..Size]
    BY <1>1
  <2> QED BY <2>1, <2>2, <2>3, <2>4, <2>5 DEF Events
<1> QED BY <1>3, <1>4, <1>5, <1>6, <1>7 DEF Stream

LEMMA MapBufferStep == ASSUME IInv, MapBuffer  PROVE IInv'
<1>1. /\ st \in StateType /\ HwType /\ OtherTypes /\ Phases /\ HandlerType /\ BufferType
      /\ "mapped" \notin history /\ MapBufferError(st) = "none"
      /\ UNCHANGED <<object, handler, attached, hw, received>>
  BY DEF IInv, MapBuffer
<1>2. /\ "started" \notin history /\ ring = <<>> /\ fill = 0 /\ untold = 0 /\ devq = <<>>
      /\ received = 0 /\ ~handling /\ prev_offset = 0 /\ st.data = <<>>
      /\ st.curr_offset = 0 /\ ~st.running /\ ctx_payloads = <<>> /\ accum_length = 0
      /\ st.addr # "mapped" /\ ~attached
  BY <1>1 DEF Phases, BeforeStart, HandlerType
<1>3. PICK t \in {StateMapBuffer(st, 1, ChunksPerBuffer), StateMapFailed(st, ChunksPerBuffer)} :
        /\ st' = t
        /\ t = StateMapBuffer(st, 1, ChunksPerBuffer) =>
             buffer' = Empty /\ history' = history \cup {"mapped"}
        /\ t # StateMapBuffer(st, 1, ChunksPerBuffer) => UNCHANGED <<buffer, history>>
  <2>1. CASE st' = StateMapBuffer(st, 1, ChunksPerBuffer) /\ buffer' = Empty
             /\ history' = history \cup {"mapped"}
    BY <2>1
  <2>2. CASE st' = StateMapFailed(st, ChunksPerBuffer) /\ UNCHANGED <<buffer, history>>
    <3>1. StateMapFailed(st, ChunksPerBuffer).addr = "failed"
      BY <1>1, <1>2, MapEffect
    <3>2. StateMapBuffer(st, 1, ChunksPerBuffer).addr = "mapped"
      BY <1>1, <1>2, MapEffect
    <3>3. StateMapFailed(st, ChunksPerBuffer) # StateMapBuffer(st, 1, ChunksPerBuffer)
      BY <3>1, <3>2
    <3> QED BY <2>2, <3>3
  <2> QED BY <2>1, <2>2 DEF MapBuffer
<1>4. /\ st' \in StateType /\ st'.data = <<>> /\ ~st'.running /\ st'.curr_offset = 0
      /\ t = StateMapFailed(st, ChunksPerBuffer) => st'.addr = "failed"
      /\ t = StateMapBuffer(st, 1, ChunksPerBuffer) =>
           st'.addr = "mapped" /\ st'.chunks_per_buffer = ChunksPerBuffer
  BY <1>1, <1>2, <1>3, MapEffect
<1>5. /\ buffer' \in {buffer, Empty} /\ history' \subseteq history \cup {"mapped"}
      /\ history \subseteq history'
      /\ "mapped" \in history' => st'.addr = "mapped" /\ st'.chunks_per_buffer = ChunksPerBuffer
      /\ st'.addr = "mapped" => "mapped" \in history'
  <2>1. CASE t = StateMapBuffer(st, 1, ChunksPerBuffer)
    BY <1>3, <1>4, <2>1
  <2>2. CASE t # StateMapBuffer(st, 1, ChunksPerBuffer)
    <3>1. t = StateMapFailed(st, ChunksPerBuffer)
      BY <2>2
    <3> QED BY <1>1, <1>3, <1>4, <2>2, <3>1
  <2> QED BY <2>1, <2>2
<1>6. HwType' /\ HandlerType' /\ BufferType'
  <2>1. HwType'
    BY <1>1 DEF HwType, hw
  <2>2. HandlerType'
    BY <1>1, <1>5 DEF HandlerType, handler
  <2>3. BufferType'
    BY <1>1, <1>5, EmptyBuffer DEF BufferType
  <2> QED BY <2>1, <2>2, <2>3
<1>7. OtherTypes'
  BY <1>1, <1>5 DEF OtherTypes, object, handler
<1>8. Phases'
  <2>1. BeforeStart'
    BY <1>1, <1>2, <1>4 DEF BeforeStart, object, handler, hw
  <2>2. "started" \notin history'
    BY <1>2, <1>5
  <2>3. fill' = 0 /\ untold' = 0 /\ attached' = attached
    BY <1>1, <1>2 DEF hw
  <2> QED BY <1>2, <1>4, <1>5, <2>1, <2>2, <2>3 DEF Phases
<1>9. Stream'
  <2>1. Len(<<>>) <= ChunksPerBuffer
    BY Constants
  <2>2. st'.addr = "mapped" => Stream'
    BY <1>1, <1>2, <1>4, <2>1, NewStream DEF object, handler, hw
  <2>3. st'.addr # "mapped" => Stream'
    BY DEF Stream
  <2> QED BY <2>2, <2>3
<1>10. Marked'
  BY <1>4 DEF Marked
<1> QED BY <1>4, <1>6, <1>7, <1>8, <1>9, <1>10 DEF IInv

-----------------------------------------------------------------------------
LEMMA HwQueueFacts ==
  ASSUME HwType, NEW chunks \in Seq(Held), HwQueue(chunks)
  PROVE  /\ HwType' /\ ring' = ring \o chunks /\ Len(ring') = Len(ring) + Len(chunks)
         /\ UNCHANGED <<fill, untold, devq>>
         /\ \A i \in 1..Len(ring) : ring'[i] = ring[i]
         /\ \A i \in 1..Len(chunks) : ring'[Len(ring) + i] = chunks[i]
         /\ Len(ring) \in Nat /\ Len(chunks) \in Nat
<1>1. ring \in Seq(Held) /\ ring' = ring \o chunks /\ UNCHANGED <<fill, untold, devq>>
  BY DEF HwType, HwQueue
<1>2. /\ ring' \in Seq(Held) /\ Len(ring') = Len(ring) + Len(chunks)
      /\ \A k \in 1..Len(ring) : ring'[k] = ring[k]
      /\ \A k \in (Len(ring) + 1)..(Len(ring) + Len(chunks)) : ring'[k] = chunks[k - Len(ring)]
  BY <1>1, Concatenation
<1>3. Len(ring) \in Nat /\ Len(chunks) \in Nat
  BY <1>1
<1>4. ASSUME NEW i \in 1..Len(chunks)  PROVE ring'[Len(ring) + i] = chunks[i]
  <2> DEFINE k == Len(ring) + i
  <2>1. k \in (Len(ring) + 1)..(Len(ring) + Len(chunks)) /\ k - Len(ring) = i
    BY <1>3
  <2> HIDE DEF k
  <2>2. ring'[k] = chunks[i]
    BY <1>2, <2>1
  <2> QED BY <2>2 DEF k
<1>5. HwType'
  BY <1>1, <1>2 DEF HwType
<1> QED BY <1>1, <1>2, <1>3, <1>4, <1>5

LEMMA StartStep ==
  ASSUME IInv, NEW interval \in Intervals, Start(interval)
  PROVE  IInv'
<1> DEFINE C == ChunksPerBuffer
           r == RegisterChunks(st, 0, interval, st.chunks_per_buffer)
<1>1. /\ st \in StateType /\ HwType /\ OtherTypes /\ Phases /\ HandlerType /\ BufferType
      /\ "started" \notin history /\ st.addr # "failed" /\ interval < st.chunks_per_buffer
      /\ chunks_per_irq' = interval /\ accumulated_chunk_count' = r.count
      /\ UNCHANGED <<handler, attached, buffer, received>>
  BY DEF IInv, Start
<1>2. /\ ring = <<>> /\ fill = 0 /\ untold = 0 /\ devq = <<>>
      /\ received = 0 /\ ~handling /\ prev_offset = 0 /\ st.data = <<>>
      /\ st.curr_offset = 0 /\ ~st.running /\ ctx_payloads = <<>> /\ accum_length = 0
      /\ Len(<<>>) = 0
  BY <1>1 DEF Phases, BeforeStart, HandlerType
<1>3. /\ interval \in Nat /\ C \in Nat \ {0} /\ st.chunks_per_buffer = C /\ interval < C
      /\ MaxInt \in Nat \ {0} /\ 0 \in 0..(MaxInt - 1) /\ st.addr \in {"null", "mapped"}
  BY <1>1, Constants DEF StateType, StateRecords
<1>4. r \in Registered(st, 0, interval, C)
  BY <1>1, <1>3, RegisterChunksEffect
<1>5. /\ r.st \in StateType /\ r.count \in 0..(MaxInt - 1) /\ r.st.addr = st.addr
      /\ ~r.st.running /\ r.st.curr_offset = 0 /\ r.st.chunks_per_buffer = C
      /\ st.addr = "null" => r.st = st /\ ~r.ok
      /\ st.addr = "mapped" => Extended(st, 0, interval, C, r)
  <2>1. Len(st.data) + C <= ChunksPerBuffer /\ C > 0
    BY <1>2, <1>3
  <2> HIDE DEF r
  <2> QED BY <1>2, <1>3, <1>4, <2>1 DEF Registered, Registrations
<1> HIDE DEF r
<1>6. st.addr = "mapped" =>
        /\ r.ok /\ Len(r.st.data) = C
        /\ \A j \in 1..C : r.st.data[j] = MarkAt(0, interval, j)
        /\ interval > 0 => r.count % interval = C % interval
  <2> SUFFICES ASSUME st.addr = "mapped"
               PROVE  /\ r.ok /\ Len(r.st.data) = C
                      /\ \A j \in 1..C : r.st.data[j] = MarkAt(0, interval, j)
                      /\ interval > 0 => r.count % interval = C % interval
    OBVIOUS
  <2>1. /\ r.ok /\ Len(r.st.data) = 0 + C
        /\ \A j \in 1..C : r.st.data[0 + j] = MarkAt(0, interval, j)
        /\ interval > 0 => r.count % interval = (0 + C) % interval
    BY <1>2, <1>5 DEF Extended
  <2>2. 0 + C = C /\ \A j \in 1..C : 0 + j = j
    BY <1>3
  <2> QED BY <2>1, <2>2
<1>8. history \subseteq history' /\ history' \subseteq history \cup {"started", "failed"}
  <2>1. \/ history' = history \/ history' = history \cup {"started", "failed"}
        \/ history' = history \cup {"started"}
    BY DEF Start
  <2> QED BY <2>1
<1>7. HandlerType' /\ BufferType'
  BY <1>1, <1>8 DEF HandlerType, BufferType, handler
<1>9. OtherTypes'
  <2>1. prev_offset' \in {prev_offset, 0} /\ 0 \in 0..(Size - 1)
    BY Constants DEF Start
  <2> QED BY <1>1, <1>3, <1>5, <1>8, <2>1 DEF OtherTypes, handler
<1>10. CASE ~r.ok /\ st' = r.st /\ UNCHANGED <<prev_offset, hw, history>>
  <2>1. st' = st /\ st.addr = "null"
    BY <1>3, <1>5, <1>6, <1>10
  <2>2. HwType'
    BY <1>1, <1>10 DEF HwType, hw
  <2>3. Phases'
    BY <1>1, <1>10, <2>1 DEF Phases, BeforeStart, hw, handler
  <2>4. Stream' /\ Marked'
    BY <1>2, <2>1 DEF Stream, Marked
  <2> QED BY <1>1, <1>7, <1>9, <2>1, <2>2, <2>3, <2>4 DEF IInv
<1>11. CASE r.ok /\ prev_offset' = 0
  <2>1. st.addr = "mapped" /\ "mapped" \in history
    BY <1>1, <1>3, <1>5, <1>11 DEF Phases
  <2>2. /\ Entries(r.st) \in Seq(Held) /\ Len(Entries(r.st)) = C
        /\ \A i \in 1..C : /\ Entries(r.st)[i].chunk = (0 + (i - 1)) % C
                           /\ Entries(r.st)[i].irq <=> MarkAt(0, interval, i)
    <3>1. /\ Entries(r.st) \in Seq(Held) /\ Len(Entries(r.st)) = Len(r.st.data)
          /\ \A i \in 1..Len(r.st.data) :
              /\ Entries(r.st)[i].chunk = (r.st.curr_offset + (i - 1)) % ChunksPerBuffer
              /\ Entries(r.st)[i].irq <=> r.st.data[i] = TRUE
      BY <1>5, EntriesFacts
    <3>2. \A i \in 1..C : MarkAt(0, interval, i) \in BOOLEAN
      BY DEF MarkAt
    <3> QED BY <1>5, <1>6, <2>1, <3>1, <3>2
  <2> DEFINE d == StateIrDrained(r.st)
  <2>3. /\ d \in StateType /\ d.data = <<>> /\ ~d.running /\ d.addr = "mapped"
        /\ d.chunks_per_buffer = C /\ d.curr_offset = 0
    <3>1. /\ d \in StateType /\ d.data = <<>> /\ d.running = r.st.running
          /\ d.addr = r.st.addr /\ d.chunks_per_buffer = C
          /\ d.curr_offset = (r.st.curr_offset + Len(r.st.data)) % C
      BY <1>5, DrainedEffect
    <3>2. (0 + C) % C = 0
      <4>1. (C * 1 + 0) % C = 0 /\ C * 1 + 0 = 0 + C
        BY <1>3, RemainderUnique
      <4> QED BY <4>1
    <3> HIDE DEF d, C
    <3> QED BY <1>5, <1>6, <2>1, <3>1, <3>2
  <2>4. /\ StateStarted(d) \in StateType /\ StateStarted(d).data = <<>>
        /\ StateStarted(d).curr_offset = 0 /\ StateStarted(d).running
        /\ StateStarted(d).addr = "mapped" /\ StateStarted(d).chunks_per_buffer = C
    BY <2>3, StartedEffect
  <2>5. \/ /\ \E chunks \in EntriesBeforeFailure(r.st) : HwQueue(chunks)
           /\ st' = r.st /\ history' = history \cup {"started", "failed"}
        \/ /\ HwQueue(Entries(r.st)) /\ st' = d /\ history' = history \cup {"started"}
        \/ /\ HwQueue(Entries(r.st)) /\ st' = StateStarted(d)
           /\ history' = history \cup {"started"}
    BY <1>11 DEF Start, r
  <2> HIDE DEF d
  <2>6. PICK chunks \in Seq(Held) :
          HwQueue(chunks) /\ (history' # history \cup {"started", "failed"} \/ st' # r.st
                                => chunks = Entries(r.st))
    <3>1. CASE \E chunks \in EntriesBeforeFailure(r.st) : HwQueue(chunks)
               /\ st' = r.st /\ history' = history \cup {"started", "failed"}
      BY <1>5, <3>1, BeforeFailureType
    <3>2. CASE HwQueue(Entries(r.st))
      BY <2>2, <3>2
    <3> QED BY <2>5, <3>1, <3>2
  <2>7. /\ HwType' /\ fill' = 0 /\ untold' = 0 /\ devq' = <<>>
        /\ Len(ring') = 0 + Len(chunks)
        /\ \A i \in 1..Len(chunks) : ring'[0 + i] = chunks[i]
        /\ Len(chunks) \in Nat
    BY <1>1, <1>2, <2>6, HwQueueFacts
  <2>8. /\ st' \in StateType /\ st'.addr = "mapped" /\ st'.chunks_per_buffer = C
        /\ Len(st'.data) <= C /\ "started" \in history'
        /\ "failed" \notin history' => st'.data = <<>>
        /\ st'.running => st'.data = <<>> /\ st'.curr_offset = 0 /\ chunks = Entries(r.st)
    <3>1. CASE st' = r.st /\ history' = history \cup {"started", "failed"}
      BY <1>3, <1>5, <1>6, <2>1, <3>1
    <3>2. CASE st' = d /\ history' = history \cup {"started"}
      BY <1>2, <1>3, <2>3, <3>2
    <3>3. CASE st' = StateStarted(d) /\ history' = history \cup {"started"}
      <4>1. st' # r.st
        BY <1>5, <2>4, <3>3
      <4> QED BY <1>2, <1>3, <2>4, <2>6, <3>3, <4>1
    <3> QED BY <2>5, <3>1, <3>2, <3>3
  <2>9. st'.running => /\ Len(ring') = C
                       /\ \A i \in 1..C : /\ ring'[i].chunk = (0 + (i - 1)) % C
                                          /\ ring'[i].irq <=> MarkAt(0, interval, i)
    <3> SUFFICES ASSUME st'.running
                 PROVE  /\ Len(ring') = C
                        /\ \A i \in 1..C : /\ ring'[i].chunk = (0 + (i - 1)) % C
                                           /\ ring'[i].irq <=> MarkAt(0, interval, i)
      OBVIOUS
    <3>1. chunks = Entries(r.st) /\ Len(chunks) = C
      BY <2>2, <2>8
    <3>2. Len(ring') = C
      BY <2>7, <3>1
    <3>3. \A i \in 1..C : ring'[i] = chunks[i]
      <4>1. \A i \in 1..C : 0 + i = i
        BY <1>3
      <4> QED BY <2>7, <3>1, <4>1
    <3> QED BY <2>2, <3>1, <3>2, <3>3
  <2>10. Phases'
    <3>1. BeforeStart'
      BY <2>8 DEF BeforeStart
    <3>2. "mapped" \in history'
      BY <1>8, <2>1
    <3>3. attached' = attached
      BY <1>1
    <3> QED BY <1>1, <2>7, <2>8, <3>1, <3>2, <3>3 DEF Phases
  <2>11. Stream'
    <3>1. received' = 0 /\ ctx_payloads' = <<>> /\ accum_length' = 0
      BY <1>1, <1>2 DEF handler
    <3> HIDE DEF C
    <3> QED BY <1>11, <2>7, <2>8, <2>9, <3>1, NewStream DEF C
  <2>12. Marked'
    <3> SUFFICES ASSUME st'.running, interval > 0, NEW i \in 1..Len(ring')
                 PROVE  ring'[i].irq <=> (r.count - Len(ring') + i) % interval = 0
      BY <1>1 DEF Marked
    <3>1. Len(ring') = C /\ i \in 1..C /\ (ring'[i].irq <=> (0 + i) % interval = 0)
      BY <2>9 DEF MarkAt
    <3>2. r.count % interval = C % interval
      BY <1>6, <2>1
    <3>3. (r.count + (i - C)) % interval = (C + (i - C)) % interval
      <4>1. r.count \in Int /\ C \in Int /\ i - C \in Int /\ interval \in Nat \ {0}
        BY <1>3, <1>5, <3>1
      <4> HIDE DEF C
      <4> QED BY <3>2, <4>1, RemainderShift
    <3>4. r.count + (i - C) = r.count - Len(ring') + i /\ C + (i - C) = 0 + i
      BY <1>3, <1>5, <3>1
    <3> QED BY <3>1, <3>3, <3>4
  <2> QED BY <1>7, <1>9, <2>7, <2>8, <2>10, <2>11, <2>12 DEF IInv
<1> QED BY <1>10, <1>11 DEF Start, r

\* The hardware is asked how far it got.
LEMMA FlushCompletionsStep == ASSUME IInv, FlushCompletions  PROVE IInv'
<1>1. /\ st \in StateType /\ HwType /\ OtherTypes /\ Phases /\ Stream /\ Marked
      /\ HandlerType /\ BufferType
      /\ untold # 0 /\ Len(devq) < MaxEvents /\ devq' = Append(devq, untold) /\ untold' = 0
      /\ UNCHANGED <<st, object, handler, attached, ring, fill, buffer, received, history>>
  BY DEF IInv, FlushCompletions
<1>2. st.running /\ st.addr = "mapped" /\ "started" \in history
  BY <1>1 DEF Phases, BeforeStart, StateType
<1>3. OtherTypes' /\ HandlerType' /\ BufferType'
  BY <1>1, ObjectKept DEF OtherTypes
<1>4. /\ devq \in Seq(1..Size) /\ untold \in 1..Size /\ Len(devq) \in Nat
      /\ MaxEvents \in Nat
  BY <1>1, Constants, FwIsoIrMultipleAssumption DEF HwType
<1>5. /\ devq' \in Seq(1..Size) /\ Len(devq') = Len(devq) + 1
      /\ \A i \in 1..Len(devq) : devq'[i] = devq[i]
      /\ devq'[Len(devq) + 1] = untold
  BY <1>1, <1>4
<1>6. HwType'
  <2>1. 0 \in 0..Size /\ Len(devq') <= MaxEvents
    BY <1>1, <1>4, <1>5, Constants
  <2> QED BY <1>1, <1>5, <2>1 DEF HwType
<1>7. Phases'
  BY <1>1, <1>2 DEF Phases, BeforeStart, object, handler
<1>8. Stream'
  <2> SUFFICES ASSUME "astray" \notin history  PROVE Stream'
    BY <1>1 DEF Stream
  <2>1. PICK b : /\ Bounds(b) /\ Written(b) /\ Showing(b) /\ Holding(b)
                 /\ \E e : Events(b, e)
    BY <1>1, <1>2 DEF Stream
  <2>2. PICK e : Events(b, e)
    BY <2>1
  <2>3. Bounds(b)' /\ Written(b)' /\ Showing(b)' /\ Holding(b)'
    <3>1. Bounds(b)'
      BY <1>1, <2>1 DEF Bounds
    <3>2. Written(b)'
      BY <1>1, <2>1, WrittenKept DEF object
    <3>3. Showing(b)'
      <4>1. \A i : Unpadded(b, i) => Unpadded(b, i)'
        BY <1>1, UnpaddedKept DEF object
      <4> QED BY <1>1, <2>1, <4>1 DEF Showing, At, object, handler
    <3>4. Holding(b)'
      BY <1>1, <2>1 DEF Holding, ChunkAt, object
    <3> QED BY <3>1, <3>2, <3>3, <3>4
  <2> DEFINE n == Len(devq)
             w == b[received]
             f == [i \in 0..(n + 1) |-> IF i <= n THEN e[i] ELSE w]
  <2>4. /\ e \in [0..n -> 0..Size] /\ \A i \in 1..n : devq[i] = Mark(e[i])
        /\ \A i, j \in 0..n : i < j => e[i] < e[j]
        /\ accum_length <= e[0] /\ e[n] <= w
        /\ "round" \notin history /\ Len(ctx_payloads) < received =>
             e[0] < b[Len(ctx_payloads) + 1]
        /\ untold = IF e[n] = w THEN 0 ELSE Mark(w)
    BY <1>2, <2>2 DEF Events
  <2>5. w \in 0..Size /\ Size \in Nat /\ n \in Nat
    <3>1. received \in Nat /\ received \in 0..received
      BY <1>1 DEF OtherTypes
    <3> QED BY <1>4, <2>1, <3>1, BoundsFacts, Constants
  <2>6. e[n] < w /\ untold = Mark(w)
    <3>1. e[n] \in 0..Size /\ e[n] # w
      BY <1>1, <2>4, <2>5
    <3> QED BY <2>4, <2>5, <3>1
  <2> HIDE DEF n, w
  <2>7. f \in [0..(n + 1) -> 0..Size]
    BY <2>4, <2>5
  <2>8. ASSUME NEW i \in 1..(n + 1)  PROVE devq'[i] = Mark(f[i])
    <3>1. CASE i <= n
      <4>1. i \in 1..n /\ f[i] = e[i]
        BY <2>5, <3>1
      <4> HIDE DEF f
      <4> QED BY <1>5, <2>4, <4>1 DEF n
    <3>2. CASE i = n + 1
      <4>1. f[i] = w
        BY <2>5, <3>2
      <4> HIDE DEF f
      <4> QED BY <1>5, <2>6, <3>2, <4>1 DEF n
    <3> QED BY <2>5, <3>1, <3>2
  <2>9. ASSUME NEW i \in 0..(n + 1), NEW j \in 0..(n + 1), i < j  PROVE f[i] < f[j]
    <3>1. i \in 0..n /\ f[i] = e[i]
      BY <2>5, <2>9
    <3>2. CASE j <= n
      <4>1. j \in 0..n /\ f[j] = e[j]
        BY <2>5, <3>2
      <4> HIDE DEF f
      <4> QED BY <2>4, <2>9, <3>1, <4>1
    <3>3. CASE j = n + 1
      <4>1. f[j] = w
        BY <2>5, <3>3
      <4>2. e[i] <= e[n]
        <5>1. n \in 0..n /\ (i = n \/ i < n)
          BY <2>5, <3>1
        <5>2. e[n] \in 0..Size
          BY <2>4, <5>1
        <5> QED BY <2>4, <2>5, <3>1, <5>1, <5>2
      <4>3. e[i] \in 0..Size /\ e[n] \in 0..Size
        BY <2>4, <2>5, <3>1
      <4> HIDE DEF f
      <4> QED BY <2>5, <2>6, <3>1, <4>1, <4>2, <4>3
    <3> QED BY <2>5, <3>2, <3>3
  <2>10. f[0] = e[0] /\ f[n + 1] = w
    BY <2>5
  <2> HIDE DEF f
  <2>g. PICK g : /\ g \in [0..(n + 1) -> 0..Size]
                 /\ \A i \in 1..(n + 1) : devq'[i] = Mark(g[i])
                 /\ \A i, j \in 0..(n + 1) : i < j => g[i] < g[j]
                 /\ g[0] = e[0] /\ g[n + 1] = w
    BY <2>7, <2>8, <2>9, <2>10
  <2>11. Events(b, g)'
    <3>1. Len(devq') = n + 1 /\ b[received'] = w /\ history' = history
          /\ ctx_payloads' = ctx_payloads /\ accum_length' = accum_length /\ received' = received
      BY <1>1, <1>5 DEF n, w, handler
    <3>2. \A r : Mark(r)' = Mark(r)
      BY <1>1 DEF Mark, At, object
    <3>3. w <= w
      BY <2>5
    <3>4. g \in [0..Len(devq') -> 0..Size] /\ \A i \in 1..Len(devq') : devq'[i] = Mark(g[i])'
      BY <2>g, <3>1, <3>2
    <3>5. \A i, j \in 0..Len(devq') : i < j => g[i] < g[j]
      BY <2>g, <3>1
    <3>6. accum_length' <= g[0] /\ g[Len(devq')] <= b[received']
      BY <2>4, <2>g, <3>1, <3>3
    <3>7. "round" \notin history' /\ Len(ctx_payloads') < received' =>
            g[0] < b[Len(ctx_payloads') + 1]
      BY <2>4, <2>g, <3>1
    <3>8. untold' = IF g[Len(devq')] = b[received'] THEN 0 ELSE Mark(b[received])'
      BY <1>1, <2>g, <3>1
    <3> QED BY <3>4, <3>5, <3>6, <3>7, <3>8 DEF Events
  <2> QED BY <2>3, <2>11 DEF Stream
<1>9. Marked'
  BY <1>1, MarkedKept DEF object
<1> QED BY <1>1, <1>3, <1>6, <1>7, <1>8, <1>9 DEF IInv

-----------------------------------------------------------------------------
(***************************************************************************)
(* The handler is called: what it is shown ends where the event says, and  *)
(* what the event has not told stays for the next ones.                    *)
(***************************************************************************)
LEMMA DispatchHistory ==
  ASSUME Dispatch
  PROVE  /\ history \subseteq history'
         /\ history' \subseteq history \cup {"round", "astray", "overrun"}
         /\ Head(devq) = prev_offset => "round" \in history'
         /\ Astray(ctx_payloads') => "astray" \in history'
         /\ "overrun" \in history' => "overrun" \in history \/ Len(ctx_payloads') > Descriptors
  BY DEF Dispatch

LEMMA DispatchStream ==
  ASSUME IInv, Dispatch, "astray" \notin history'
  PROVE  /\ Len(ctx_payloads') <= received /\ Stream'
         /\ "short" \notin history => 16 * Len(ctx_payloads') <= Size
<1>1. /\ st \in StateType /\ HwType /\ OtherTypes /\ Phases /\ Stream /\ Marked
      /\ HandlerType /\ BufferType
      /\ attached /\ ~handling /\ devq # <<>> /\ devq' = Tail(devq) /\ handling' = TRUE
      /\ "astray" \notin history /\ history \subseteq history'
      /\ Head(devq) = prev_offset => "round" \in history'
      /\ ~Astray(ctx_payloads')
      /\ UNCHANGED <<st, object, attached, ring, fill, untold, buffer, received>>
  BY DispatchHistory DEF IInv, Dispatch
<1>2. PICK words \in [1..MaxTurns -> Words] :
        /\ ctx_payloads' = Walk(Head(devq), words).payloads
        /\ accum_length' = Walk(Head(devq), words).length
  BY DEF Dispatch
<1>3. st.addr = "mapped" /\ ctx_payloads = <<>> /\ accum_length = 0 /\ Len(<<>>) = 0
  BY <1>1 DEF Phases, HandlerType
<1>4. /\ devq \in Seq(1..Size) /\ Len(devq) \in Nat /\ Len(devq) > 0 /\ received \in Nat
      /\ Size \in Nat /\ prev_offset \in 0..(Size - 1) /\ Head(devq) = devq[1]
      /\ Tail(devq) \in Seq(1..Size) /\ Len(Tail(devq)) = Len(devq) - 1
      /\ \A i \in 1..(Len(devq) - 1) : Tail(devq)[i] = devq[i + 1]
  BY <1>1, Constants DEF HwType, OtherTypes
<1>5. PICK b : /\ Bounds(b) /\ Written(b) /\ Showing(b) /\ Holding(b)
               /\ \E e : Events(b, e)
  BY <1>1, <1>3 DEF Stream
<1>6. PICK e : Events(b, e)
  BY <1>5
<1>7. PICK n \in Nat : n + 1 = Len(devq)
  <2> DEFINE l == Len(devq)
  <2>1. l \in Nat /\ l > 0
    BY <1>4
  <2> HIDE DEF l
  <2>2. \E n \in Nat : n + 1 = l
    <3>1. l - 1 \in Nat /\ (l - 1) + 1 = l
      BY <2>1
    <3> QED BY <3>1
  <2> QED BY <2>2 DEF l
<1>8. /\ e \in [0..(n + 1) -> 0..Size] /\ devq[1] = Mark(e[1])
      /\ \A i \in 1..(n + 1) : devq[i] = Mark(e[i])
      /\ \A i, j \in 0..(n + 1) : i < j => e[i] < e[j]
      /\ e[n + 1] <= b[received]
      /\ st.running => untold = IF e[n + 1] = b[received] THEN 0 ELSE Mark(b[received])
  <2>1. 1 \in 1..(n + 1)
    BY <1>7
  <2> QED BY <1>6, <1>7, <2>1 DEF Events
<1>9. /\ e[1] \in 1..Size /\ e[1] <= b[received] /\ b[received] \in 0..Size
  <2>1. 0 \in 0..(n + 1) /\ 1 \in 0..(n + 1) /\ n + 1 \in 0..(n + 1) /\ (1 = n + 1 \/ 1 < n + 1)
    BY <1>7
  <2>2. e[0] < e[1] /\ e[0] \in 0..Size /\ e[1] \in 0..Size /\ e[n + 1] \in 0..Size
    BY <1>8, <2>1
  <2>3. received \in 0..received
    BY <1>4
  <2>4. b[received] \in 0..Size
    BY <1>4, <1>5, <2>3, BoundsFacts
  <2>5. e[1] <= e[n + 1]
    BY <1>4, <1>8, <2>1, <2>2
  <2> QED BY <1>4, <1>8, <2>2, <2>4, <2>5
<1>10. PICK a \in 0..Size :
         /\ AccumEnd(Head(devq)) - prev_offset = a /\ AccumEnd(Head(devq)) \in Int
         /\ a <= e[1]
         /\ "round" \notin history' => a = e[1]
  <2> DEFINE c == AccumEnd(Mark(e[1]))
  <2>1. \/ c - prev_offset = e[1]
        \/ c - prev_offset = 0 /\ Mark(e[1]) = prev_offset
    BY <1>4, <1>9, AccumEndFacts
  <2>2. Head(devq) = Mark(e[1])
    BY <1>4, <1>8
  <2>3. c \in Int
    <3>1. e[1] \in 0..Size
      BY <1>4, <1>9
    <3>2. Mark(e[1]) \in 1..Size
      BY <1>4, <3>1, AtFacts
    <3> QED BY <1>4, <3>2 DEF AccumEnd
  <2> HIDE DEF c
  <2>4. CASE c - prev_offset = e[1]
    BY <1>4, <1>9, <2>2, <2>3, <2>4 DEF c
  <2>5. CASE c - prev_offset = 0 /\ Mark(e[1]) = prev_offset
    <3>1. "round" \in history'
      BY <1>1, <2>2, <2>5
    <3>2. 0 \in 0..Size /\ 0 <= e[1]
      BY <1>4, <1>9
    <3> QED BY <2>2, <2>3, <2>5, <3>1, <3>2 DEF c
  <2> QED BY <2>1, <2>4, <2>5
<1>11. PICK j \in 0..received :
         /\ Shows(b, j, Walk(Head(devq), words)) /\ b[j] <= a
         /\ j < received => a < b[j + 1]
  <2>1. a <= b[received]
    BY <1>4, <1>9, <1>10
  <2> QED BY <1>1, <1>2, <1>4, <1>5, <1>10, <2>1, WalkFacts
<1>12. /\ ctx_payloads' \in Seq(Payloads) /\ Len(ctx_payloads') = j
       /\ accum_length' = b[j] /\ accum_length' \in 0..Size
       /\ \A i \in 1..j :
            /\ ctx_payloads'[i] = [offset |-> At(b[i - 1]), length |-> b[i] - b[i - 1]]
            /\ Unpadded(b, i)
  <2> DEFINE w == Walk(Head(devq), words)
  <2>1. Shows(b, j, w) /\ ctx_payloads' = w.payloads /\ accum_length' = w.length
    BY <1>2, <1>11
  <2> HIDE DEF w
  <2> QED BY <2>1 DEF Shows, Walks
<1>13. Stream'
  <2>1. Bounds(b)' /\ Written(b)' /\ Holding(b)'
    <3>1. Bounds(b)'
      BY <1>1, <1>5 DEF Bounds
    <3>2. Written(b)'
      BY <1>1, <1>5, WrittenKept DEF object
    <3>4. Holding(b)'
      BY <1>1, <1>5 DEF Holding, ChunkAt, object
    <3> QED BY <3>1, <3>2, <3>4
  <2>2. \A r : At(r)' = At(r)
    BY <1>1 DEF At, object
  <2>3. Showing(b)'
    <3>1. \A i : Unpadded(b, i) => Unpadded(b, i)'
      BY <1>1, UnpaddedKept DEF object
    <3> QED BY <1>12, <2>2, <3>1 DEF Showing
  <2>4. PICK g : g = [i \in 0..n |-> e[i + 1]]
    OBVIOUS
  <2>5. \A i \in 0..n : i + 1 \in 0..(n + 1) /\ g[i] = e[i + 1]
    BY <2>4
  <2>6. g \in [0..n -> 0..Size]
    BY <1>8, <2>4, <2>5
  <2>7. Events(b, g)'
    <3>1. Len(devq') = n /\ received' = received /\ g[n] = e[n + 1] /\ g[0] = e[1]
          /\ n \in 0..n /\ 0 \in 0..n
      <4>0. devq' = Tail(devq) /\ received' = received
        BY <1>1
      <4>4. Len(Tail(devq)) = Len(devq) - 1
        BY <1>4
      <4>1. Len(devq') = n /\ received' = received
        BY <1>7, <4>0, <4>4
      <4>2. n \in Nat
        BY <1>7
      <4>3. n \in 0..n /\ 0 \in 0..n /\ 0 + 1 = 1
        BY <4>2
      <4> QED BY <2>5, <4>1, <4>3
    <3>2. \A r : Mark(r)' = Mark(r)
      BY <2>2 DEF Mark
    <3>3. \A i \in 1..n : devq'[i] = Mark(g[i])'
      <4> SUFFICES ASSUME NEW i \in 1..n  PROVE devq'[i] = Mark(g[i])'
        OBVIOUS
      <4>1. i \in 1..(Len(devq) - 1) /\ i + 1 \in 1..(n + 1) /\ i \in 0..n
        BY <1>7
      <4>2. devq'[i] = devq[i + 1] /\ devq[i + 1] = Mark(e[i + 1]) /\ g[i] = e[i + 1]
        BY <1>1, <1>4, <1>8, <2>5, <4>1
      <4> QED BY <3>2, <4>2
    <3>4. \A i, k \in 0..n : i < k => g[i] < g[k]
      <4> SUFFICES ASSUME NEW i \in 0..n, NEW k \in 0..n, i < k  PROVE g[i] < g[k]
        OBVIOUS
      <4>1. i + 1 \in 0..(n + 1) /\ k + 1 \in 0..(n + 1) /\ i + 1 < k + 1
        OBVIOUS
      <4>2. e[i + 1] < e[k + 1]
        BY <1>8, <4>1
      <4> QED BY <2>5, <4>2
    <3>5. accum_length' <= g[0] /\ g[n] <= b[received']
      <4>1. b[j] \in Int
        BY <1>4, <1>12
      <4>2. b[j] <= e[1]
        <5>1. b[j] <= a /\ a <= e[1] /\ a \in Int /\ e[1] \in Int
          BY <1>4, <1>9, <1>10, <1>11
        <5> QED BY <4>1, <5>1
      <4>3. accum_length' <= g[0]
        BY <1>12, <3>1, <4>2
      <4>4. g[n] <= b[received']
        BY <1>8, <3>1
      <4> QED BY <4>3, <4>4
    <3>6. "round" \notin history' /\ Len(ctx_payloads') < received' =>
            g[0] < b[Len(ctx_payloads') + 1]
      BY <1>10, <1>11, <1>12, <3>1
    <3>7. st'.running =>
            untold' = IF g[n] = b[received'] THEN 0 ELSE Mark(b[received])'
      BY <1>1, <1>8, <3>1, <3>2
    <3> QED BY <2>6, <3>1, <3>3, <3>4, <3>5, <3>6, <3>7 DEF Events
  <2> QED BY <2>1, <2>3, <2>7 DEF Stream
<1>14. ASSUME "short" \notin history  PROVE 16 * j <= Size
  <2>1. 16 * j <= b[j] /\ b[j] \in 0..Size
    BY <1>4, <1>5, <1>14, BoundsFacts
  <2> QED BY <1>4, <2>1
<1> QED BY <1>4, <1>12, <1>13, <1>14

LEMMA DispatchStep == ASSUME IInv, Dispatch  PROVE IInv'
<1>1. /\ st \in StateType /\ HwType /\ OtherTypes /\ Phases /\ Marked
      /\ HandlerType /\ BufferType
      /\ attached /\ ~handling /\ devq # <<>> /\ devq' = Tail(devq) /\ handling' = TRUE
      /\ history \subseteq history'
      /\ history' \subseteq history \cup {"round", "astray", "overrun"}
      /\ UNCHANGED <<st, object, attached, ring, fill, untold, buffer, received>>
  BY DispatchHistory DEF IInv, Dispatch
<1>2. PICK words \in [1..MaxTurns -> Words] :
        /\ ctx_payloads' = Walk(Head(devq), words).payloads
        /\ accum_length' = Walk(Head(devq), words).length
  BY DEF Dispatch
<1>4. /\ devq \in Seq(1..Size) /\ Len(devq) \in Nat /\ Len(devq) > 0
      /\ prev_offset \in 0..(Size - 1) /\ Head(devq) \in 1..Size
      /\ Tail(devq) \in Seq(1..Size) /\ Len(Tail(devq)) = Len(devq) - 1
  BY <1>1, Constants DEF HwType, OtherTypes
<1>12. ctx_payloads' \in Seq(Payloads) /\ accum_length' \in 0..Size
  <2> DEFINE w == Walk(Head(devq), words)
  <2>1. w \in Walks
    BY <1>1, <1>2, <1>4, WalkType
  <2>2. ctx_payloads' = w.payloads /\ accum_length' = w.length
    BY <1>2
  <2> HIDE DEF w
  <2> QED BY <2>1, <2>2 DEF Walks
<1>13. HwType'
  <2>1. Len(devq') <= MaxEvents
    BY <1>1, <1>4, FwIsoIrMultipleAssumption DEF HwType
  <2> QED BY <1>1, <1>4, <2>1 DEF HwType
<1>14. OtherTypes'
  BY <1>1 DEF OtherTypes, object
<1>15. HandlerType' /\ BufferType'
  <2>1. "astray" \notin history' => Len(ctx_payloads') <= received'
    BY <1>1, DispatchStream
  <2> QED BY <1>1, <1>12, <2>1 DEF HandlerType, BufferType, Payloads
<1>16. Phases'
  <2>1. "started" \in history /\ history \subseteq history'
    BY <1>1 DEF Phases, BeforeStart
  <2>2. BeforeStart'
    BY <2>1 DEF BeforeStart
  <2>3. "mapped" \in history' /\ ("failed" \in history' <=> "failed" \in history)
        /\ "mapped" \in history
    BY <1>1, <2>1 DEF Phases
  <2> QED BY <1>1, <2>1, <2>2, <2>3 DEF Phases
<1>17. Stream'
  <2>1. "astray" \in history' => Stream'
    BY DEF Stream
  <2> QED BY <2>1, DispatchStream
<1>18. Marked'
  BY <1>1, MarkedKept DEF object
<1> QED BY <1>1, <1>13, <1>14, <1>15, <1>16, <1>17, <1>18 DEF IInv

-----------------------------------------------------------------------------
(***************************************************************************)
(* The handler returned: positions are counted from behind what it was     *)
(* shown.                                                                  *)
(***************************************************************************)
LEMMA ChunksPassedFacts ==
  ASSUME prev_offset \in 0..(Size - 1), accum_length \in 0..Size
  PROVE  /\ ChunksPassed \in Nat /\ ChunkAt(0) + ChunksPassed = ChunkAt(accum_length)
         /\ ChunkAt(0) \in Nat
<1>1. prev_offset \in Nat /\ accum_length \in Nat /\ Size \in Nat
  BY Constants
<1>2. ChunkAt(0) = prev_offset \div BytesPerChunk
  <2>1. prev_offset + 0 = prev_offset
    BY <1>1
  <2> QED BY <2>1 DEF ChunkAt
<1>3. /\ prev_offset \div BytesPerChunk \in Nat
      /\ (prev_offset + accum_length) \div BytesPerChunk \in Nat
      /\ prev_offset \div BytesPerChunk <= (prev_offset + accum_length) \div BytesPerChunk
  <2>1. prev_offset + accum_length \in Nat /\ prev_offset <= prev_offset + accum_length
    BY <1>1
  <2> QED BY <1>1, <2>1, ChunkOf, ChunkOrder
<1>4. /\ ChunksPassed = ChunkAt(accum_length) - ChunkAt(0)
      /\ ChunkAt(accum_length) \in Nat /\ ChunkAt(0) \in Nat
      /\ ChunkAt(0) <= ChunkAt(accum_length)
  BY <1>2, <1>3 DEF ChunksPassed, ChunkAt
<1> QED BY <1>4

LEMMA Shifted ==
  ASSUME prev_offset \in 0..(Size - 1), NEW a \in 0..Size,
         prev_offset' = (prev_offset + a) % Size
  PROVE  /\ prev_offset' \in 0..(Size - 1)
         /\ \A r \in Nat : (prev_offset' + r) % Size = (prev_offset + (a + r)) % Size
         /\ \A r \in Nat : (prev_offset' + r) % BytesPerChunk =
                             (prev_offset + (a + r)) % BytesPerChunk
         /\ \E d \in {0, ChunksPerBuffer} : \A r \in Nat :
              /\ (prev_offset' + r) \div BytesPerChunk \in Nat
              /\ (prev_offset' + r) \div BytesPerChunk + d =
                   (prev_offset + (a + r)) \div BytesPerChunk
<1>0. Size \in Nat \ {0} /\ prev_offset \in Nat /\ a \in Nat /\ ChunksPerBuffer \in Nat
  BY Constants
<1>1. prev_offset' \in 0..(Size - 1)
  <2>1. prev_offset + a \in Int
    BY <1>0
  <2> QED BY <1>0, <2>1, DivisionFacts
<1>2. ASSUME NEW r \in Nat
      PROVE  (prev_offset' + r) % Size = (prev_offset + (a + r)) % Size
  <2>1. prev_offset + a \in Nat /\ (prev_offset + a) + r = prev_offset + (a + r)
    BY <1>0
  <2>2. (((prev_offset + a) % Size) + r) % Size = ((prev_offset + a) + r) % Size
    BY <1>0, <2>1, RemainderOfSum
  <2> QED BY <2>1, <2>2
<1>3. prev_offset' = IF prev_offset + a < Size THEN prev_offset + a ELSE (prev_offset + a) - Size
  <2>1. At(a) = prev_offset'
    BY DEF At
  <2>2. At(a) = IF prev_offset + a < Size THEN prev_offset + a ELSE (prev_offset + a) - Size
    BY AtFacts
  <2> QED BY <2>1, <2>2, Zenon
<1>4. CASE prev_offset + a < Size
  <2>1. \A r \in Nat : prev_offset' + r = prev_offset + (a + r) /\ prev_offset' + r \in Nat
    BY <1>0, <1>3, <1>4
  <2>2. \A r \in Nat : /\ (prev_offset' + r) \div BytesPerChunk \in Nat
                       /\ (prev_offset' + r) \div BytesPerChunk + 0 =
                            (prev_offset + (a + r)) \div BytesPerChunk
    <3> SUFFICES ASSUME NEW r \in Nat
                 PROVE  /\ (prev_offset' + r) \div BytesPerChunk \in Nat
                        /\ (prev_offset' + r) \div BytesPerChunk + 0 =
                             (prev_offset + (a + r)) \div BytesPerChunk
      OBVIOUS
    <3> DEFINE q == (prev_offset' + r) \div BytesPerChunk
    <3>1. q \in Nat /\ q = (prev_offset + (a + r)) \div BytesPerChunk
      BY <2>1, ChunkOf
    <3> HIDE DEF q
    <3>2. q + 0 = q
      BY <3>1
    <3> QED BY <3>1, <3>2 DEF q
  <2>3. \A r \in Nat : (prev_offset' + r) % BytesPerChunk =
                         (prev_offset + (a + r)) % BytesPerChunk
    BY <2>1
  <2> QED BY <1>1, <1>2, <2>2, <2>3
<1>5. CASE ~(prev_offset + a < Size)
  <2>1. \A r \in Nat : (prev_offset' + r) + Size = prev_offset + (a + r) /\ prev_offset' + r \in Nat
    BY <1>0, <1>1, <1>3, <1>5
  <2>2. ASSUME NEW r \in Nat
        PROVE  /\ (prev_offset' + r) \div BytesPerChunk \in Nat
               /\ (prev_offset' + r) \div BytesPerChunk + ChunksPerBuffer =
                    (prev_offset + (a + r)) \div BytesPerChunk
               /\ (prev_offset' + r) % BytesPerChunk =
                    (prev_offset + (a + r)) % BytesPerChunk
    <3> DEFINE x == prev_offset' + r
    <3>1. x \in Nat /\ x + Size = prev_offset + (a + r)
      BY <2>1
    <3> HIDE DEF x
    <3>2. /\ x \div BytesPerChunk \in Nat
          /\ (x + Size) \div BytesPerChunk = x \div BytesPerChunk + ChunksPerBuffer
          /\ (x + Size) % BytesPerChunk = x % BytesPerChunk
      BY <3>1, ChunkOf, ChunkRound
    <3> QED BY <3>1, <3>2 DEF x
  <2> QED BY <1>1, <1>2, <2>2
<1> QED BY <1>4, <1>5

LEMMA Triple ==
  ASSUME NEW R, NEW S, NEW T, NEW t \in R \X S \X T
  PROVE  /\ t = <<t[1], t[2], t[3]>> /\ t[1] \in R
         /\ \A v \in R : [t EXCEPT ![1] = v] \in R \X S \X T
  OBVIOUS

LEMMA TripleExcept ==
  ASSUME NEW i, NEW k, NEW l, NEW v
  PROVE  <<i, k, l>>[1] = i /\ [<<i, k, l>> EXCEPT ![1] = v] = <<v, k, l>>
  OBVIOUS

LEMMA CellExcept ==
  ASSUME NEW t \in Cells, NEW v \in Nat
  PROVE  [t EXCEPT ![1] = v] \in Cells
<1>1. /\ t \in Nat \X (0..(BytesPerChunk + 8)) \X ({0} \cup DataLengths)
      /\ t[2] = 1 => t[3] \in DataLengths
  BY DEF Cells
<1>2. t = <<t[1], t[2], t[3]>>
  BY <1>1, Triple
<1>3. [t EXCEPT ![1] = v] = <<v, t[2], t[3]>>
  BY <1>2, TripleExcept
<1>4. [t EXCEPT ![1] = v] \in Nat \X (0..(BytesPerChunk + 8)) \X ({0} \cup DataLengths)
  BY <1>1, Triple
<1>5. <<v, t[2], t[3]>>[2] = t[2] /\ <<v, t[2], t[3]>>[3] = t[3]
  OBVIOUS
<1> QED BY <1>1, <1>3, <1>4, <1>5 DEF Cells

LEMMA ShownBuffer ==
  ASSUME BufferType, NEW n \in Nat
  PROVE  /\ Shown(n) \in [0..(Size - 1) -> Cells]
         /\ \A x \in 0..(Size - 1), i \in Nat : \A k, l :
              i > 0 /\ buffer[x] = <<i + n, k, l>> => Shown(n)[x] = <<i, k, l>>
<1>2. ASSUME NEW x \in 0..(Size - 1)
      PROVE  Shown(n)[x] =
               [buffer[x] EXCEPT ![1] = IF buffer[x][1] > n THEN buffer[x][1] - n ELSE 0]
  BY DEF Shown
<1>3. ASSUME NEW x \in 0..(Size - 1)  PROVE Shown(n)[x] \in Cells
  <2> DEFINE t == buffer[x]
             v == IF t[1] > n THEN t[1] - n ELSE 0
  <2>1. t \in Cells
    BY DEF BufferType
  <2>2. t[1] \in Nat
    <3>1. t \in Nat \X (0..(BytesPerChunk + 8)) \X ({0} \cup DataLengths)
      BY <2>1 DEF Cells
    <3> HIDE DEF t
    <3> QED BY <3>1
  <2>3. Shown(n)[x] = [t EXCEPT ![1] = v]
    BY <1>2
  <2> HIDE DEF t
  <2>4. v \in Nat
    BY <2>2
  <2> HIDE DEF v
  <2> QED BY <2>1, <2>3, <2>4, CellExcept
<1>4. DOMAIN Shown(n) = 0..(Size - 1) /\ Shown(n) = [x \in 0..(Size - 1) |-> Shown(n)[x]]
  BY DEF Shown
<1>5. ASSUME NEW x \in 0..(Size - 1), NEW i \in Nat, NEW k, NEW l,
             i > 0, buffer[x] = <<i + n, k, l>>
      PROVE  Shown(n)[x] = <<i, k, l>>
  <2>1. i + n > n /\ (i + n) - n = i
    BY <1>5
  <2>2. buffer[x][1] = i + n /\ [buffer[x] EXCEPT ![1] = i] = <<i, k, l>>
    BY <1>5, TripleExcept
  <2> QED BY <1>2, <2>1, <2>2
<1>6. Shown(n) \in [0..(Size - 1) -> Cells]
  BY <1>3, <1>4
<1> QED BY <1>5, <1>6

LEMMA ShiftedBounds ==
  ASSUME received \in Nat, NEW b, Bounds(b), NEW h \in 0..received,
         NEW c, c = [i \in 0..(received - h) |-> b[i + h] - b[h]],
         received' = received - h, history \subseteq history'
  PROVE  Bounds(c)'
<1>1. /\ \A i \in 0..received : b[i] \in 0..Size /\ b[i] \in Nat
      /\ \A i, j \in 0..received : i <= j => b[i] <= b[j]
      /\ Size \in Nat
  BY BoundsFacts, Constants
<1>2. received' \in Nat /\ received \in 0..received /\ h <= received
  OBVIOUS
<1>3. \A i \in 0..received' : i + h \in 0..received /\ h <= i + h
  OBVIOUS
<1>4. ASSUME NEW i \in 0..received'
      PROVE  /\ c[i] \in Nat /\ c[i] \in 0..Size /\ i + h \in 0..received
             /\ c[i] = b[i + h] - b[h] /\ b[h] + c[i] = b[i + h]
  <2>1. c[i] = b[i + h] - b[h]
    OBVIOUS
  <2>2. /\ b[h] \in 0..Size /\ b[i + h] \in 0..Size /\ b[h] <= b[i + h]
    BY <1>1, <1>3
  <2> QED BY <1>1, <1>3, <2>1, <2>2
<1>5. c \in [0..received' -> 0..Size]
  BY <1>4
<1>6. c[0] = 0
  <2>1. 0 \in 0..received' /\ 0 + h = h
    BY <1>2
  <2>2. b[h] \in Nat /\ c[0] = b[h] - b[h]
    BY <1>1, <2>1
  <2> QED BY <2>2
<1>7. ASSUME NEW i \in 1..received'
      PROVE  /\ c[i] - c[i - 1] \in Lengths
             /\ "short" \notin history' => 16 <= c[i] - c[i - 1]
  <2>1. /\ i \in 0..received' /\ i - 1 \in 0..received' /\ i + h \in 1..received
        /\ (i - 1) + h = (i + h) - 1
    BY <1>2
  <2>2. /\ b[i + h] - b[(i + h) - 1] \in Lengths
        /\ "short" \notin history' => 16 <= b[i + h] - b[(i + h) - 1]
    BY <2>1 DEF Bounds
  <2>3. /\ c[i] = b[i + h] - b[h] /\ c[i - 1] = b[(i + h) - 1] - b[h]
    BY <1>4, <2>1
  <2>4. b[i + h] \in Nat /\ b[(i + h) - 1] \in Nat /\ b[h] \in Nat
    BY <1>1, <1>3, <2>1
  <2>5. c[i] - c[i - 1] = b[i + h] - b[(i + h) - 1]
    BY <2>3, <2>4
  <2> QED BY <2>2, <2>5
<1>8. ASSUME NEW i \in 0..received', NEW j \in 0..received', i <= j
      PROVE  c[i] + (j - i) <= c[j]
  <2>1. i + h \in 0..received /\ j + h \in 0..received /\ i + h <= j + h
        /\ (j + h) - (i + h) = j - i
    BY <1>3, <1>8
  <2>2. b[i + h] + (j - i) <= b[j + h]
    BY <2>1 DEF Bounds
  <2>3. b[i + h] \in Nat /\ b[j + h] \in Nat /\ b[h] \in Nat
    BY <1>1, <2>1
  <2>4. c[i] = b[i + h] - b[h] /\ c[j] = b[j + h] - b[h]
    BY <1>4
  <2> QED BY <2>2, <2>3, <2>4
<1>9. Bounds(c)'
  BY <1>5, <1>6, <1>7, <1>8 DEF Bounds
<1> QED BY <1>9

LEMMA StreamShifted ==
  ASSUME st \in StateType, st.addr = "mapped", HwType, OtherTypes, HandlerType, BufferType,
         Stream, "astray" \notin history,
         prev_offset' = (prev_offset + accum_length) % Size,
         received' = received - Len(ctx_payloads), buffer' = Shown(Len(ctx_payloads)),
         ctx_payloads' = <<>>, accum_length' = 0, devq' = devq, history \subseteq history',
         st' \in StateType, Len(st'.data) <= Len(st.data) + ChunksPassed,
         st'.running =>
           /\ st.running /\ fill' = fill /\ untold' = untold
           /\ st'.curr_offset = (st.curr_offset + ChunksPassed) % ChunksPerBuffer
           /\ Len(ring') = Len(ring) + ChunksPassed
           /\ \A i \in 1..Len(ring) : ring'[i] = ring[i]
           /\ \A i \in 1..ChunksPassed :
                ring'[Len(ring) + i].chunk = (st.curr_offset + (i - 1)) % ChunksPerBuffer
  PROVE  Stream'
<1> DEFINE C == ChunksPerBuffer
           Q == BytesPerChunk
<1>0. /\ Size \in Nat \ {0} /\ C \in Nat \ {0} /\ Q \in Nat \ {0} /\ received \in Nat
      /\ prev_offset \in 0..(Size - 1) /\ prev_offset \in Nat
  BY Constants DEF OtherTypes
<1>1. PICK b : /\ Bounds(b) /\ Written(b) /\ Showing(b) /\ Holding(b)
               /\ \E e : Events(b, e)
  BY DEF Stream
<1>2. PICK e : Events(b, e)
  BY <1>1
<1>3. PICK h \in 0..received : h = Len(ctx_payloads)
  <2>1. Len(ctx_payloads) \in Nat /\ Len(ctx_payloads) <= received
    BY DEF HandlerType
  <2> QED BY <1>0, <2>1
<1>4. PICK a \in 0..Size : a = accum_length
  BY DEF HandlerType
<1>5. PICK m \in Nat : m = ChunksPassed /\ ChunkAt(0) + m = ChunkAt(a) /\ ChunkAt(0) \in Nat
  BY <1>0, <1>4, ChunksPassedFacts
<1>6. PICK n \in Nat : n = Len(devq)
  BY DEF HwType
<1>7. a = b[h]
  BY <1>1, <1>3, <1>4 DEF Showing
<1>8. PICK c : c = [i \in 0..(received - h) |-> b[i + h] - b[h]]
  OBVIOUS
<1>9. /\ Bounds(c)' /\ received' \in Nat /\ received' = received - h /\ a \in Nat
      /\ a <= b[received]
      /\ \A i \in 0..received' : /\ c[i] \in Nat /\ i + h \in 0..received
                                 /\ a + c[i] = b[i + h]
  <2>1. received' = received - h
    BY <1>3
  <2>3. Bounds(c)'
    BY <1>0, <1>1, <1>8, <2>1, ShiftedBounds
  <2>2. received' \in Nat /\ received \in 0..received /\ h <= received
    BY <1>0, <2>1
  <2>4. b[h] \in Nat /\ b[h] <= b[received]
    BY <1>0, <1>1, <2>2, BoundsFacts
  <2>5. ASSUME NEW i \in 0..received'
        PROVE  c[i] \in Nat /\ i + h \in 0..received /\ b[h] + c[i] = b[i + h]
    <3>1. i + h \in 0..received /\ h <= i + h
      <4>1. i \in 0..(received - h) /\ received \in Nat /\ h \in 0..received
        BY <1>0, <2>1
      <4> QED BY <4>1
    <3> DEFINE bi == b[i + h]
               bh == b[h]
    <3>2. c[i] = bi - bh
      BY <1>8, <2>1
    <3>3. bi \in Nat /\ bh \in Nat /\ bh <= bi
      BY <1>0, <1>1, <3>1, BoundsFacts
    <3> HIDE DEF bi, bh
    <3>4. bi - bh \in Nat /\ bh + (bi - bh) = bi
      BY <3>3
    <3> QED BY <3>1, <3>2, <3>4 DEF bi, bh
  <2> QED BY <1>7, <2>1, <2>2, <2>3, <2>4, <2>5
<1>a. a \in Nat /\ received' \in Nat /\ received' = received - h
  BY <1>9
<1>10. prev_offset' = (prev_offset + a) % Size
  BY <1>4
<1>11. /\ prev_offset' \in 0..(Size - 1)
       /\ \A r \in Nat : (prev_offset' + r) % Size = (prev_offset + (a + r)) % Size
       /\ \A r \in Nat : (prev_offset' + r) % Q = (prev_offset + (a + r)) % Q
  BY <1>0, <1>10, Shifted
<1>12. PICK d \in {0, C} : \A r \in Nat :
         /\ (prev_offset' + r) \div Q \in Nat
         /\ (prev_offset' + r) \div Q + d = (prev_offset + (a + r)) \div Q
  BY <1>0, <1>10, Shifted
<1> HIDE DEF C, Q
<1>13. Written(c)'
  <2> SUFFICES ASSUME NEW i \in 1..received'  PROVE \E dl \in DataLengths : Packet(c, i, dl)'
    BY DEF Written
  <2>1. PICK j \in 1..received : j = i + h /\ (i - 1) + h = j - 1 /\ i \in 0..received'
                                 /\ i - 1 \in 0..received'
    <3>1. i + h \in 1..received /\ (i - 1) + h = (i + h) - 1 /\ i \in 0..received'
          /\ i - 1 \in 0..received'
      BY <1>0, <1>9
    <3> QED BY <3>1
  <2>2. /\ a + c[i] = b[j] /\ a + c[i - 1] = b[j - 1] /\ c[i] \in Nat /\ c[i - 1] \in Nat
        /\ b[j] \in 0..Size /\ b[j - 1] \in Nat /\ b[j] \in Nat
    <3>1. j \in 0..received /\ j - 1 \in 0..received
      BY <1>0, <2>1
    <3> QED BY <1>0, <1>1, <1>9, <2>1, <3>1, BoundsFacts
  <2>3. c[i] - c[i - 1] = b[j] - b[j - 1]
    <3> DEFINE ci == c[i]
               cj == c[i - 1]
               bi == b[j]
               bj == b[j - 1]
    <3>1. /\ a + ci = bi /\ a + cj = bj /\ ci \in Nat /\ cj \in Nat
          /\ bi \in Nat /\ bj \in Nat
      BY <2>2
    <3> HIDE DEF ci, cj, bi, bj
    <3>2. ci - cj = bi - bj
      BY <1>a, <3>1
    <3> QED BY <3>2 DEF ci, cj, bi, bj
  <2>p. PICK dl \in DataLengths : Packet(b, j, dl)
    BY <1>1 DEF Written
  <2>9. ASSUME NEW k \in 1..(c[i] - c[i - 1])
        PROVE  buffer'[(prev_offset' + (c[i - 1] + k - 1)) % Size] =
                 <<i, k, IF k = 1 THEN dl ELSE 0>>
    <3>4. PICK r \in Nat : r = c[i - 1] + k - 1 /\ a + r = b[j - 1] + k - 1 /\ a + r \in 0..Size
      <4>1. /\ c[i - 1] + k - 1 \in Nat /\ a + (c[i - 1] + k - 1) = b[j - 1] + k - 1
            /\ a + (c[i - 1] + k - 1) \in 0..Size
        <5> DEFINE ci == c[i]
                   cj == c[i - 1]
                   bi == b[j]
                   bj == b[j - 1]
        <5>1. /\ k \in 1..(ci - cj) /\ a + ci = bi /\ a + cj = bj /\ ci \in Nat /\ cj \in Nat
              /\ bi \in 0..Size /\ bj \in Nat
          BY <2>2
        <5> HIDE DEF ci, cj, bi, bj
        <5>2. cj + k - 1 \in Nat /\ a + (cj + k - 1) = bj + k - 1 /\ a + (cj + k - 1) \in 0..Size
          BY <1>0, <1>a, <5>1
        <5> QED BY <5>2 DEF cj, bj
      <4> QED BY <4>1
    <3>5. (prev_offset' + r) % Size = At(b[j - 1] + k - 1)
      BY <1>11, <3>4 DEF At
    <3>6. PICK x \in 0..(Size - 1) : x = At(b[j - 1] + k - 1)
      <4>1. At(a + r) \in 0..(Size - 1)
        BY <1>0, <3>4, AtFacts
      <4> QED BY <3>4, <4>1
    <3>7. buffer[x] = <<i + h, k, IF k = 1 THEN dl ELSE 0>>
      <4>1. k \in 1..(b[j] - b[j - 1])
        BY <2>3
      <4>2. buffer[At(b[j - 1] + k - 1)] = <<j, k, IF k = 1 THEN dl ELSE 0>>
        BY <2>p, <4>1 DEF Packet
      <4> QED BY <2>1, <3>6, <4>2
    <3>8. buffer'[x] = <<i, k, IF k = 1 THEN dl ELSE 0>>
      <4>1. i \in Nat /\ i > 0 /\ h \in Nat
        BY <1>0, <1>9
      <4>2. buffer' = Shown(h)
        BY <1>3
      <4> DEFINE l == IF k = 1 THEN dl ELSE 0
      <4>3. buffer[x] = <<i + h, k, l>>
        BY <3>7
      <4> HIDE DEF l
      <4>4. Shown(h)[x] = <<i, k, l>>
        BY <4>1, <4>3, ShownBuffer
      <4> QED BY <4>2, <4>4 DEF l
    <3> QED BY <3>4, <3>5, <3>6, <3>8
  <2>10. c[i] - c[i - 1] = Space(dl)
    BY <2>3, <2>p DEF Packet
  <2>11. Packet(c, i, dl)'
    BY <2>9, <2>10 DEF Packet, At
  <2> QED BY <2>11
<1>14. Showing(c)'
  <2>1. c[0] = 0 /\ Len(<<>>) = 0
    BY <1>9 DEF Bounds
  <2> QED BY <2>1 DEF Showing
<1>15. received' \in 0..received' /\ c[received'] \in Nat /\ a + c[received'] = b[received]
  <2>1. received' \in 0..received' /\ received' + h = received
    BY <1>0, <1>a
  <2> QED BY <1>9, <2>1
<1>16. /\ ChunkAt(b[received]) \in Nat
       /\ (prev_offset' + c[received']) \div Q + d = ChunkAt(b[received])
       /\ (prev_offset' + c[received']) \div Q \in Nat
       /\ (prev_offset' + 0) \div Q + d = ChunkAt(a) /\ (prev_offset' + 0) \div Q \in Nat
       /\ (prev_offset' + c[received']) % Q = (prev_offset + b[received]) % Q
  <2>1. b[received] \in Nat /\ a + 0 = a /\ 0 \in Nat
    BY <1>9, <1>15
  <2>2. prev_offset + b[received] \in Nat
    <3>1. prev_offset \in Nat /\ b[received] \in Nat
      BY <1>0, <2>1
    <3> QED BY <3>1
  <2>3. ChunkAt(b[received]) \in Nat
    BY <2>2, ChunkOf DEF ChunkAt
  <2>4. /\ (prev_offset' + c[received']) \div Q + d = (prev_offset + (a + c[received'])) \div Q
        /\ (prev_offset' + c[received']) \div Q \in Nat
        /\ (prev_offset' + c[received']) % Q = (prev_offset + (a + c[received'])) % Q
    BY <1>11, <1>12, <1>15
  <2>5. /\ (prev_offset' + 0) \div Q + d = (prev_offset + (a + 0)) \div Q
        /\ (prev_offset' + 0) \div Q \in Nat
    BY <1>12, <2>1
  <2> QED BY <1>15, <2>1, <2>3, <2>4, <2>5 DEF ChunkAt, Q
<1>17. Holding(c)'
  <2>1. PICK w \in Nat, z \in Nat, y \in Nat :
          /\ w = ChunkAt(b[received]) /\ z = (prev_offset' + c[received']) \div Q
          /\ y = (prev_offset' + 0) \div Q
          /\ z + d = w /\ y + d = ChunkAt(0) + m
    BY <1>5, <1>16
  <2>a. /\ d \in Nat /\ d \in {0, C}
    BY <1>0, <1>12
  <2>b. PICK x0 \in Nat : x0 = ChunkAt(0)
    BY <1>5
  <2>c. PICK s1 \in Nat : s1 = Len(st.data)
    BY DEF StateType, StateRecords
  <2>d. PICK s2 \in Nat : s2 = Len(st'.data)
    BY DEF StateType, StateRecords
  <2>e. z + d = w /\ y + d = x0 + m
    BY <2>1, <2>b
  <2>3. Len(st'.data) + z <= y + C
    <3>1. Len(st.data) + w <= ChunkAt(0) + C
      BY <1>1, <2>1 DEF Holding, C
    <3>2. Len(st'.data) <= Len(st.data) + m
      BY <1>5
    <3>3. s1 + w <= x0 + C /\ s2 <= s1 + m
      BY <2>b, <2>c, <2>d, <3>1, <3>2
    <3>4. s2 + z <= y + C
      BY <1>0, <2>a, <2>e, <3>3
    <3> QED BY <2>d, <3>4
  <2>4. ASSUME st'.running
        PROVE  /\ fill' = (prev_offset' + c[received']) % Q
               /\ Len(ring') + z = y + C
               /\ \A i \in 1..Len(ring') : ring'[i].chunk = (z + i - 1) % C
               /\ st'.curr_offset = y
    <3>1. /\ st.running /\ fill' = fill
          /\ st'.curr_offset = (st.curr_offset + m) % C
          /\ Len(ring') = Len(ring) + m
          /\ \A i \in 1..Len(ring) : ring'[i] = ring[i]
          /\ \A i \in 1..m : ring'[Len(ring) + i].chunk = (st.curr_offset + (i - 1)) % C
      BY <1>5, <2>4 DEF C
    <3>2. /\ fill = (prev_offset + b[received]) % Q
          /\ Len(ring) + w = ChunkAt(0) + C
          /\ \A i \in 1..Len(ring) : ring[i].chunk = (w + i - 1) % C
          /\ st.curr_offset = ChunkAt(0)
      BY <1>1, <2>1, <3>1 DEF Holding, C, Q
    <3>3. PICK l \in Nat : l = Len(ring)
      BY DEF HwType
    <3>4. fill' = (prev_offset' + c[received']) % Q
      BY <1>16, <3>1, <3>2
    <3>a. l + w = x0 + C /\ Len(ring') = l + m
      BY <2>b, <3>1, <3>2, <3>3
    <3>5. Len(ring') + z = y + C
      <4>1. l + m + z = y + C
        BY <1>0, <2>a, <2>e, <3>a
      <4> QED BY <3>a, <4>1
    <3>6. \A x \in Nat : (x + d) % C = x % C
      <4> SUFFICES ASSUME NEW x \in Nat  PROVE (x + d) % C = x % C
        OBVIOUS
      <4>1. CASE d = 0
        BY <4>1
      <4>2. CASE d = C
        BY <1>0, <4>2, RoundOff
      <4> QED BY <4>1, <4>2
    <3>7. y \in 0..(C - 1)
      <4>1. prev_offset' \in Nat /\ prev_offset' < Size /\ prev_offset' + 0 = prev_offset'
        <5>1. prev_offset' \in 0..(Size - 1)
          BY <1>11
        <5> QED BY <1>0, <5>1
      <4>2. y = prev_offset' \div Q
        BY <2>1, <4>1
      <4>3. y < C
        BY <4>1, <4>2, ChunkRound DEF C, Q
      <4> QED BY <1>0, <4>3
    <3>8. st'.curr_offset = y
      <4>1. (y + d) % C = y % C /\ y % C = y
        BY <1>0, <3>6, <3>7, RemainderSmall
      <4> QED BY <2>1, <3>1, <3>2, <4>1
    <3>9. ASSUME NEW i \in 1..Len(ring')  PROVE ring'[i].chunk = (z + i - 1) % C
      <4>1. /\ i \in 1..(l + m) /\ z + i - 1 \in Nat
            /\ (z + i - 1) + d = w + i - 1
        BY <2>a, <2>e, <3>a
      <4>2. (w + i - 1) % C = (z + i - 1) % C
        BY <3>6, <4>1
      <4>3. CASE i \in 1..l
        BY <3>1, <3>2, <3>3, <4>2, <4>3
      <4>4. CASE i \notin 1..l
        <5>1. PICK k \in 1..m : i = l + k
          <6>1. i - l \in 1..m /\ l + (i - l) = i
            BY <4>1, <4>4
          <6> QED BY <6>1
        <5>2. ring'[i].chunk = (ChunkAt(0) + (k - 1)) % C
          BY <3>1, <3>2, <3>3, <5>1
        <5>3. (ChunkAt(0) + (k - 1)) + C = w + i - 1 /\ ChunkAt(0) + (k - 1) \in Nat
          <6>1. (x0 + (k - 1)) + C = w + (l + k) - 1 /\ x0 + (k - 1) \in Nat
            BY <1>0, <2>a, <2>e, <3>a
          <6> QED BY <2>b, <5>1, <6>1
        <5> DEFINE x == ChunkAt(0) + (k - 1)
        <5>4. x \in Nat /\ x + C = w + i - 1 /\ ring'[i].chunk = x % C
          BY <5>2, <5>3
        <5> HIDE DEF x
        <5>5. (x + C) % C = x % C
          BY <1>0, <5>4, RoundOff
        <5> QED BY <4>2, <5>4, <5>5
      <4> QED BY <4>3, <4>4
    <3> QED BY <3>4, <3>5, <3>8, <3>9
  <2>5. ChunkAt(0)' = y /\ ChunkAt(c[received])' = z
    BY <2>1 DEF ChunkAt, Q
  <2> QED BY <2>3, <2>4, <2>5 DEF Holding, C, Q
<1>18. PICK g : g = [i \in 0..n |-> e[i] - a]
  OBVIOUS
<1>19. /\ e \in [0..n -> 0..Size] /\ \A i \in 1..n : devq[i] = Mark(e[i])
       /\ \A i, j \in 0..n : i < j => e[i] < e[j]
       /\ a <= e[0] /\ e[n] <= b[received]
       /\ "round" \notin history /\ h < received => e[0] < b[h + 1]
       /\ st.running => untold = IF e[n] = b[received] THEN 0 ELSE Mark(b[received])
  BY <1>2, <1>3, <1>4, <1>6 DEF Events
<1>20. ASSUME NEW i \in 0..n
       PROVE  /\ g[i] = e[i] - a /\ g[i] \in Nat /\ g[i] \in 0..Size /\ a + g[i] = e[i]
              /\ e[i] \in 0..Size
  <2>1. 0 \in 0..n /\ e[0] \in 0..Size /\ e[i] \in 0..Size
    BY <1>19
  <2>2. e[0] <= e[i]
    <3>1. CASE i = 0
      BY <1>0, <2>1, <3>1
    <3>2. CASE i # 0
      <4>1. 0 < i
        BY <3>2
      <4>2. e[0] < e[i]
        BY <1>19, <2>1, <4>1
      <4> QED BY <1>0, <2>1, <4>2
    <3> QED BY <3>1, <3>2
  <2>3. g[i] = e[i] - a
    BY <1>18
  <2>4. a <= e[0]
    BY <1>19
  <2> DEFINE ei == e[i]
             eo == e[0]
  <2>5. g[i] = ei - a /\ a <= eo /\ eo <= ei /\ eo \in 0..Size /\ ei \in 0..Size
    BY <2>1, <2>2, <2>3, <2>4
  <2> HIDE DEF ei, eo
  <2>6. ei - a \in Nat /\ ei - a \in 0..Size /\ a + (ei - a) = ei
    BY <1>0, <1>a, <2>5
  <2> QED BY <2>3, <2>5, <2>6 DEF ei
<1>21. \A r \in Nat : (IF (prev_offset' + r) % Size = 0 THEN Size ELSE (prev_offset' + r) % Size)
                        = Mark(a + r)
  BY <1>11 DEF Mark, At
<1>22. Events(c, g)'
  <2>1. Len(devq') = n /\ Len(ctx_payloads') = 0 /\ accum_length' = 0
    BY <1>6
  <2>2. g \in [0..n -> 0..Size]
    BY <1>18, <1>20
  <2>3. \A i \in 1..n : devq'[i] = Mark(g[i])'
    <3> SUFFICES ASSUME NEW i \in 1..n  PROVE devq'[i] = Mark(g[i])'
      OBVIOUS
    <3>1. i \in 0..n
      OBVIOUS
    <3>2. g[i] \in Nat /\ a + g[i] = e[i]
      BY <1>20, <3>1
    <3>3. Mark(g[i])' = Mark(e[i])
      BY <1>21, <3>2 DEF Mark, At
    <3> QED BY <1>19, <3>3
  <2>4. \A i, j \in 0..n : i < j => g[i] < g[j]
    <3> SUFFICES ASSUME NEW i \in 0..n, NEW j \in 0..n, i < j  PROVE g[i] < g[j]
      OBVIOUS
    <3>1. /\ e[i] < e[j] /\ g[i] = e[i] - a /\ g[j] = e[j] - a
          /\ e[i] \in 0..Size /\ e[j] \in 0..Size
      BY <1>19, <1>20
    <3> QED BY <1>0, <1>a, <3>1
  <2>5. /\ 0 \in 0..n /\ n \in 0..n
        /\ g[0] \in Nat /\ g[n] \in Nat /\ a + g[n] = e[n] /\ a + g[0] = e[0]
    <3>1. 0 \in 0..n /\ n \in 0..n
      BY <1>6
    <3> QED BY <1>20, <3>1
  <2>6. 0 <= g[0] /\ g[n] <= c[received']
    <3> DEFINE gn == g[n]
               cr == c[received']
               en == e[n]
               br == b[received]
    <3>1. en <= br /\ gn \in Nat /\ a + gn = en /\ cr \in Nat /\ a + cr = br /\ g[0] \in Nat
      BY <1>15, <1>19, <2>5
    <3> HIDE DEF gn, cr, en, br
    <3>2. gn <= cr
      BY <1>a, <3>1
    <3>3. 0 <= g[0]
      BY <3>1
    <3> QED BY <3>2, <3>3 DEF gn, cr
  <2>7. "round" \notin history' /\ 0 < received' => g[0] < c[0 + 1]
    <3> SUFFICES ASSUME "round" \notin history', 0 < received'  PROVE g[0] < c[0 + 1]
      OBVIOUS
    <3>1. h < received /\ "round" \notin history /\ 1 \in 0..received' /\ 0 + 1 = 1
          /\ 1 + h = h + 1
      BY <1>0, <1>9
    <3>2. e[0] < b[h + 1] /\ a + c[1] = b[h + 1] /\ c[1] \in Nat
      BY <1>9, <1>19, <3>1
    <3> DEFINE c1 == c[1]
               g0 == g[0]
               e0 == e[0]
               bh == b[h + 1]
    <3>3. e0 < bh /\ a + c1 = bh /\ c1 \in Nat /\ g0 \in Nat /\ a + g0 = e0
      BY <2>5, <3>2
    <3> HIDE DEF c1, g0, e0, bh
    <3>4. g0 < c1
      BY <1>a, <3>3
    <3> QED BY <3>1, <3>4 DEF c1, g0
  <2>8. st'.running => untold' = IF g[n] = c[received'] THEN 0 ELSE Mark(c[received])'
    <3> SUFFICES ASSUME st'.running
                 PROVE  untold' = IF g[n] = c[received'] THEN 0 ELSE Mark(c[received])'
      OBVIOUS
    <3>1. untold' = untold /\ untold = IF e[n] = b[received] THEN 0 ELSE Mark(b[received])
      BY <1>19
    <3>2. g[n] = c[received'] <=> e[n] = b[received]
      <4> DEFINE gn == g[n]
                 cr == c[received']
                 en == e[n]
                 br == b[received]
      <4>1. gn \in Nat /\ a + gn = en /\ cr \in Nat /\ a + cr = br
        BY <1>15, <2>5
      <4> HIDE DEF gn, cr, en, br
      <4>2. gn = cr <=> en = br
        BY <1>a, <4>1
      <4> QED BY <4>2 DEF gn, cr, en, br
    <3>3. Mark(c[received])' = Mark(b[received])
      BY <1>15, <1>21 DEF Mark, At
    <3> QED BY <3>1, <3>2, <3>3
  <2> QED BY <2>1, <2>2, <2>3, <2>4, <2>5, <2>6, <2>7, <2>8 DEF Events
<1> QED BY <1>9, <1>13, <1>14, <1>17, <1>22 DEF Stream

\* The effect of the calls of register_chunk that handle_event makes.
LEMMA Reregistered ==
  ASSUME IInv, handling
  PROVE  LET r == RegisterChunks(st, accumulated_chunk_count, chunks_per_irq, ChunksPassed)
         IN  /\ r.st \in StateType /\ r.count \in 0..(MaxInt - 1) /\ r.ok \in BOOLEAN
             /\ r.st.addr = st.addr /\ r.st.running = st.running
             /\ r.st.curr_offset = st.curr_offset
             /\ r.st.chunks_per_buffer = ChunksPerBuffer
             /\ st.addr \in {"null", "mapped"}
             /\ st.addr = "mapped" /\ ("astray" \notin history \/ st.data = <<>>) =>
                  Extended(st, accumulated_chunk_count, chunks_per_irq, ChunksPassed, r)
<1> DEFINE r == RegisterChunks(st, accumulated_chunk_count, chunks_per_irq, ChunksPassed)
<1>1. /\ st \in StateType /\ OtherTypes /\ HandlerType /\ Phases /\ Stream
  BY DEF IInv
<1>2. /\ "mapped" \in history /\ st.chunks_per_buffer = ChunksPerBuffer
      /\ st.addr # "failed"
  BY <1>1 DEF Phases, BeforeStart
<1>3. st.addr \in {"null", "mapped"}
  BY <1>1, <1>2 DEF StateType, StateRecords
<1>4. /\ prev_offset \in 0..(Size - 1) /\ accum_length \in 0..Size
      /\ accumulated_chunk_count \in 0..(MaxInt - 1) /\ chunks_per_irq \in Nat
      /\ chunks_per_irq < ChunksPerBuffer /\ received \in Nat
  BY <1>1, Constants DEF OtherTypes, HandlerType
<1>5. /\ ChunksPassed \in Nat /\ ChunkAt(0) + ChunksPassed = ChunkAt(accum_length)
      /\ ChunkAt(0) \in Nat
  BY <1>4, ChunksPassedFacts
<1>6. r \in Registered(st, accumulated_chunk_count, chunks_per_irq, ChunksPassed)
  BY <1>1, <1>4, <1>5, RegisterChunksEffect
<1>9. ChunksPassed <= ChunksPerBuffer
  <2> DEFINE y == prev_offset + accum_length
             x0 == ChunkAt(0)
             xa == ChunkAt(accum_length)
             m  == ChunksPassed
  <2>1. y \in Nat /\ prev_offset + Size \in Nat /\ y <= prev_offset + Size
    BY <1>4, Constants
  <2> HIDE DEF y
  <2>2. y \div BytesPerChunk <= (prev_offset + Size) \div BytesPerChunk
        /\ y \div BytesPerChunk \in Nat
    BY <2>1, ChunkOrder, ChunkOf
  <2>3. (prev_offset + Size) \div BytesPerChunk = (prev_offset \div BytesPerChunk) + ChunksPerBuffer
    BY <1>4, ChunkRound
  <2>4. x0 = prev_offset \div BytesPerChunk /\ xa = y \div BytesPerChunk
    <3>1. prev_offset + 0 = prev_offset
      BY <1>4
    <3> QED BY <3>1 DEF ChunkAt, y
  <2>5. x0 \in Nat /\ m \in Nat /\ x0 + m = xa /\ xa <= x0 + ChunksPerBuffer
    BY <1>5, <2>2, <2>3, <2>4
  <2> HIDE DEF x0, xa, m
  <2>6. m <= ChunksPerBuffer
    BY <2>5, Constants
  <2> QED BY <2>6 DEF m
<1>7. st.addr = "mapped" /\ ("astray" \notin history \/ st.data = <<>>) =>
        Len(st.data) + ChunksPassed <= ChunksPerBuffer
  <2>e. ASSUME st.data = <<>>  PROVE Len(st.data) + ChunksPassed <= ChunksPerBuffer
    BY <1>5, <1>9, <2>e
  <2> SUFFICES ASSUME st.addr = "mapped", "astray" \notin history
               PROVE  Len(st.data) + ChunksPassed <= ChunksPerBuffer
    BY <2>e
  <2>1. PICK b : Bounds(b) /\ Showing(b) /\ Holding(b)
    BY <1>1 DEF Stream
  <2>2. PICK h \in 0..received : accum_length = b[h]
    <3>1. Len(ctx_payloads) \in 0..received
      BY <1>1, <1>4 DEF HandlerType
    <3> QED BY <2>1, <3>1 DEF Showing
  <2>3. b[h] <= b[received] /\ b[h] \in Nat /\ b[received] \in Nat
    <3>1. received \in 0..received /\ h <= received
      BY <1>4
    <3> QED BY <1>4, <2>1, <3>1, BoundsFacts
  <2>4. ChunkAt(accum_length) <= ChunkAt(b[received]) /\ ChunkAt(b[received]) \in Nat
    <3> DEFINE x == b[h]
               y == b[received]
    <3>1. x \in Nat /\ y \in Nat /\ x <= y
      BY <2>3
    <3> HIDE DEF x, y
    <3>2. prev_offset + x \in Nat /\ prev_offset + y \in Nat /\ prev_offset + x <= prev_offset + y
      BY <1>4, <3>1, Constants
    <3>3. ChunkAt(x) <= ChunkAt(y) /\ ChunkAt(y) \in Nat
      BY <3>2, ChunkOrder, ChunkOf DEF ChunkAt
    <3> QED BY <2>2, <3>3 DEF x, y
  <2>5. Len(st.data) + ChunkAt(b[received]) <= ChunkAt(0) + ChunksPerBuffer
    BY <2>1 DEF Holding
  <2>6. Len(st.data) \in Nat
    BY <1>1 DEF StateType, StateRecords
  <2> DEFINE s == Len(st.data)
             w == ChunkAt(b[received])
             m == ChunksPassed
             x0 == ChunkAt(0)
             xa == ChunkAt(accum_length)
  <2>7. s \in Nat /\ w \in Nat /\ m \in Nat /\ x0 \in Nat /\ x0 + m = xa /\ xa <= w
        /\ s + w <= x0 + ChunksPerBuffer
    BY <1>5, <2>4, <2>5, <2>6
  <2> HIDE DEF s, w, m, x0, xa
  <2>8. s + m <= ChunksPerBuffer
    BY <2>7, Constants
  <2> QED BY <2>8 DEF s, m
<1>8. /\ r.st \in StateType /\ r.count \in 0..(MaxInt - 1) /\ r.ok \in BOOLEAN
      /\ r.st.addr = st.addr /\ r.st.running = st.running
      /\ r.st.curr_offset = st.curr_offset
      /\ r.st.chunks_per_buffer = ChunksPerBuffer
      /\ st.addr = "mapped" /\ ("astray" \notin history \/ st.data = <<>>) =>
           Extended(st, accumulated_chunk_count, chunks_per_irq, ChunksPassed, r)
  <2> HIDE DEF r
  <2> QED BY <1>2, <1>6, <1>7 DEF Registered, Registrations
<1> QED BY <1>3, <1>8

LEMMA HandlerReturnsStep == ASSUME IInv, HandlerReturns  PROVE IInv'
<1> DEFINE C == ChunksPerBuffer
           R == RegisterChunks(st, accumulated_chunk_count, chunks_per_irq, ChunksPassed)
<1>1. /\ st \in StateType /\ HwType /\ OtherTypes /\ HandlerType /\ BufferType
      /\ Phases /\ Stream /\ Marked /\ handling
  BY DEF IInv, HandlerReturns
<1>2. /\ handling' = FALSE /\ ctx_payloads' = <<>> /\ accum_length' = 0
      /\ chunks_per_irq' = chunks_per_irq
  BY DEF HandlerReturns
<1>s. PICK shown \in 0..received :
        /\ buffer' = Shown(shown) /\ received' = received - shown
        /\ "astray" \notin history => shown = Len(ctx_payloads)
  <2>1. /\ received \in Nat /\ Len(ctx_payloads) \in Nat
        /\ "astray" \notin history => Len(ctx_payloads) <= received
    BY <1>1 DEF OtherTypes, HandlerType
  <2> DEFINE shown == IF "astray" \in history THEN received ELSE Len(ctx_payloads)
  <2>2. buffer' = Shown(shown) /\ received' = received - shown
    BY DEF HandlerReturns
  <2>3. shown \in 0..received /\ ("astray" \notin history => shown = Len(ctx_payloads))
    BY <2>1
  <2> HIDE DEF shown
  <2> QED BY <2>2, <2>3
<1>3. PICK r :
        /\ r.st \in StateType /\ r.count \in 0..(MaxInt - 1) /\ r.ok \in BOOLEAN
        /\ r.st.addr = st.addr /\ r.st.running = st.running
        /\ r.st.curr_offset = st.curr_offset /\ r.st.chunks_per_buffer = C
        /\ st.addr \in {"null", "mapped"}
        /\ st.addr = "mapped" /\ ("astray" \notin history \/ st.data = <<>>) =>
             Extended(st, accumulated_chunk_count, chunks_per_irq, ChunksPassed, r)
        /\ accumulated_chunk_count' = r.count
        /\ prev_offset' = IF r.ok THEN (prev_offset + accum_length) % Size ELSE prev_offset
        /\ \/ /\ r.ok
              /\ HwQueue(Entries(r.st))
              /\ st' = StateIrDrained(r.st)
              /\ UNCHANGED <<attached, history>>
           \/ /\ ~r.ok \/ r.st.data # <<>>
              /\ st' = StateStop(r.st)
              /\ attached' = FALSE
              /\ IF st.running THEN HwStop
                 ELSE \E chunks \in IF r.ok THEN EntriesBeforeFailure(r.st) ELSE {<<>>} :
                        HwQueue(chunks)
              /\ history' = history \cup
                   (IF r.ok /\ ~st.running THEN {"failed"} ELSE {})
  <2>1. /\ R.st \in StateType /\ R.count \in 0..(MaxInt - 1) /\ R.ok \in BOOLEAN
        /\ R.st.addr = st.addr /\ R.st.running = st.running
        /\ R.st.curr_offset = st.curr_offset
        /\ R.st.chunks_per_buffer = ChunksPerBuffer
        /\ st.addr \in {"null", "mapped"}
        /\ st.addr = "mapped" /\ ("astray" \notin history \/ st.data = <<>>) =>
             Extended(st, accumulated_chunk_count, chunks_per_irq, ChunksPassed, R)
    BY <1>1, Reregistered
  <2>2. /\ accumulated_chunk_count' = R.count
        /\ prev_offset' = IF R.ok THEN (prev_offset + accum_length) % Size ELSE prev_offset
        /\ \/ /\ R.ok
              /\ HwQueue(Entries(R.st))
              /\ st' = StateIrDrained(R.st)
              /\ UNCHANGED <<attached, history>>
           \/ /\ ~R.ok \/ R.st.data # <<>>
              /\ st' = StateStop(R.st)
              /\ attached' = FALSE
              /\ IF st.running THEN HwStop
                 ELSE \E chunks \in IF R.ok THEN EntriesBeforeFailure(R.st) ELSE {<<>>} :
                        HwQueue(chunks)
              /\ history' = history \cup
                   (IF R.ok /\ ~st.running THEN {"failed"} ELSE {})
    BY DEF HandlerReturns
  <2> HIDE DEF R
  <2>3. PICK r : r = R
    OBVIOUS
  <2> QED BY <2>1, <2>2, <2>3
<1> HIDE DEF R
<1>4. /\ Size \in Nat \ {0} /\ prev_offset \in 0..(Size - 1) /\ accum_length \in 0..Size
      /\ received \in Nat /\ Len(ctx_payloads) \in Nat /\ shown \in Nat
      /\ Len(<<>>) = 0 /\ C \in Nat
  BY <1>1, Constants DEF OtherTypes, HandlerType
<1>5. PICK m \in Nat : m = ChunksPassed
  BY <1>4, ChunksPassedFacts
<1>6. PICK n \in Nat : n = Len(st.data)
  BY <1>1 DEF StateType, StateRecords
<1>7. st.addr = "mapped" /\ ("astray" \notin history \/ st.data = <<>>) =>
        /\ r.ok /\ Len(r.st.data) = n + m
        /\ \A j \in 1..m : r.st.data[n + j] = MarkAt(accumulated_chunk_count, chunks_per_irq, j)
        /\ chunks_per_irq > 0 => r.count % chunks_per_irq =
                                   (accumulated_chunk_count + m) % chunks_per_irq
  BY <1>3, <1>5, <1>6 DEF Extended
<1>8. /\ history \subseteq history'
      /\ history' \subseteq {"mapped", "started", "failed", "round", "short", "astray", "overrun"}
      /\ attached' => attached
      /\ attached' \in BOOLEAN
  <2>1. /\ history \subseteq {"mapped", "started", "failed", "round", "short", "astray", "overrun"}
        /\ attached \in BOOLEAN
    BY <1>1 DEF OtherTypes
  <2>2. CASE UNCHANGED <<attached, history>>
    BY <2>1, <2>2
  <2>3. CASE /\ attached' = FALSE
             /\ history' = history \cup (IF r.ok /\ ~st.running THEN {"failed"} ELSE {})
    <3>1. history' = history \cup {"failed"} \/ history' = history
      BY <2>3
    <3>2. history \subseteq history' /\ history' \subseteq {"mapped", "started", "failed", "round", "short", "astray", "overrun"}
      BY <2>1, <3>1
    <3> QED BY <2>3, <3>2
  <2>4. \/ UNCHANGED <<attached, history>>
        \/ /\ attached' = FALSE
           /\ history' = history \cup (IF r.ok /\ ~st.running THEN {"failed"} ELSE {})
    BY <1>3, Zenon
  <2> QED BY <2>2, <2>3, <2>4
<1>9. /\ st' \in StateType /\ st'.addr = st.addr /\ st'.chunks_per_buffer = C
      /\ Len(st'.data) <= Len(r.st.data) /\ Len(st'.data) \in Nat
      /\ st'.running => /\ st.running /\ st'.data = <<>>
                        /\ HwQueue(Entries(r.st)) /\ r.ok
                        /\ st'.curr_offset = (st.curr_offset + Len(r.st.data)) % C
      /\ st'.addr = "mapped" /\ "failed" \notin history' => st'.data = <<>>
  <2>0. Len(r.st.data) \in Nat
    BY <1>3 DEF StateType, StateRecords
  <2>1. CASE r.ok /\ HwQueue(Entries(r.st)) /\ st' = StateIrDrained(r.st)
    <3>1. /\ st' \in StateType /\ st'.data = <<>> /\ st'.running = r.st.running
          /\ st'.addr = r.st.addr /\ st'.chunks_per_buffer = C
          /\ st'.curr_offset = (r.st.curr_offset + Len(r.st.data)) % C
      BY <1>3, <2>1, DrainedEffect
    <3> QED BY <1>3, <1>4, <2>0, <2>1, <3>1
  <2>2. CASE /\ ~r.ok \/ r.st.data # <<>>
             /\ st' = StateStop(r.st)
             /\ history' = history \cup (IF r.ok /\ ~st.running THEN {"failed"} ELSE {})
    <3>1. /\ st' \in StateType /\ ~st'.running /\ st'.addr = r.st.addr
          /\ st'.chunks_per_buffer = C
          /\ ~r.st.running => st' = r.st
          /\ r.st.running => st'.data = <<>>
      BY <1>3, <2>2, StopEffect
    <3>2. st'.addr = "mapped" /\ "failed" \notin history' => st'.data = <<>>
      <4> SUFFICES ASSUME st'.addr = "mapped", "failed" \notin history'  PROVE st'.data = <<>>
        OBVIOUS
      <4>0. st.data = <<>>
        BY <1>1, <1>3, <1>8, <3>1 DEF Phases
      <4>1. r.ok
        BY <1>3, <1>7, <3>1, <4>0
      <4> QED BY <1>3, <2>2, <3>1, <4>1
    <3> QED BY <1>3, <1>4, <2>0, <3>1, <3>2
  <2> QED BY <1>3, <2>1, <2>2
<1>10. /\ Entries(r.st) \in Seq(Held) /\ Len(Entries(r.st)) = Len(r.st.data)
       /\ \A i \in 1..Len(r.st.data) :
            /\ Entries(r.st)[i].chunk = (st.curr_offset + (i - 1)) % C
            /\ Entries(r.st)[i].irq <=> r.st.data[i] = TRUE
  <2> HIDE DEF C
  <2>1. r.st \in StateType /\ r.st.chunks_per_buffer = ChunksPerBuffer
    BY <1>3 DEF C
  <2>2. /\ Entries(r.st) \in Seq(Held) /\ Len(Entries(r.st)) = Len(r.st.data)
        /\ \A i \in 1..Len(r.st.data) :
             /\ Entries(r.st)[i].chunk = (r.st.curr_offset + (i - 1)) % ChunksPerBuffer
             /\ Entries(r.st)[i].irq <=> r.st.data[i] = TRUE
    BY <2>1, EntriesFacts
  <2>3. r.st.curr_offset = st.curr_offset
    BY <1>3
  <2> QED BY <2>2, <2>3, Zenon DEF C
<1>11. /\ HwType' /\ devq' = devq
       /\ ~st'.running => fill' = 0 /\ untold' = 0
  <2>1. CASE HwQueue(Entries(r.st)) /\ st' = StateIrDrained(r.st)
    <3>1. HwType' /\ UNCHANGED <<fill, untold, devq>>
      BY <1>1, <1>10, <2>1, HwQueueFacts
    <3>2. st'.running = r.st.running
      BY <1>3, <2>1, DrainedEffect
    <3> QED BY <1>1, <1>3, <3>1, <3>2 DEF Phases
  <2>2. CASE st.running /\ HwStop
    <3>1. <<>> \in Seq(Held) /\ 0 \in 0..(BytesPerChunk - 1) /\ 0 \in 0..Size
      BY Constants
    <3> QED BY <1>1, <2>2, <3>1 DEF HwType, HwStop
  <2>3. CASE ~st.running /\ \E chunks \in IF r.ok THEN EntriesBeforeFailure(r.st) ELSE {<<>>} :
                              HwQueue(chunks)
    <3>1. PICK chunks \in EntriesBeforeFailure(r.st) \cup {<<>>} : HwQueue(chunks)
      BY <2>3
    <3>2. chunks \in Seq(Held)
      BY <1>3, <3>1, BeforeFailureType
    <3>3. HwType' /\ UNCHANGED <<fill, untold, devq>>
      BY <1>1, <3>1, <3>2, HwQueueFacts
    <3> QED BY <1>1, <2>3, <3>3 DEF Phases
  <2> QED BY <1>3, <2>1, <2>2, <2>3
<1>12. OtherTypes'
  <2>1. prev_offset' \in 0..(Size - 1)
    <3>1. prev_offset + accum_length \in Int
      BY <1>4
    <3>2. (prev_offset + accum_length) % Size \in 0..(Size - 1)
      BY <1>4, <3>1, DivisionFacts
    <3> QED BY <1>3, <1>4, <3>2
  <2>2. received' \in Nat
    BY <1>4, <1>s
  <2>3. /\ chunks_per_irq' \in Intervals \cup {0} /\ chunks_per_irq' < ChunksPerBuffer
        /\ accumulated_chunk_count' \in 0..(MaxInt - 1)
        /\ handling' \in BOOLEAN
    BY <1>1, <1>2, <1>3 DEF OtherTypes
  <2> QED BY <1>8, <2>1, <2>2, <2>3 DEF OtherTypes
<1>13. BufferType'
  BY <1>1, <1>4, <1>s, ShownBuffer DEF BufferType
<1>14. HandlerType'
  <2>1. <<>> \in Seq([offset : 0..(Size - 1), length : Read])
    OBVIOUS
  <2>2. 0 \in 0..Size /\ Len(ctx_payloads') <= received'
    BY <1>2, <1>4, <1>s
  <2> QED BY <1>2, <2>1, <2>2 DEF HandlerType
<1>15. Phases'
  <2>1. "started" \in history /\ "mapped" \in history
    BY <1>1 DEF Phases, BeforeStart
  <2>2. "started" \in history' /\ "mapped" \in history'
    BY <1>8, <2>1
  <2>3. BeforeStart'
    BY <2>2 DEF BeforeStart
  <2>4. attached' => st'.addr = "mapped"
    BY <1>1, <1>8, <1>9 DEF Phases
  <2>5. st'.addr # "failed"
    BY <1>3, <1>9
  <2> QED BY <1>9, <1>11, <2>2, <2>3, <2>4, <2>5 DEF Phases
<1>16. st'.running => /\ st.addr = "mapped" /\ n = 0 /\ st.running /\ st.data = <<>>
  <2> SUFFICES ASSUME st'.running  PROVE st.addr = "mapped" /\ n = 0 /\ st.data = <<>>
    BY <1>9
  <2>1. st.running
    BY <1>9
  <2>2. st.addr = "mapped" /\ st.data = <<>>
    BY <1>1, <2>1 DEF StateType, Phases
  <2> QED BY <1>4, <1>6, <2>2
<1>17. st'.running =>
         /\ fill' = fill /\ untold' = untold
         /\ st'.curr_offset = (st.curr_offset + m) % C
         /\ Len(ring') = Len(ring) + m /\ Len(ring) \in Nat
         /\ \A i \in 1..Len(ring) : ring'[i] = ring[i]
         /\ \A i \in 1..m :
              /\ ring'[Len(ring) + i].chunk = (st.curr_offset + (i - 1)) % C
              /\ ring'[Len(ring) + i].irq <=>
                   MarkAt(accumulated_chunk_count, chunks_per_irq, i)
  <2> SUFFICES ASSUME st'.running
               PROVE  /\ fill' = fill /\ untold' = untold
                      /\ st'.curr_offset = (st.curr_offset + m) % C
                      /\ Len(ring') = Len(ring) + m /\ Len(ring) \in Nat
                      /\ \A i \in 1..Len(ring) : ring'[i] = ring[i]
                      /\ \A i \in 1..m :
                           /\ ring'[Len(ring) + i].chunk = (st.curr_offset + (i - 1)) % C
                           /\ ring'[Len(ring) + i].irq <=>
                                MarkAt(accumulated_chunk_count, chunks_per_irq, i)
    OBVIOUS
  <2>1. HwQueue(Entries(r.st)) /\ st'.curr_offset = (st.curr_offset + Len(r.st.data)) % C
    BY <1>9
  <2>2. n = 0 /\ n + m = m /\ \A i \in 1..m : n + i = i
    BY <1>16
  <2>3. /\ Len(r.st.data) = m
        /\ \A j \in 1..m : r.st.data[j] = MarkAt(accumulated_chunk_count, chunks_per_irq, j)
    BY <1>7, <1>16, <2>2
  <2>4. /\ UNCHANGED <<fill, untold, devq>>
        /\ Len(ring') = Len(ring) + m /\ Len(ring) \in Nat
        /\ \A i \in 1..Len(ring) : ring'[i] = ring[i]
        /\ \A i \in 1..m : ring'[Len(ring) + i] = Entries(r.st)[i]
    BY <1>1, <1>10, <2>1, <2>3, HwQueueFacts
  <2>5. \A i \in 1..m : MarkAt(accumulated_chunk_count, chunks_per_irq, i) \in BOOLEAN
    BY DEF MarkAt
  <2>6. ASSUME NEW i \in 1..m
        PROVE  /\ ring'[Len(ring) + i].chunk = (st.curr_offset + (i - 1)) % C
               /\ ring'[Len(ring) + i].irq <=>
                    MarkAt(accumulated_chunk_count, chunks_per_irq, i)
    <3>1. ring'[Len(ring) + i] = Entries(r.st)[i]
      BY <2>4
    <3>2. i \in 1..Len(r.st.data)
      BY <2>3
    <3>3. /\ Entries(r.st)[i].chunk = (st.curr_offset + (i - 1)) % C
          /\ Entries(r.st)[i].irq <=> r.st.data[i] = TRUE
      BY <1>10, <3>2
    <3>4. r.st.data[i] = MarkAt(accumulated_chunk_count, chunks_per_irq, i)
      BY <2>3
    <3>5. r.st.data[i] = TRUE <=> MarkAt(accumulated_chunk_count, chunks_per_irq, i)
      BY <2>5, <3>4
    <3> QED BY <3>1, <3>3, <3>5, Zenon
  <2>7. fill' = fill /\ untold' = untold
    BY <2>4
  <2>8. st'.curr_offset = (st.curr_offset + m) % C
    BY <2>1, <2>3
  <2> QED BY <2>4, <2>6, <2>7, <2>8
<1>18. Stream'
  <2>1. CASE st.addr # "mapped" \/ "astray" \in history
    BY <1>8, <1>9, <2>1 DEF Stream
  <2>2. CASE st.addr = "mapped" /\ "astray" \notin history
    <3>1. prev_offset' = (prev_offset + accum_length) % Size
      BY <1>3, <1>7, <2>2
    <3>2. Len(st'.data) <= Len(st.data) + ChunksPassed
      <4>1. Len(r.st.data) = n + m
        BY <1>7, <2>2
      <4> QED BY <1>5, <1>6, <1>9, <4>1
    <3>3. st'.running =>
           /\ st.running /\ fill' = fill /\ untold' = untold
           /\ st'.curr_offset = (st.curr_offset + ChunksPassed) % ChunksPerBuffer
           /\ Len(ring') = Len(ring) + ChunksPassed
           /\ \A i \in 1..Len(ring) : ring'[i] = ring[i]
           /\ \A i \in 1..ChunksPassed :
                ring'[Len(ring) + i].chunk = (st.curr_offset + (i - 1)) % ChunksPerBuffer
      BY <1>5, <1>16, <1>17
    <3> HIDE DEF C
    <3> QED BY <1>1, <1>2, <1>s, <1>8, <1>9, <1>11, <2>2, <3>1, <3>2, <3>3, StreamShifted
  <2> QED BY <2>1, <2>2
<1>19. Marked'
  <2> SUFFICES ASSUME st'.running, chunks_per_irq > 0, NEW i \in 1..Len(ring')
               PROVE  ring'[i].irq <=>
                        (r.count - Len(ring') + i) % chunks_per_irq = 0
    BY <1>2, <1>3 DEF Marked
  <2>1. PICK l \in Nat : l = Len(ring) /\ Len(ring') = l + m /\ i \in 1..(l + m)
    BY <1>17
  <2>2. PICK p \in Nat \ {0} : p = chunks_per_irq
    BY <1>1, Constants DEF OtherTypes
  <2>3. PICK q \in Nat : q = accumulated_chunk_count
    BY <1>1, Constants DEF OtherTypes
  <2>4. PICK t \in Nat : t = r.count
    BY <1>3, Constants
  <2>5. t % p = (q + m) % p
    BY <1>7, <1>16, <2>2, <2>3, <2>4
  <2>6. (t - (l + m) + i) % p = (q - l + i) % p
    <3>1. /\ (t + (i - (l + m))) % p = ((q + m) + (i - (l + m))) % p
      <4>1. t \in Int /\ q + m \in Int /\ i - (l + m) \in Int
        OBVIOUS
      <4> QED BY <2>2, <2>5, <4>1, RemainderShift
    <3>2. t + (i - (l + m)) = t - (l + m) + i /\ (q + m) + (i - (l + m)) = q - l + i
      OBVIOUS
    <3> QED BY <3>1, <3>2
  <2>7. CASE i \in 1..l
    <3>1. ring[i].irq <=> (q - l + i) % p = 0
      BY <1>1, <1>16, <2>1, <2>2, <2>3, <2>7 DEF Marked
    <3>2. ring'[i] = ring[i]
      BY <1>17, <2>1, <2>7
    <3> QED BY <2>1, <2>2, <2>4, <2>6, <3>1, <3>2
  <2>8. CASE i \notin 1..l
    <3>1. PICK k \in 1..m : i = l + k /\ q - l + i = q + k
      <4>1. i - l \in 1..m /\ i = l + (i - l) /\ q - l + i = q + (i - l)
        BY <2>1, <2>8
      <4> QED BY <4>1
    <3>2. ring'[i].irq <=> (q + k) % p = 0
      BY <1>17, <2>1, <2>2, <2>3, <3>1 DEF MarkAt
    <3> QED BY <2>1, <2>2, <2>4, <2>6, <3>1, <3>2
  <2> QED BY <2>7, <2>8
<1> QED BY <1>9, <1>11, <1>12, <1>13, <1>14, <1>15, <1>18, <1>19 DEF IInv

-----------------------------------------------------------------------------
(***************************************************************************)
(* A packet arrives.                                                       *)
(***************************************************************************)
\* A position at the end of a chunk.
LEMMA MarkOfEnd ==
  ASSUME prev_offset \in 0..(Size - 1), NEW r \in 0..Size, NEW x \in Nat,
         prev_offset + r = (x + 1) * BytesPerChunk
  PROVE  Mark(r) = EndOf(x % ChunksPerBuffer) /\ x % ChunksPerBuffer \in Chunks
<1> DEFINE Q == BytesPerChunk
           C == ChunksPerBuffer
           d == x \div C
           m == x % C
           y == EndOf(m)
<1>1. /\ Q \in Nat \ {0} /\ C \in Nat \ {0} /\ Size \in Nat \ {0} /\ Size = Q * C
      /\ Chunks = 0..(C - 1)
  BY Constants DEF Size
<1>2. d \in Int /\ m \in 0..(C - 1) /\ x = C * d + m
  BY <1>1, DivisionFacts
<1>3. y = (m + 1) * Q
  BY DEF EndOf
<1>4. y \in 1..Size
  BY <1>1, <1>2, EndOfChunk
<1> HIDE DEF Q, C, d, m, y
<1>5. (x + 1) * Q = Size * d + y
  BY <1>1, <1>2, <1>3
<1>6. prev_offset + r = Size * d + y
  BY <1>5 DEF Q
<1>7. CASE y < Size
  <2>1. y \in 0..(Size - 1)
    BY <1>1, <1>4, <1>7
  <2>2. (Size * d + y) % Size = y
    BY <1>1, <1>2, <2>1, RemainderUnique
  <2>4. At(r) = y
    BY <1>6, <2>2 DEF At
  <2>3. Mark(r) = y
    BY <1>1, <1>4, <2>4 DEF Mark
  <2> QED BY <1>1, <1>2, <2>3 DEF y, m, C
<1>8. CASE y = Size
  <2>1. prev_offset + r = Size * (d + 1) + 0 /\ d + 1 \in Int /\ 0 \in 0..(Size - 1)
    BY <1>1, <1>2, <1>6, <1>8
  <2>2. (Size * (d + 1) + 0) % Size = 0
    BY <1>1, <2>1, RemainderUnique
  <2>4. At(r) = 0
    BY <2>1, <2>2 DEF At
  <2>3. Mark(r) = y
    BY <1>8, <2>4 DEF Mark
  <2> QED BY <1>1, <1>2, <2>3 DEF y, m, C
<1> QED BY <1>1, <1>4, <1>7, <1>8

\* The chunks it fills are among those the hardware holds.
LEMMA ArrivalCut ==
  ASSUME NEW f \in 0..(BytesPerChunk - 1), NEW length \in Nat \ {0}, NEW l \in Nat,
         f + length <= l * BytesPerChunk
  PROVE  LET full == (f + length) \div BytesPerChunk
             left == (f + length) % BytesPerChunk
         IN  /\ full \in 0..l /\ left \in 0..(BytesPerChunk - 1)
             /\ f + length = full * BytesPerChunk + left
             /\ left > 0 => full < l
             /\ left = 0 => full > 0
<1> DEFINE Q == BytesPerChunk
           full == (f + length) \div Q
           left == (f + length) % Q
<1>1. Q \in Nat \ {0}
  BY Constants
<1>2. f \in 0..(Q - 1)
  OBVIOUS
<1>3. full \in Nat /\ left \in 0..(Q - 1) /\ f + length = full * Q + left
  <2>1. f + length \in Nat
    BY <1>1
  <2> QED BY <2>1, ChunkOf
<1>4. f + length <= l * Q
  OBVIOUS
<1> HIDE DEF Q, full, left
<1>5. full <= l /\ (left > 0 => full < l)
  <2> DEFINE u == full * Q
             v == l * Q
  <2>1. u \in Nat /\ v \in Nat /\ f + length = u + left /\ f + length <= v
    BY <1>1, <1>3, <1>4
  <2>2. full >= l + 1 => u >= v + Q
    <3> SUFFICES ASSUME full >= l + 1  PROVE u >= v + Q
      OBVIOUS
    <3>1. u = v + Q + (full - l - 1) * Q /\ (full - l - 1) * Q \in Nat
      BY <1>1, <1>3
    <3> HIDE DEF u, v
    <3> QED BY <1>1, <2>1, <3>1
  <2>3. full = l => u = v
    OBVIOUS
  <2> HIDE DEF u, v
  <2>4. left \in Nat /\ Q > 0 /\ f + length \in Nat
    BY <1>1, <1>2, <1>3
  <2>5. ~(full >= l + 1) /\ ~(full = l /\ left > 0)
    BY <2>1, <2>2, <2>3, <2>4, <1>1
  <2> QED BY <1>3, <2>5
<1>6. left = 0 => full > 0
  <2> SUFFICES ASSUME left = 0, full = 0  PROVE FALSE
    BY <1>3
  <2>1. full * Q = 0
    BY <1>1
  <2> QED BY <1>2, <1>3, <2>1
<1> QED BY <1>3, <1>5, <1>6 DEF Q, full, left

\* What the hardware holds has room for the packet, so the buffer has.
LEMMA ArrivalRoom ==
  ASSUME prev_offset \in 0..(Size - 1), NEW w \in 0..Size, NEW length \in Nat \ {0},
         NEW l \in Nat, NEW f, f = (prev_offset + w) % BytesPerChunk,
         l + ChunkAt(w) = ChunkAt(0) + ChunksPerBuffer,
         f + length <= l * BytesPerChunk
  PROVE  LET full == (f + length) \div BytesPerChunk
             left == (f + length) % BytesPerChunk
         IN  /\ f \in 0..(BytesPerChunk - 1)
             /\ prev_offset + w = ChunkAt(w) * BytesPerChunk + f
             /\ full \in 0..l /\ left \in 0..(BytesPerChunk - 1)
             /\ f + length = full * BytesPerChunk + left
             /\ left > 0 => full < l
             /\ left = 0 => full > 0
             /\ w + length \in 1..Size
             /\ ChunkAt(w + length) = ChunkAt(w) + full
             /\ (prev_offset + (w + length)) % BytesPerChunk = left
<1> DEFINE Q == BytesPerChunk
           C == ChunksPerBuffer
           full == (f + length) \div Q
           left == (f + length) % Q
           x == ChunkAt(w)
           x0 == ChunkAt(0)
           r0 == prev_offset % Q
<1>1. /\ Q \in Nat \ {0} /\ C \in Nat \ {0} /\ Size \in Nat \ {0} /\ Size = Q * C
      /\ prev_offset \in Nat /\ prev_offset + w \in Nat /\ prev_offset + 0 = prev_offset
  BY Constants DEF Size
<1>2. x \in Nat /\ f \in 0..(Q - 1) /\ prev_offset + w = x * Q + f
  BY <1>1, ChunkOf DEF ChunkAt
<1>3. x0 \in Nat /\ r0 \in 0..(Q - 1) /\ prev_offset = x0 * Q + r0
  <2>1. x0 = prev_offset \div Q
    BY <1>1 DEF ChunkAt
  <2> QED BY <1>1, <2>1, ChunkOf
<1>4. full \in Nat /\ left \in 0..(Q - 1) /\ f + length = full * Q + left
  <2>1. f + length \in Nat
    BY <1>2
  <2> QED BY <2>1, ChunkOf
<1>5. l + x = x0 + C /\ f + length <= l * Q
  OBVIOUS
<1> HIDE DEF Q, C, full, left, x, x0, r0
<1>6. w + length \in 1..Size
  <2>1. l * Q = x0 * Q + Size - x * Q
    <3>1. l = x0 + C - x
      BY <1>1, <1>2, <1>3, <1>5
    <3> QED BY <1>1, <1>2, <1>3, <3>1
  <2>2. l * Q \in Nat /\ x * Q \in Nat /\ x0 * Q \in Nat
    BY <1>1, <1>2, <1>3
  <2>3. w + length <= Size
    BY <1>1, <1>2, <1>3, <1>5, <2>1, <2>2
  <2> QED BY <1>1, <2>3
<1>7. full <= l /\ (left > 0 => full < l) /\ (left = 0 => full > 0)
  BY <1>2, <1>5, ArrivalCut DEF full, left, Q
<1>8. ChunkAt(w + length) = x + full /\ (prev_offset + (w + length)) % Q = left
  <2>1. prev_offset + (w + length) = (x + full) * Q + left /\ x + full \in Nat
    <3>1. (x + full) * Q = x * Q + full * Q /\ x * Q \in Nat /\ full * Q \in Nat
      BY <1>1, <1>2, <1>4
    <3> QED BY <1>1, <1>2, <1>4, <3>1
  <2> DEFINE z == x + full
  <2>2. z \in Nat /\ prev_offset + (w + length) = z * Q + left
    BY <2>1
  <2> HIDE DEF z
  <2>3. (z * Q + left) \div Q = z /\ (z * Q + left) % Q = left
    BY <1>4, <2>2, ChunkAndByte DEF Q
  <2> QED BY <2>2, <2>3 DEF z, ChunkAt, Q
<1> QED BY <1>1, <1>2, <1>4, <1>6, <1>7, <1>8 DEF Q, C, full, left, x, x0

\* A packet written behind w fills this many chunks, x first, and leaves bytes in
\* the next one; pos are the ends of the chunks.
Arrives(w, length, x, f, full, left, pos) ==
  /\ w \in 0..Size /\ length \in Nat \ {0} /\ x \in Nat /\ full \in Nat
  /\ f \in 0..(BytesPerChunk - 1) /\ left \in 0..(BytesPerChunk - 1)
  /\ prev_offset + w = x * BytesPerChunk + f
  /\ f + length = full * BytesPerChunk + left /\ w + length \in 1..Size
  /\ \A i \in 1..full : pos[i] = w - f + i * BytesPerChunk

LEMMA ArrivalEnds ==
  ASSUME prev_offset \in 0..(Size - 1), NEW w, NEW length, NEW x, NEW f, NEW full,
         NEW left, NEW pos, Arrives(w, length, x, f, full, left, pos)
  PROVE  /\ \A i \in 1..full :
              /\ pos[i] \in 1..Size /\ w < pos[i] /\ pos[i] <= w + length
              /\ left > 0 => pos[i] < w + length
              /\ Mark(pos[i]) = EndOf((x + i - 1) % ChunksPerBuffer)
         /\ \A i, j \in 1..full : i < j => pos[i] < pos[j]
         /\ left = 0 /\ full > 0 => pos[full] = w + length
         /\ left > 0 => Mark(w + length) =
                          ((x + full) % ChunksPerBuffer) * BytesPerChunk + left
<1> DEFINE Q == BytesPerChunk
           C == ChunksPerBuffer
<1>1. /\ Q \in Nat \ {0} /\ C \in Nat \ {0} /\ Size \in Nat \ {0} /\ f \in 0..(Q - 1)
      /\ left \in 0..(Q - 1) /\ prev_offset + w = x * Q + f /\ f + length = full * Q + left
      /\ prev_offset \in Nat /\ full * Q \in Nat /\ x * Q \in Nat
      /\ w \in 0..Size /\ length \in Nat \ {0} /\ x \in Nat /\ full \in Nat
      /\ w + length \in 1..Size
  <2>1. /\ w \in 0..Size /\ length \in Nat \ {0} /\ x \in Nat /\ full \in Nat
        /\ f \in 0..(Q - 1) /\ left \in 0..(Q - 1)
        /\ prev_offset + w = x * Q + f
        /\ f + length = full * Q + left /\ w + length \in 1..Size
    BY DEF Arrives
  <2> QED BY <2>1, Constants
<1>7. \A i \in 1..full : pos[i] = w - f + i * Q
  BY DEF Arrives
<1> HIDE DEF Q, C
<1>2. ASSUME NEW i \in 1..full
      PROVE  /\ pos[i] \in 1..Size /\ w < pos[i] /\ pos[i] <= w + length
             /\ left > 0 => pos[i] < w + length
             /\ prev_offset + pos[i] = ((x + i - 1) + 1) * Q /\ x + i - 1 \in Nat
  <2>1. pos[i] = w - f + i * Q
    BY <1>7
  <2>2. i * Q = Q + (i - 1) * Q /\ (i - 1) * Q \in Nat /\ i * Q \in Nat
    BY <1>1
  <2>3. full * Q = i * Q + (full - i) * Q /\ (full - i) * Q \in Nat
    BY <1>1
  <2> DEFINE u == i * Q
             v == full * Q
  <2>4. u \in Nat /\ v \in Nat /\ u >= Q /\ u <= v
    BY <1>1, <2>2, <2>3
  <2>5. f + length = v + left /\ pos[i] = w - f + u
    BY <1>1, <2>1
  <2> HIDE DEF u, v
  <2>6. /\ pos[i] \in 1..Size /\ w < pos[i] /\ pos[i] <= w + length
        /\ left > 0 => pos[i] < w + length
    BY <1>1, <2>4, <2>5
  <2>7. prev_offset + pos[i] = ((x + i - 1) + 1) * Q
    <3>1. ((x + i - 1) + 1) * Q = x * Q + i * Q
      BY <1>1
    <3> QED BY <1>1, <2>1, <2>2, <3>1
  <2>8. x + i - 1 \in Nat
    BY <1>1
  <2> QED BY <2>6, <2>7, <2>8
<1>3. ASSUME NEW i \in 1..full  PROVE Mark(pos[i]) = EndOf((x + i - 1) % C)
  <2> DEFINE y == x + i - 1
  <2>1. y \in Nat /\ pos[i] \in 0..Size /\ prev_offset + pos[i] = (y + 1) * BytesPerChunk
    BY <1>1, <1>2 DEF Q
  <2> HIDE DEF y
  <2>2. Mark(pos[i]) = EndOf(y % ChunksPerBuffer)
    BY <2>1, MarkOfEnd
  <2> QED BY <2>2 DEF y, C
<1>4. ASSUME NEW i \in 1..full, NEW j \in 1..full, i < j  PROVE pos[i] < pos[j]
  <2>1. pos[i] = w - f + i * Q /\ pos[j] = w - f + j * Q
    BY <1>7
  <2>2. j * Q = i * Q + Q + (j - i - 1) * Q /\ (j - i - 1) * Q \in Nat
        /\ i * Q \in Nat /\ j * Q \in Nat
    BY <1>1, <1>4
  <2> QED BY <1>1, <2>1, <2>2
<1>5. left = 0 /\ full > 0 => pos[full] = w + length
  <2> SUFFICES ASSUME left = 0, full > 0  PROVE pos[full] = w + length
    OBVIOUS
  <2>1. pos[full] = w - f + full * Q
    BY <1>1, <1>7
  <2> QED BY <1>1, <2>1
<1>6. left > 0 => Mark(w + length) = ((x + full) % C) * Q + left
  <2> SUFFICES ASSUME left > 0  PROVE Mark(w + length) = ((x + full) % C) * Q + left
    OBVIOUS
  <2> DEFINE z == x + full
             c == z % C
  <2>1. z \in Nat /\ prev_offset + (w + length) = z * Q + left
    <3>1. (x + full) * Q = x * Q + full * Q
      BY <1>1
    <3> QED BY <1>1, <3>1
  <2> HIDE DEF z
  <2>2. (z * Q + left) % Size = c * Q + left /\ c \in Chunks
    BY <1>1, <2>1, ChunkAndByte DEF Q, C
  <2>3. At(w + length) = c * Q + left /\ c \in Nat
    BY <1>1, <2>1, <2>2 DEF At, Chunks
  <2> HIDE DEF c
  <2>4. c * Q \in Nat
    BY <1>1, <2>3
  <2>5. Mark(w + length) = c * Q + left
    BY <1>1, <2>3, <2>4 DEF Mark
  <2> QED BY <2>5 DEF c, z
<1> QED BY <1>2, <1>3, <1>4, <1>5, <1>6 DEF Q, C

\* Where its bytes are written.
LEMMA ArrivalPlaces ==
  ASSUME prev_offset \in 0..(Size - 1), NEW w \in 0..Size, NEW length \in Nat \ {0},
         NEW x \in Nat, fill \in 0..(BytesPerChunk - 1),
         prev_offset + w = x * BytesPerChunk + fill,
         fill + length <= Len(ring) * BytesPerChunk, Len(ring) \in Nat,
         \A i \in 1..Len(ring) : ring[i].chunk = (x + i - 1) % ChunksPerBuffer,
         NEW k \in 1..length
  PROVE  Place(k) = At(w + (k - 1))
<1> DEFINE Q == BytesPerChunk
           C == ChunksPerBuffer
           a == fill + k - 1
           d == a \div Q
           m == a % Q
           l == Len(ring)
<1>1. /\ Q \in Nat \ {0} /\ a \in Nat /\ prev_offset + w = x * Q + fill /\ a + 1 <= l * Q
      /\ prev_offset \in Nat /\ l \in Nat
  BY Constants
<1>2. d \in Nat /\ m \in 0..(Q - 1) /\ a = d * Q + m
  BY <1>1, ChunkOf
<1> HIDE DEF d, m, l
<1>3. d + 1 \in 1..l
  <2> HIDE DEF Q, a
  <2> SUFFICES ASSUME d >= l  PROVE FALSE
    BY <1>1, <1>2
  <2> DEFINE u == d * Q
             v == l * Q
  <2>1. u = v + (d - l) * Q /\ (d - l) * Q \in Nat /\ v \in Nat /\ u \in Nat
    BY <1>1, <1>2
  <2>2. a = u + m /\ a + 1 <= v
    BY <1>1, <1>2
  <2> HIDE DEF u, v
  <2>3. u >= v
    <3> DEFINE t == (d - l) * Q
    <3>1. u = v + t /\ t \in Nat
      BY <2>1
    <3> HIDE DEF t
    <3> QED BY <2>1, <3>1
  <2>4. u \in Nat /\ v \in Nat /\ m \in Nat
    BY <1>1, <1>2, <2>1
  <2> HIDE DEF a
  <2> QED BY <2>2, <2>3, <2>4
<1>4. Place(k) = ((x + d) % C) * Q + m
  <2>1. ring[d + 1].chunk = (x + (d + 1) - 1) % C
    BY <1>3 DEF l
  <2>2. x + (d + 1) - 1 = x + d
    BY <1>2
  <2> QED BY <2>1, <2>2 DEF Place, d, m
<1> DEFINE z == x + d
<1>5. z \in Nat /\ prev_offset + (w + (k - 1)) = z * Q + m
  <2>1. (x + d) * Q = x * Q + d * Q
    BY <1>1, <1>2
  <2>2. x * Q \in Nat /\ d * Q \in Nat
    BY <1>1, <1>2
  <2> QED BY <1>1, <1>2, <2>1, <2>2
<1> HIDE DEF z, a
<1>6. (z * Q + m) % Size = (z % C) * Q + m
  BY <1>2, <1>5, ChunkAndByte
<1> QED BY <1>4, <1>5, <1>6 DEF At, z

\* The chunks that the hardware has filled and those it still holds.
LEMMA RingCut ==
  ASSUME ring \in Seq(Held), NEW full \in 0..Len(ring)
  PROVE  LET gone == SubSeq(ring, 1, full)
             kept == SubSeq(ring, full + 1, Len(ring))
         IN  /\ gone \in Seq(Held) /\ Len(gone) = full
             /\ \A i \in 1..full : gone[i] = ring[i]
             /\ kept \in Seq(Held) /\ Len(kept) = Len(ring) - full
             /\ \A i \in 1..(Len(ring) - full) : kept[i] = ring[full + i]
<1>1. CASE full = 0
  <2>1. Len(ring) \in Nat /\ full + 1 = 1
    BY <1>1
  <2>2. SubSeq(ring, 1, Len(ring)) = ring
    BY SubSeqProperties
  <2>3. SubSeq(ring, 1, 0) = <<>> /\ Len(<<>>) = 0 /\ <<>> \in Seq(Held)
    BY SubSeqProperties
  <2>4. \A i \in 1..0 : FALSE
    OBVIOUS
  <2>5. /\ Len(ring) - full = Len(ring)
        /\ \A i \in 1..Len(ring) : full + i = i
    BY <1>1, <2>1
  <2> QED BY <1>1, <2>1, <2>2, <2>3, <2>4, <2>5
<1>2. CASE full \in 1..Len(ring)
  BY <1>2, CutSequence
<1> QED BY <1>1, <1>2

\* The packet takes its place in the stream, behind w.
Arrival(w, length, data) ==
  /\ w + length \in 1..Size
  /\ \A k \in 1..length : Place(k) = At(w + (k - 1))
  /\ buffer' = [x \in 0..(Size - 1) |->
                  IF \A k \in 1..length : Place(k) # x THEN buffer[x]
                  ELSE LET k == CHOOSE k \in 1..length : Place(k) = x
                       IN <<received + 1, k, IF k = 1 THEN data ELSE 0>>]

OneMore(b, length) ==
  [i \in 0..(received + 1) |-> IF i <= received THEN b[i] ELSE b[received] + length]

LEMMA ReceivedWritten ==
  ASSUME prev_offset \in 0..(Size - 1), UNCHANGED prev_offset, received \in Nat,
         received' = received + 1, NEW b, Bounds(b), Written(b),
         NEW data \in DataLengths, NEW length \in Lengths, length = Space(data),
         Arrival(b[received], length, data), NEW c, c = OneMore(b, length),
         history \subseteq history', "short" \notin history' => 16 <= length
  PROVE  /\ Bounds(c)' /\ Written(c)'
         /\ \A i \in 1..received : Unpadded(b, i) => Unpadded(c, i)'
<1>0. /\ Size \in Nat \ {0} /\ length \in Nat /\ 8 <= length
      /\ b[received] + length \in 1..Size
  BY Constants DEF Arrival
<1>0a. buffer' = [x \in 0..(Size - 1) |->
                    IF \A k \in 1..length : Place(k) # x THEN buffer[x]
                    ELSE LET k == CHOOSE k \in 1..length : Place(k) = x
                         IN <<received + 1, k, IF k = 1 THEN data ELSE 0>>]
  BY DEF Arrival
<1>0b. \A k \in 1..length : Place(k) = At(b[received] + (k - 1))
  BY DEF Arrival
<1>1. /\ received \in 0..received /\ b[received] \in Nat /\ b[received] + length \in 0..Size
      /\ \A i \in 0..received : b[i] \in 0..Size /\ b[i] \in Nat
      /\ \A i, j \in 0..received : i <= j => b[i] <= b[j]
      /\ \A i \in 1..received : b[i] - b[i - 1] \in Lengths /\ i - 1 \in 0..received
      /\ \A i, j \in 0..received : i <= j => b[i] + (j - i) <= b[j]
  <2>1. received \in 0..received
    OBVIOUS
  <2>2. /\ \A i \in 0..received : b[i] \in 0..Size /\ b[i] \in Nat
        /\ \A i, j \in 0..received : i <= j => b[i] <= b[j]
        /\ \A i \in 1..received : b[i] - b[i - 1] \in Lengths /\ i - 1 \in 0..received
    BY BoundsFacts
  <2>3. \A i, j \in 0..received : i <= j => b[i] + (j - i) <= b[j]
    BY DEF Bounds
  <2>4. b[received] + length \in 0..Size
    BY <1>0
  <2>5. b[received] \in Nat
    BY <2>1, <2>2
  <2> QED BY <2>1, <2>2, <2>3, <2>4, <2>5
<1>2. /\ \A i \in 0..received : c[i] = b[i] /\ i \in 0..(received + 1)
      /\ c[received + 1] = b[received] + length /\ received + 1 \in 0..(received + 1)
      /\ \A i \in 0..(received + 1) : i \in 0..received \/ i = received + 1
      /\ (received + 1) - 1 = received
  BY DEF OneMore
<1>3. Bounds(c)'
  <2>1. c \in [0..(received + 1) -> 0..Size]
    BY <1>0, <1>1 DEF OneMore
  <2>2. c[0] = 0
    <3>1. 0 \in 0..received
      OBVIOUS
    <3> QED BY <1>2, <3>1 DEF Bounds
  <2>3. \A i \in 1..(received + 1) :
          /\ c[i] - c[i - 1] \in Lengths
          /\ "short" \notin history' => 16 <= c[i] - c[i - 1]
    <3> SUFFICES ASSUME NEW i \in 1..(received + 1)
                 PROVE  /\ c[i] - c[i - 1] \in Lengths
                        /\ "short" \notin history' => 16 <= c[i] - c[i - 1]
      OBVIOUS
    <3>1. CASE i \in 1..received
      <4>1. i \in 0..received /\ i - 1 \in 0..received
        BY <3>1
      <4>2. c[i] = b[i] /\ c[i - 1] = b[i - 1]
        BY <1>2, <4>1
      <4>3. "short" \notin history' => 16 <= b[i] - b[i - 1]
        BY <3>1 DEF Bounds
      <4> QED BY <1>1, <3>1, <4>2, <4>3
    <3>2. CASE i = received + 1
      <4>1. c[i - 1] = b[received] /\ c[i] = b[received] + length
        <5>1. c[received] = b[received] /\ i - 1 = received
          BY <1>1, <1>2, <3>2
        <5> QED BY <1>2, <3>2, <5>1
      <4>2. c[i] - c[i - 1] = length
        <5> DEFINE y == b[received]
        <5>1. y \in Nat /\ c[i - 1] = y /\ c[i] = y + length
          BY <1>1, <4>1
        <5> HIDE DEF y
        <5> QED BY <1>0, <5>1
      <4> QED BY <4>2
    <3> QED BY <3>1, <3>2
  <2>4. \A i, j \in 0..(received + 1) : i <= j => c[i] + (j - i) <= c[j]
    <3> SUFFICES ASSUME NEW i \in 0..(received + 1), NEW j \in 0..(received + 1), i <= j
                 PROVE  c[i] + (j - i) <= c[j]
      OBVIOUS
    <3>1. CASE j \in 0..received
      <4>1. i \in 0..received
        BY <3>1
      <4> QED BY <1>1, <1>2, <3>1, <4>1
    <3>2. CASE j = received + 1 /\ i = received + 1
      <4>1. c[i] \in Int
        BY <1>1, <1>2, <3>2
      <4> QED BY <3>2, <4>1
    <3>3. CASE j = received + 1 /\ i \in 0..received
      <4> DEFINE y == b[received]
                 z == b[i]
      <4>1. y \in Nat /\ z \in Nat /\ z + (received - i) <= y
        BY <1>1, <3>3
      <4>2. c[i] = z /\ c[j] = y + length
        BY <1>2, <3>3
      <4> HIDE DEF y, z
      <4>3. z + (j - i) <= y + length
        <5>1. j - i = (received - i) + 1 /\ received - i \in Int
          BY <3>3
        <5> QED BY <1>0, <4>1, <5>1
      <4> QED BY <4>2, <4>3
    <3> QED BY <1>2, <3>1, <3>2, <3>3
  <2> QED BY <2>1, <2>2, <2>3, <2>4 DEF Bounds
<1>4. \A r : At(r)' = At(r)
  BY DEF At
<1>5. ASSUME NEW i \in 1..received, NEW k \in 1..(b[i] - b[i - 1])
      PROVE  buffer'[At(b[i - 1] + k - 1)] = buffer[At(b[i - 1] + k - 1)]
  <2> DEFINE u == b[i - 1]
             v == b[i]
             w == b[received]
             r == u + k - 1
  <2>1. u \in Nat /\ v \in Nat /\ w \in Nat /\ v <= w /\ k \in 1..(v - u) /\ w + length <= Size
    <3>1. i - 1 \in 0..received /\ i \in 0..received /\ i <= received
      OBVIOUS
    <3>2. u \in Nat /\ v \in Nat /\ w \in Nat
      BY <1>1, <3>1
    <3>3. v <= w
      BY <1>1, <3>1
    <3> HIDE DEF u, v, w
    <3>4. w + length \in 1..Size /\ k \in 1..(v - u)
      BY <1>0 DEF u, v, w
    <3> QED BY <1>0, <3>2, <3>3, <3>4
  <2> HIDE DEF u, v, w
  <2>2. r \in 0..Size /\ r < w
    BY <1>0, <2>1
  <2> HIDE DEF r
  <2>3. At(r) \in 0..(Size - 1)
    BY <2>2, AtFacts
  <2>4. \A n \in 1..length : Place(n) # At(r)
    <3> SUFFICES ASSUME NEW n \in 1..length  PROVE Place(n) # At(r)
      OBVIOUS
    <3>1. w + (n - 1) \in 0..Size /\ r < w + (n - 1) /\ w + (n - 1) < r + Size
      BY <1>0, <2>1, <2>2
    <3>2. At(r) # At(w + (n - 1))
      BY <2>2, <3>1, AtFacts
    <3> QED BY <1>0b, <3>2 DEF w
  <2> QED BY <1>0a, <2>3, <2>4 DEF r, u
<1>6. ASSUME NEW k \in 1..length
      PROVE  buffer'[At(b[received] + (k - 1))] =
               <<received + 1, k, IF k = 1 THEN data ELSE 0>>
  <2> DEFINE w == b[received]
             x == At(w + (k - 1))
  <2>1. w \in Nat /\ w + length <= Size
    BY <1>0, <1>1
  <2>8. \A n \in 1..length : Place(n) = At(w + (n - 1))
    BY <1>0b
  <2> HIDE DEF w
  <2>2. x \in 0..(Size - 1)
    <3>1. w + (k - 1) \in 0..Size
      BY <1>0, <2>1
    <3> QED BY <3>1, AtFacts
  <2>3. Place(k) = x
    BY <2>8
  <2>4. ASSUME NEW n \in 1..length, Place(n) = x  PROVE n = k
    <3>1. /\ w + (k - 1) \in 0..Size /\ w + (n - 1) \in 0..Size
          /\ w + (k - 1) < (w + (n - 1)) + Size /\ w + (n - 1) < (w + (k - 1)) + Size
      BY <1>0, <2>1
    <3>2. At(w + (n - 1)) = At(w + (k - 1))
      BY <2>4, <2>8
    <3>3. ~(w + (k - 1) < w + (n - 1)) /\ ~(w + (n - 1) < w + (k - 1))
      BY <3>1, <3>2, AtFacts
    <3> QED BY <1>0, <2>1, <3>3
  <2> HIDE DEF x
  <2> DEFINE z == CHOOSE n \in 1..length : Place(n) = x
  <2>5. z \in 1..length /\ Place(z) = x
    BY <2>3
  <2>6. z = k
    BY <2>4, <2>5
  <2>7. buffer'[x] = <<received + 1, z, IF z = 1 THEN data ELSE 0>>
    BY <1>0a, <2>2, <2>3
  <2> HIDE DEF z
  <2> QED BY <2>6, <2>7 DEF x, w
<1>7. ASSUME NEW i \in 1..received, NEW d \in DataLengths, Packet(b, i, d)
      PROVE  Packet(c, i, d)'
  <2>1. i \in 0..received /\ i - 1 \in 0..received
    OBVIOUS
  <2>2. c[i] = b[i] /\ c[i - 1] = b[i - 1]
    BY <1>2, <2>1
  <2>3. ASSUME NEW k \in 1..(b[i] - b[i - 1])
        PROVE  buffer'[At(b[i - 1] + k - 1)] = <<i, k, IF k = 1 THEN d ELSE 0>>
    <3>1. buffer[At(b[i - 1] + k - 1)] = <<i, k, IF k = 1 THEN d ELSE 0>>
      BY <1>7 DEF Packet
    <3> QED BY <1>5, <3>1
  <2>4. c[i] - c[i - 1] = Space(d)
    BY <1>7, <2>2 DEF Packet
  <2>5. ASSUME NEW k \in 1..(c[i] - c[i - 1])
        PROVE  buffer'[At(c[i - 1] + k - 1)'] = <<i, k, IF k = 1 THEN d ELSE 0>>
    <3>1. At(c[i - 1] + k - 1)' = At(b[i - 1] + k - 1) /\ k \in 1..(b[i] - b[i - 1])
      BY <1>4, <2>2
    <3> QED BY <2>3, <3>1
  <2> QED BY <2>4, <2>5 DEF Packet
<1>8. ASSUME NEW i, i = received + 1  PROVE Packet(c, i, data)'
  <2>0. PICK w : w = b[received]
    OBVIOUS
  <2>1. w \in Nat /\ c[i - 1] = w /\ c[i] = w + length
    <3>1. c[received] = b[received] /\ i - 1 = received
      BY <1>1, <1>2, <1>8
    <3> QED BY <1>1, <1>2, <1>8, <2>0, <3>1
  <2>2. c[i] - c[i - 1] = length
    BY <1>0, <2>1
  <2>3. ASSUME NEW k \in 1..length
        PROVE  buffer'[At(c[i - 1] + k - 1)] = <<i, k, IF k = 1 THEN data ELSE 0>>
    <3>1. c[i - 1] + k - 1 = w + (k - 1)
      BY <1>0, <2>1
    <3> QED BY <1>6, <1>8, <2>0, <3>1
  <2>5. ASSUME NEW k \in 1..(c[i] - c[i - 1])
        PROVE  buffer'[At(c[i - 1] + k - 1)'] = <<i, k, IF k = 1 THEN data ELSE 0>>
    <3>1. At(c[i - 1] + k - 1)' = At(c[i - 1] + k - 1) /\ k \in 1..length
      BY <1>4, <2>2
    <3> QED BY <2>3, <3>1
  <2> QED BY <2>2, <2>5 DEF Packet
<1>9. Written(c)'
  <2> SUFFICES ASSUME NEW i \in 1..(received + 1)
               PROVE  \E d \in DataLengths : Packet(c, i, d)'
    BY DEF Written
  <2>1. CASE i \in 1..received
    <3>1. PICK d \in DataLengths : Packet(b, i, d)
      BY <2>1 DEF Written
    <3> QED BY <1>7, <2>1, <3>1
  <2>2. CASE i = received + 1
    BY <1>8, <2>2
  <2>3. i \in 1..received \/ i = received + 1
    OBVIOUS
  <2> QED BY <2>1, <2>2, <2>3
<1>10. ASSUME NEW i \in 1..received, Unpadded(b, i)  PROVE Unpadded(c, i)'
  <2>1. PICK d \in DataLengths : Packet(b, i, d) /\ b[i] - b[i - 1] = d + 8
    BY <1>10 DEF Unpadded
  <2>2. i \in 0..received /\ i - 1 \in 0..received
    OBVIOUS
  <2>3. c[i] = b[i] /\ c[i - 1] = b[i - 1] /\ Packet(c, i, d)'
    BY <1>2, <1>7, <2>1, <2>2
  <2> QED BY <2>1, <2>3 DEF Unpadded
<1> QED BY <1>3, <1>9, <1>10

\* The events of the chunks it fills, and how far the hardware is behind them.
EndsFilled(w, length, full, pos) ==
  /\ w \in 0..Size /\ length \in Nat \ {0} /\ w + length \in 1..Size /\ full \in Nat
  /\ \A i \in 1..full : /\ pos[i] \in 1..Size /\ w < pos[i] /\ pos[i] <= w + length
                        /\ Mark(pos[i]) = EndOf(ring[i].chunk)
  /\ \A i, j \in 1..full : i < j => pos[i] < pos[j]

Appended(b, w, length, c) ==
  /\ b[received] = w
  /\ \A i \in 0..received : c[i] = b[i]
  /\ c[received + 1] = w + length

LastTold(e, raised, pos, q) ==
  IF Len(raised) = 0 THEN e[Len(devq)] ELSE pos[q[Len(raised)]]

LEMMA ReceivedEvents ==
  ASSUME prev_offset \in 0..(Size - 1), UNCHANGED prev_offset, received \in Nat, st.running,
         received' = received + 1, NEW b, NEW e, Events(b, e), devq \in Seq(1..Size),
         UNCHANGED <<accum_length, ctx_payloads>>, history \subseteq history',
         Len(ctx_payloads) \in Nat, Len(ctx_payloads) <= received,
         NEW w, NEW length, NEW full, NEW pos, EndsFilled(w, length, full, pos),
         NEW c, Appended(b, w, length, c),
         NEW chunks \in Seq(Held), \A i \in 1..full : chunks[i] = ring[i],
         NEW raised \in Seq(1..Size), NEW q, Told(chunks, full, raised, q),
         devq' = devq \o raised,
         untold' = (IF LastTold(e, raised, pos, q) = w + length THEN 0
                    ELSE Mark(w + length))
  PROVE  \E g : Events(c, g)'
<1> DEFINE E == Len(devq)
           n == Len(raised)
           g == [i \in 0..(E + n) |-> IF i <= E THEN e[i] ELSE pos[q[i - E]]]
           last == LastTold(e, raised, pos, q)
<1> USE DEF EndsFilled, Appended
<1>0. /\ w \in 0..Size /\ length \in Nat \ {0} /\ w + length \in 1..Size /\ full \in Nat
      /\ last = IF n = 0 THEN e[E] ELSE pos[q[n]]
  BY DEF LastTold
<1>1. /\ E \in Nat /\ n \in Nat /\ e \in [0..E -> 0..Size]
      /\ \A i \in 1..E : devq[i] = Mark(e[i])
      /\ \A i, j \in 0..E : i < j => e[i] < e[j]
      /\ accum_length <= e[0] /\ e[E] <= w
      /\ "round" \notin history /\ Len(ctx_payloads) < received =>
           e[0] < b[Len(ctx_payloads) + 1]
  BY DEF Events
<1>2. /\ q \in [1..n -> 1..full]
      /\ \A k \in 1..n : raised[k] = EndOf(ring[q[k]].chunk)
      /\ \A j, k \in 1..n : j < k => q[j] < q[k]
  <2>1. /\ q \in [1..n -> 1..full]
        /\ \A k \in 1..n : raised[k] = EndOf(chunks[q[k]].chunk)
        /\ \A j, k \in 1..n : j < k => q[j] < q[k]
    BY DEF Told
  <2> QED BY <2>1
<1>3. /\ Len(devq') = E + n /\ \A i \in 1..E : devq'[i] = devq[i]
      /\ \A i \in (E + 1)..(E + n) : devq'[i] = raised[i - E]
  BY Concatenation
<1>4. Size \in Nat
  BY Constants
<1>5. \A r : Mark(r)' = Mark(r)
  BY DEF Mark, At
<1> HIDE DEF E, n, last
<1>6. /\ \A i \in 0..E : g[i] = e[i] /\ i \in 0..(E + n)
      /\ \A k \in 1..n : g[E + k] = pos[q[k]] /\ E + k \in 0..(E + n)
  <2>1. ASSUME NEW k \in 1..n  PROVE g[E + k] = pos[q[k]] /\ E + k \in 0..(E + n)
    <3>1. E + k \in 0..(E + n) /\ ~(E + k <= E) /\ (E + k) - E = k
      BY <1>1
    <3> QED BY <3>1
  <2>2. ASSUME NEW i \in 0..E  PROVE g[i] = e[i] /\ i \in 0..(E + n)
    <3>1. i \in 0..(E + n) /\ i <= E
      BY <1>1
    <3> QED BY <3>1
  <2> QED BY <2>1, <2>2
<1>7. ASSUME NEW i \in 0..(E + n)
      PROVE  i \in 0..E \/ \E k \in 1..n : i = E + k
  <2>1. CASE i <= E
    BY <1>1, <2>1
  <2>2. CASE i > E
    <3>1. i - E \in 1..n /\ i = E + (i - E)
      BY <1>1, <2>2
    <3> QED BY <3>1
  <2> QED BY <1>1, <2>1, <2>2
<1>8. ASSUME NEW k \in 1..n
      PROVE  /\ q[k] \in 1..full /\ pos[q[k]] \in 1..Size /\ w < pos[q[k]]
             /\ pos[q[k]] <= w + length /\ Mark(pos[q[k]]) = raised[k]
  <2>1. q[k] \in 1..full /\ raised[k] = EndOf(ring[q[k]].chunk)
    BY <1>2
  <2> QED BY <2>1
<1>9. ASSUME NEW i \in 0..E  PROVE e[i] <= w /\ e[i] \in 0..Size /\ e[i] \in Nat
  <2>1. E \in 0..E /\ (i < E \/ i = E)
    BY <1>1
  <2>2. e[i] < e[E] \/ e[i] = e[E]
    BY <1>1, <2>1
  <2>3. e[i] \in 0..Size /\ e[E] \in 0..Size /\ e[E] <= w
    BY <1>1, <2>1
  <2> DEFINE u == e[i]
             v == e[E]
  <2>4. (u < v \/ u = v) /\ u \in 0..Size /\ v \in 0..Size /\ v <= w
    BY <2>2, <2>3
  <2> HIDE DEF u, v
  <2>5. u <= w /\ u \in Nat
    BY <1>4, <2>4
  <2> QED BY <2>4, <2>5 DEF u
<1>10. g \in [0..(E + n) -> 0..Size]
  <2>1. ASSUME NEW i \in 0..(E + n)  PROVE g[i] \in 0..Size
    <3>1. CASE i \in 0..E
      BY <1>6, <1>9, <3>1
    <3>2. CASE \E k \in 1..n : i = E + k
      <4>1. PICK k \in 1..n : i = E + k
        BY <3>2
      <4>2. pos[q[k]] \in 0..Size
        BY <1>4, <1>8
      <4> QED BY <1>6, <4>1, <4>2
    <3> QED BY <1>7, <3>1, <3>2
  <2>2. g = [i \in 0..(E + n) |-> g[i]]
    OBVIOUS
  <2> HIDE DEF g
  <2> QED BY <2>1, <2>2
<1>11. ASSUME NEW i \in 1..(E + n)  PROVE devq'[i] = Mark(g[i])
  <2>1. i \in 0..(E + n)
    OBVIOUS
  <2>2. CASE i \in 0..E
    <3>1. i \in 1..E
      BY <1>1, <2>2
    <3>2. devq'[i] = devq[i]
      BY <1>3, <3>1
    <3>3. devq[i] = Mark(e[i])
      BY <1>1, <3>1
    <3>4. g[i] = e[i]
      BY <1>6, <2>2
    <3> QED BY <3>2, <3>3, <3>4
  <2>3. CASE \E k \in 1..n : i = E + k
    <3>1. PICK k \in 1..n : i = E + k
      BY <2>3
    <3>2. i \in (E + 1)..(E + n) /\ i - E = k
      BY <1>1, <3>1
    <3>3. devq'[i] = raised[k]
      BY <1>3, <3>2
    <3>4. g[i] = pos[q[k]]
      BY <1>6, <3>1
    <3>5. Mark(pos[q[k]]) = raised[k]
      BY <1>8
    <3> QED BY <3>3, <3>4, <3>5
  <2> QED BY <1>7, <2>1, <2>2, <2>3
<1>12. ASSUME NEW i \in 0..(E + n), NEW j \in 0..(E + n), i < j  PROVE g[i] < g[j]
  <2>1. CASE i \in 0..E /\ j \in 0..E
    BY <1>1, <1>6, <1>12, <2>1
  <2>2. CASE i \in 0..E /\ \E k \in 1..n : j = E + k
    <3>1. PICK k \in 1..n : j = E + k
      BY <2>2
    <3>2. g[i] = e[i] /\ g[j] = pos[q[k]]
      BY <1>6, <2>2, <3>1
    <3>3. e[i] <= w /\ e[i] \in Nat /\ w < pos[q[k]] /\ pos[q[k]] \in 1..Size
      BY <1>8, <1>9, <2>2
    <3> DEFINE u == e[i]
               v == pos[q[k]]
    <3>4. u <= w /\ u \in Nat /\ w < v /\ v \in 1..Size
      BY <3>3
    <3> HIDE DEF u, v
    <3>5. u < v
      BY <1>4, <3>4
    <3> QED BY <3>2, <3>5 DEF u, v
  <2>3. CASE (\E k \in 1..n : i = E + k) /\ \E l \in 1..n : j = E + l
    <3>1. PICK k \in 1..n : i = E + k
      BY <2>3
    <3>2. PICK l \in 1..n : j = E + l
      BY <2>3
    <3>3. k < l
      BY <1>1, <1>12, <3>1, <3>2
    <3>4. q[k] < q[l] /\ q[k] \in 1..full /\ q[l] \in 1..full
      BY <1>2, <3>3
    <3>5. pos[q[k]] < pos[q[l]]
      BY <3>4
    <3>6. g[i] = pos[q[k]] /\ g[j] = pos[q[l]]
      BY <1>6, <3>1, <3>2
    <3> QED BY <3>5, <3>6
  <2>4. CASE (\E k \in 1..n : i = E + k) /\ j \in 0..E
    <3>1. PICK k \in 1..n : i = E + k
      BY <2>4
    <3>2. E \in Nat /\ n \in Nat
      BY <1>1
    <3>3. ~(i < j)
      BY <2>4, <3>1, <3>2
    <3> QED BY <1>12, <3>3
  <2> QED BY <1>7, <2>1, <2>2, <2>3, <2>4
<1>13. 0 \in 0..E /\ E \in 0..E /\ g[0] = e[0]
  <2>1. 0 \in 0..E /\ E \in 0..E
    BY <1>1
  <2> QED BY <1>6, <2>1
<1>14. g[E + n] = last
  <2>1. CASE n = 0
    BY <1>0, <1>1, <1>6, <1>13, <2>1
  <2>2. CASE n > 0
    <3>1. n \in 1..n
      BY <1>1, <2>2
    <3>2. n # 0
      BY <1>1, <2>2
    <3> QED BY <1>0, <1>6, <3>1, <3>2
  <2> QED BY <1>1, <2>1, <2>2
<1>15. g[E + n] <= w + length
  <2>1. CASE n = 0
    <3>1. g[E + n] = e[E]
      <4>1. E + n = E
        BY <1>1, <2>1
      <4> QED BY <1>6, <1>13, <4>1
    <3>2. e[E] <= w /\ e[E] \in Nat
      BY <1>9, <1>13
    <3>3. w \in Nat /\ length \in Nat
      BY <1>4
    <3> DEFINE u == e[E]
    <3>4. u <= w /\ u \in Nat
      BY <3>2
    <3> HIDE DEF u
    <3>5. u <= w + length
      BY <3>3, <3>4
    <3> QED BY <3>1, <3>5 DEF u
  <2>2. CASE n > 0
    <3>1. n \in 1..n
      BY <1>1, <2>2
    <3> QED BY <1>6, <1>8, <3>1
  <2> QED BY <1>1, <2>1, <2>2
<1>16. received + 1 \in 0..(received + 1) /\ c[received + 1] = w + length
  OBVIOUS
<1>17. "round" \notin history /\ Len(ctx_payloads) < received + 1 =>
         e[0] < c[Len(ctx_payloads) + 1]
  <2> SUFFICES ASSUME "round" \notin history  PROVE e[0] < c[Len(ctx_payloads) + 1]
    OBVIOUS
  <2>1. CASE Len(ctx_payloads) < received
    <3>1. Len(ctx_payloads) + 1 \in 0..(received + 1) /\ Len(ctx_payloads) + 1 <= received
      BY <2>1
    <3>2. c[Len(ctx_payloads) + 1] = b[Len(ctx_payloads) + 1]
      BY <3>1
    <3> QED BY <1>1, <2>1, <3>2
  <2>2. CASE Len(ctx_payloads) = received
    <3>1. c[Len(ctx_payloads) + 1] = w + length
      BY <1>16, <2>2
    <3>2. e[0] <= w /\ e[0] \in Nat
      BY <1>9, <1>13
    <3>3. e[0] < w + length
      <4> DEFINE u == e[0]
      <4>1. u <= w /\ u \in Nat
        BY <3>2
      <4> HIDE DEF u
      <4>2. u < w + length
        BY <1>0, <1>4, <4>1
      <4> QED BY <4>2 DEF u
    <3> QED BY <3>1, <3>3
  <2> QED BY <2>1, <2>2
<1> HIDE DEF g
<1>17a. PICK m \in Nat : m = E + n
  BY <1>1
<1>17b. PICK h : h = g
  OBVIOUS
<1>18. h = g /\ m = E + n
  BY <1>17a, <1>17b
<1>19. Events(c, h)'
  <2>1. /\ Len(devq') = m /\ ctx_payloads' = ctx_payloads /\ received' = received + 1
        /\ accum_length' = accum_length /\ history \subseteq history'
    BY <1>3, <1>18
  <2>2. h \in [0..m -> 0..Size]
    BY <1>10, <1>18
  <2>3. \A i \in 1..m : devq'[i] = Mark(h[i])'
    <3>1. ASSUME NEW i \in 1..m  PROVE devq'[i] = Mark(h[i])
      BY <1>11, <1>18
    <3>2. \A i \in 1..m : Mark(h[i])' = Mark(h[i])
      BY <1>5
    <3> QED BY <3>1, <3>2
  <2>4. \A i, j \in 0..m : i < j => h[i] < h[j]
    BY <1>12, <1>18
  <2>5. untold' = IF h[m] = c[received'] THEN 0 ELSE Mark(c[received])'
    <3>1. h[m] = last /\ c[received'] = w + length
      BY <1>14, <1>16, <1>18, <2>1
    <3>3. untold' = IF last = w + length THEN 0 ELSE Mark(w + length)
      BY DEF last
    <3>2. Mark(c[received])' = Mark(w + length)
      BY <1>5, <3>1
    <3> QED BY <3>1, <3>2, <3>3
  <2>6. accum_length' <= h[0] /\ h[m] <= c[received']
    <3>1. accum_length <= h[0]
      BY <1>1, <1>13, <1>18
    <3>2. h[m] <= w + length
      BY <1>15, <1>18
    <3> QED BY <1>16, <2>1, <3>1, <3>2
  <2>7. "round" \notin history' /\ Len(ctx_payloads') < received' =>
          h[0] < c[Len(ctx_payloads') + 1]
    BY <1>13, <1>17, <1>18, <2>1
  <2> QED BY <2>1, <2>2, <2>3, <2>4, <2>5, <2>6, <2>7 DEF Events
<1> QED BY <1>19

\* What a packet does: it fills the first chunks, all that the hardware held, and
\* leaves bytes in the next one.
Fills(data, length, l, full, left, raised, chunks) ==
  /\ length \in Lengths /\ length = Space(data) /\ l \in Nat /\ l = Len(ring)
  /\ full = (fill + length) \div BytesPerChunk /\ left = (fill + length) % BytesPerChunk
  /\ fill + length <= l * BytesPerChunk
  /\ full \in 0..l /\ left \in 0..(BytesPerChunk - 1)
  /\ fill + length = full * BytesPerChunk + left
  /\ left > 0 => full < l
  /\ left = 0 => full > 0
  /\ chunks \in Seq(Held) /\ Len(chunks) = full
  /\ \A i \in 1..full : chunks[i] = ring[i]
  /\ raised = Raised(chunks) /\ Len(devq) + Len(raised) <= MaxEvents
  /\ ring' \in Seq(Held) /\ Len(ring') = l - full
  /\ \A i \in 1..(l - full) : ring'[i] = ring[full + i]
  /\ fill' = left /\ devq' = devq \o raised

Untold(full, left) ==
  untold' = (CASE left > 0 -> ring'[1].chunk * BytesPerChunk + left
               [] left = 0 /\ ring[full].irq -> 0
               [] left = 0 /\ ~ring[full].irq -> EndOf(ring[full].chunk))

LEMMA HwReceiveEffect ==
  ASSUME HwType, NEW data \in DataLengths, HwReceive(data)
  PROVE  /\ \E length, l, full, left, raised, chunks :
              Fills(data, length, l, full, left, raised, chunks) /\ Untold(full, left)
         /\ buffer' = [x \in 0..(Size - 1) |->
                         IF \A k \in 1..Space(data) : Place(k) # x THEN buffer[x]
                         ELSE LET k == CHOOSE k \in 1..Space(data) : Place(k) = x
                              IN <<received + 1, k, IF k = 1 THEN data ELSE 0>>]
         /\ st.running /\ received' = received + 1
         /\ history' = history \cup (IF Space(data) < 16 THEN {"short"} ELSE {})
         /\ UNCHANGED <<st, object, handler, attached>>
<1>1. PICK length, l, full, left :
        /\ length = Space(data) /\ l = Len(ring)
        /\ full = (fill + length) \div BytesPerChunk /\ left = (fill + length) % BytesPerChunk
  OBVIOUS
<1>2. PICK chunks, raised : chunks = SubSeq(ring, 1, full) /\ raised = Raised(chunks)
  OBVIOUS
<1>3. /\ fill + length <= l * BytesPerChunk /\ Len(devq) + Len(raised) <= MaxEvents
      /\ ring' = SubSeq(ring, full + 1, Len(ring)) /\ fill' = left /\ devq' = devq \o raised
      /\ Untold(full, left)
  BY <1>1, <1>2 DEF HwReceive, Untold
<1>4. /\ length \in Lengths /\ length \in Nat \ {0} /\ l \in Nat /\ ring \in Seq(Held)
      /\ fill \in 0..(BytesPerChunk - 1)
  <2>1. length \in Lengths
    BY <1>1 DEF Lengths
  <2>2. length \in Nat /\ 8 <= length
    BY <2>1, Constants
  <2> QED BY <1>1, <2>1, <2>2 DEF HwType
<1>5. /\ full \in 0..l /\ left \in 0..(BytesPerChunk - 1)
      /\ fill + length = full * BytesPerChunk + left
      /\ left > 0 => full < l
      /\ left = 0 => full > 0
  BY <1>1, <1>3, <1>4, ArrivalCut
<1>6. /\ chunks \in Seq(Held) /\ Len(chunks) = full
      /\ \A i \in 1..full : chunks[i] = ring[i]
      /\ ring' \in Seq(Held) /\ Len(ring') = l - full
      /\ \A i \in 1..(l - full) : ring'[i] = ring[full + i]
  BY <1>1, <1>2, <1>3, <1>4, <1>5, RingCut
<1>7. Fills(data, length, l, full, left, raised, chunks)
  BY <1>1, <1>2, <1>3, <1>4, <1>5, <1>6 DEF Fills
<1> QED BY <1>3, <1>7 DEF HwReceive

LEMMA HwReceiveTypes ==
  ASSUME IInv, NEW data \in DataLengths, HwReceive(data)
  PROVE  HwType' /\ OtherTypes' /\ BufferType' /\ Phases' /\ Marked'
<1> DEFINE Q == BytesPerChunk
<1>1. /\ st \in StateType /\ HwType /\ OtherTypes /\ BufferType /\ Phases /\ Marked
      /\ st.running /\ received' = received + 1
      /\ history' = history \cup (IF Space(data) < 16 THEN {"short"} ELSE {})
      /\ UNCHANGED <<st, object, handler, attached>>
  BY HwReceiveEffect DEF IInv
<1>2. PICK length, l, full, left, raised, chunks :
        Fills(data, length, l, full, left, raised, chunks) /\ Untold(full, left)
  BY <1>1, HwReceiveEffect
<1>3. /\ Q \in Nat \ {0} /\ Size \in Nat \ {0} /\ received \in Nat
      /\ length \in Nat /\ length <= Q + 8 /\ full \in Nat /\ l \in Nat /\ full \in 0..l
  <2>1. length \in Lengths /\ full \in 0..l /\ l \in Nat
    BY <1>2 DEF Fills
  <2> QED BY <1>1, <2>1, Constants DEF OtherTypes
<1>4. raised \in Seq(1..Size)
  <2>1. chunks \in Seq(Held) /\ raised = Raised(chunks)
    BY <1>2 DEF Fills
  <2> QED BY <2>1, RaisedFacts
<1>5. HwType'
  <2>1. ring' \in Seq(Held) /\ fill' \in 0..(BytesPerChunk - 1)
    BY <1>2 DEF Fills
  <2>2. devq \in Seq(1..Size) /\ devq' = devq \o raised /\ Len(devq) + Len(raised) <= MaxEvents
    BY <1>1, <1>2 DEF HwType, Fills
  <2>3. devq' \in Seq(1..Size) /\ Len(devq') = Len(devq) + Len(raised)
    BY <1>4, <2>2, Concatenation
  <2>4. untold' \in 0..Size
    <3>1. CASE left > 0
      <4>1. 1 \in 1..Len(ring') /\ left \in 0..(Q - 1)
        <5>1. full < l /\ Len(ring') = l - full /\ left \in 0..(Q - 1)
          BY <1>2, <3>1 DEF Fills
        <5> QED BY <1>3, <5>1
      <4>2. PICK c \in Chunks : c = ring'[1].chunk
        <5>1. ring'[1] \in Held
          BY <2>1, <4>1
        <5> QED BY <5>1 DEF Held
      <4>3. EndOf(c) \in 1..Size /\ EndOf(c) = c * Q + Q /\ c * Q \in Nat
        <5>1. EndOf(c) \in 1..Size /\ c \in Nat
          BY <4>2, EndOfChunk, Constants
        <5>2. (c + 1) * Q = c * Q + Q /\ c * Q \in Nat
          BY <1>3, <5>1
        <5> QED BY <5>1, <5>2 DEF EndOf
      <4>4. untold' = c * Q + left
        BY <1>2, <3>1, <4>1, <4>2 DEF Untold
      <4> QED BY <1>3, <4>1, <4>3, <4>4
    <3>2. CASE left = 0
      <4>1. full \in 1..Len(ring) /\ ring \in Seq(Held)
        <5>1. full > 0 /\ l = Len(ring) /\ ring \in Seq(Held)
          BY <1>1, <1>2, <3>2 DEF Fills, HwType
        <5> QED BY <1>3, <5>1
      <4>2. PICK c \in Chunks : c = ring[full].chunk
        <5>1. ring[full] \in Held
          BY <4>1
        <5> QED BY <5>1 DEF Held
      <4>3. EndOf(c) \in 1..Size
        BY <4>2, EndOfChunk, Constants
      <4>4. untold' = 0 \/ untold' = EndOf(c)
        <5>1. ~(left > 0)
          BY <3>2
        <5> QED BY <1>2, <3>2, <4>2, <5>1, Zenon DEF Untold
      <4> QED BY <1>3, <4>3, <4>4
    <3>3. left \in Nat
      BY <1>2, <1>3 DEF Fills
    <3> QED BY <3>1, <3>2, <3>3
  <2> QED BY <2>1, <2>2, <2>3, <2>4 DEF HwType
<1>6. OtherTypes'
  <2>1. received' \in Nat
    BY <1>1, <1>3
  <2> QED BY <1>1, <2>1 DEF OtherTypes, object, handler
<1>7. BufferType'
  <2>0. length = Space(data)
    BY <1>2 DEF Fills
  <2>1. ASSUME NEW k \in 1..length
        PROVE  <<received + 1, k, IF k = 1 THEN data ELSE 0>> \in Cells
    <3>1. received + 1 \in Nat /\ k \in 0..(BytesPerChunk + 8)
      BY <1>3
    <3> QED BY <3>1 DEF Cells
  <2>2. buffer' = [x \in 0..(Size - 1) |->
                     IF \A k \in 1..length : Place(k) # x THEN buffer[x]
                     ELSE LET k == CHOOSE k \in 1..length : Place(k) = x
                          IN <<received + 1, k, IF k = 1 THEN data ELSE 0>>]
    BY <1>1, <2>0, HwReceiveEffect
  <2>3. ASSUME NEW y \in 0..(Size - 1)  PROVE buffer'[y] \in Cells
    <3>1. CASE \A k \in 1..length : Place(k) # y
      <4>1. buffer'[y] = buffer[y]
        BY <2>2, <3>1
      <4> QED BY <1>1, <4>1 DEF BufferType
    <3>2. CASE ~\A k \in 1..length : Place(k) # y
      <4> DEFINE k == CHOOSE k \in 1..length : Place(k) = y
      <4>1. buffer'[y] = <<received + 1, k, IF k = 1 THEN data ELSE 0>>
        BY <2>2, <3>2
      <4>2. k \in 1..length
        BY <3>2
      <4> HIDE DEF k
      <4> QED BY <2>1, <4>1, <4>2
    <3> QED BY <3>1, <3>2
  <2>4. buffer' = [y \in 0..(Size - 1) |-> buffer'[y]]
    BY <2>2
  <2> QED BY <2>3, <2>4 DEF BufferType
<1>8. Phases'
  <2>1. UNCHANGED <<st, handling, prev_offset, attached>>
    BY <1>1 DEF object, handler
  <2>2. /\ "started" \in history /\ history \subseteq history'
        /\ "failed" \in history' <=> "failed" \in history
        /\ "mapped" \in history' <=> "mapped" \in history
    BY <1>1 DEF Phases, BeforeStart
  <2> QED BY <1>1, <2>1, <2>2 DEF Phases, BeforeStart
<1>9. Marked'
  <2>1. /\ accumulated_chunk_count' = accumulated_chunk_count
        /\ chunks_per_irq' = chunks_per_irq /\ Len(ring') = l - full /\ l = Len(ring)
        /\ \A i \in 1..(l - full) : ring'[i] = ring[full + i]
    BY <1>1, <1>2 DEF object, Fills
  <2> SUFFICES ASSUME chunks_per_irq > 0, NEW i \in 1..(l - full)
               PROVE  ring'[i].irq <=>
                        (accumulated_chunk_count - (l - full) + i) % chunks_per_irq = 0
    BY <2>1 DEF Marked
  <2>2. PICK a \in Nat : a = accumulated_chunk_count
    BY <1>1, Constants DEF OtherTypes
  <2>3. a - (l - full) + i = a - l + (full + i) /\ full + i \in 1..l
    BY <1>3
  <2>4. ring[full + i].irq <=> (a - l + (full + i)) % chunks_per_irq = 0
    BY <1>1, <2>1, <2>2, <2>3 DEF Marked
  <2>5. ring'[i] = ring[full + i]
    BY <2>1
  <2> QED BY <2>2, <2>3, <2>4, <2>5
<1> QED BY <1>5, <1>6, <1>7, <1>8, <1>9

LEMMA HwReceiveStream ==
  ASSUME IInv, NEW data \in DataLengths, HwReceive(data), "astray" \notin history
  PROVE  Stream'
<1> DEFINE Q == BytesPerChunk
           C == ChunksPerBuffer
<1>1. /\ st \in StateType /\ HwType /\ OtherTypes /\ HandlerType /\ BufferType
      /\ Phases /\ Stream /\ Marked
      /\ st.running /\ received' = received + 1
      /\ history' = history \cup (IF Space(data) < 16 THEN {"short"} ELSE {})
      /\ UNCHANGED <<st, object, handler, attached>>
  BY HwReceiveEffect DEF IInv
<1>2. PICK length, l, full, left, raised, chunks :
        Fills(data, length, l, full, left, raised, chunks) /\ Untold(full, left)
  BY <1>1, HwReceiveEffect
<1>2a. untold' = (CASE left > 0 -> ring'[1].chunk * Q + left
                    [] left = 0 /\ ring[full].irq -> 0
                    [] left = 0 /\ ~ring[full].irq -> EndOf(ring[full].chunk))
  BY <1>2 DEF Untold
<1>2b. /\ length \in Lengths /\ length = Space(data) /\ l \in Nat /\ l = Len(ring)
       /\ fill + length <= Len(ring) * Q /\ fill' = left /\ devq' = devq \o raised
       /\ full = (fill + length) \div BytesPerChunk /\ left = (fill + length) % BytesPerChunk
       /\ full \in 0..l
  BY <1>2 DEF Fills
<1>3. /\ st.addr = "mapped" /\ st.data = <<>> /\ Len(<<>>) = 0 /\ "started" \in history
  BY <1>1 DEF StateType, Phases, BeforeStart
<1>4. /\ Q \in Nat \ {0} /\ C \in Nat \ {0} /\ Size \in Nat \ {0} /\ MaxEvents \in Nat
      /\ prev_offset \in 0..(Size - 1) /\ received \in Nat
      /\ length \in Nat \ {0}
      /\ Len(ctx_payloads) \in Nat /\ Len(ctx_payloads) <= received
  <2>1. length \in Nat /\ 8 <= length
    BY <1>2b, Constants
  <2> QED BY <1>1, <2>1, Constants, FwIsoIrMultipleAssumption DEF OtherTypes, HandlerType
<1>5. /\ ring \in Seq(Held) /\ Len(ring) \in Nat /\ devq \in Seq(1..Size)
      /\ fill \in 0..(Q - 1)
  BY <1>1 DEF HwType
<1>6. PICK b : /\ Bounds(b) /\ Written(b) /\ Showing(b) /\ Holding(b)
               /\ \E e : Events(b, e)
  BY <1>1, <1>3 DEF Stream
<1>7. PICK e : Events(b, e)
  BY <1>6
<1>8. PICK w \in 0..Size : w = b[received]
  <2>1. received \in 0..received
    BY <1>4
  <2> QED BY <1>4, <1>6, <2>1, BoundsFacts
<1>9. PICK x \in Nat : x = ChunkAt(w)
  BY <1>4, AtFacts
<1>10. /\ fill = (prev_offset + w) % Q /\ l + ChunkAt(w) = ChunkAt(0) + C
       /\ \A i \in 1..l : ring[i].chunk = (x + i - 1) % C
       /\ st.curr_offset = ChunkAt(0)
  BY <1>1, <1>2b, <1>6, <1>8, <1>9 DEF Holding
<1>11. /\ prev_offset + w = x * Q + fill /\ l \in Nat
       /\ full \in 0..l /\ left \in 0..(Q - 1) /\ fill + length = full * Q + left
       /\ left > 0 => full < l
       /\ left = 0 => full > 0
       /\ w + length \in 1..Size
       /\ ChunkAt(w + length) = x + full
       /\ (prev_offset + (w + length)) % Q = left
  <2>1. /\ fill = (prev_offset + w) % BytesPerChunk
        /\ l + ChunkAt(w) = ChunkAt(0) + ChunksPerBuffer
        /\ fill + length <= l * BytesPerChunk
    BY <1>2b, <1>10
  <2> HIDE DEF Q, C
  <2>2. LET d == (fill + length) \div BytesPerChunk
            m == (fill + length) % BytesPerChunk
        IN  /\ prev_offset + w = ChunkAt(w) * BytesPerChunk + fill
            /\ d \in 0..l /\ m \in 0..(BytesPerChunk - 1)
            /\ fill + length = d * BytesPerChunk + m
            /\ m > 0 => d < l
            /\ m = 0 => d > 0
            /\ w + length \in 1..Size
            /\ ChunkAt(w + length) = ChunkAt(w) + d
            /\ (prev_offset + (w + length)) % BytesPerChunk = m
    <3>1. length \in Nat \ {0} /\ l \in Nat /\ prev_offset \in 0..(Size - 1)
      BY <1>2b, <1>4
    <3> QED BY <2>1, <3>1, ArrivalRoom
  <2>3. /\ full = (fill + length) \div BytesPerChunk
        /\ left = (fill + length) % BytesPerChunk /\ x = ChunkAt(w)
    BY <1>2b, <1>9
  <2> QED BY <1>2b, <2>2, <2>3, Zenon DEF Q
<1>12. full \in Nat
  BY <1>11
<1>13. PICK pos : pos = [i \in 1..full |-> w - fill + i * Q]
  OBVIOUS
<1>14. /\ \A i \in 1..full :
            /\ pos[i] \in 1..Size /\ w < pos[i] /\ pos[i] <= w + length
            /\ left > 0 => pos[i] < w + length
            /\ Mark(pos[i]) = EndOf((x + i - 1) % C)
       /\ \A i, j \in 1..full : i < j => pos[i] < pos[j]
       /\ left = 0 => pos[full] = w + length
       /\ left > 0 => Mark(w + length) = ((x + full) % C) * Q + left
  <2> HIDE DEF Q, C
  <2>5. Arrives(w, length, x, fill, full, left, pos)
    <3>1. /\ fill \in 0..(BytesPerChunk - 1) /\ left \in 0..(BytesPerChunk - 1)
          /\ prev_offset + w = x * BytesPerChunk + fill
          /\ fill + length = full * BytesPerChunk + left
          /\ w + length \in 1..Size
      BY <1>5, <1>11 DEF Q
    <3>2. \A i \in 1..full : pos[i] = w - fill + i * BytesPerChunk
      BY <1>13 DEF Q
    <3>3. length \in Nat \ {0}
      BY <1>4
    <3> QED BY <1>12, <3>1, <3>2, <3>3 DEF Arrives
  <2>2. /\ \A i \in 1..full :
              /\ pos[i] \in 1..Size /\ w < pos[i] /\ pos[i] <= w + length
              /\ left > 0 => pos[i] < w + length
              /\ Mark(pos[i]) = EndOf((x + i - 1) % ChunksPerBuffer)
        /\ \A i, j \in 1..full : i < j => pos[i] < pos[j]
        /\ left = 0 /\ full > 0 => pos[full] = w + length
        /\ left > 0 => Mark(w + length) =
                         ((x + full) % ChunksPerBuffer) * BytesPerChunk + left
    BY <1>4, <2>5, ArrivalEnds
  <2>3. left = 0 => full > 0
    BY <1>11
  <2> QED BY <2>2, <2>3, Zenon DEF Q, C
<1>15. \A i \in 1..full : i \in 1..l /\ ring[i].chunk = (x + i - 1) % C
                           /\ Mark(pos[i]) = EndOf(ring[i].chunk)
  <2>1. ASSUME NEW i \in 1..full  PROVE i \in 1..l
    BY <1>11
  <2> QED BY <1>10, <1>14, <2>1
<1>16. /\ chunks \in Seq(Held) /\ Len(chunks) = full /\ raised = Raised(chunks)
       /\ \A i \in 1..full : chunks[i] = ring[i]
       /\ Len(ring') = l - full
       /\ \A i \in 1..(l - full) : ring'[i] = ring[full + i]
  BY <1>2 DEF Fills
<1>17. raised \in Seq(1..Size) /\ \E q : Told(chunks, full, raised, q)
  BY <1>16, RaisedFacts
<1>18. PICK q : Told(chunks, full, raised, q)
  BY <1>17
<1>19. PICK n \in Nat : n = Len(raised)
  BY <1>17
<1>20. PICK last : /\ last = LastTold(e, raised, pos, q)
                   /\ last = IF n = 0 THEN e[Len(devq)] ELSE pos[q[n]]
  BY <1>19 DEF LastTold
<1>21. /\ n > 0 => q[n] \in 1..full
       /\ full > 0 => (ring[full].irq <=> n > 0 /\ q[n] = full)
  <2>1. n > 0 => q[n] \in 1..full
    <3> SUFFICES ASSUME n > 0  PROVE q[n] \in 1..full
      OBVIOUS
    <3>1. n \in 1..n
      OBVIOUS
    <3> QED BY <1>18, <1>19, <3>1 DEF Told
  <2>2. full > 0 => full \in 1..full
    BY <1>12
  <2> QED BY <1>16, <1>18, <1>19, <2>1, <2>2 DEF Told
<1>22. n = 0 => last # w + length
  <2> SUFFICES ASSUME n = 0  PROVE last # w + length
    OBVIOUS
  <2>1. last = e[Len(devq)] /\ e[Len(devq)] <= w
    BY <1>7, <1>8, <1>20 DEF Events
  <2>2. last \in 0..Size
    <3>1. Len(devq) \in 0..Len(devq)
      BY <1>5
    <3> QED BY <1>7, <2>1, <3>1 DEF Events
  <2>3. last <= w
    BY <2>1
  <2> QED BY <1>4, <2>2, <2>3
<1>23. untold' = (IF last = w + length THEN 0 ELSE Mark(w + length))
  <2>1. CASE left > 0
    <3>1. untold' = ring'[1].chunk * Q + left
      <4>1. left > 0 /\ ~(left = 0)
        BY <1>11, <2>1
      <4> QED BY <1>2a, <4>1, Zenon
    <3>2. ring'[1].chunk = (x + full) % C
      <4>1. 1 \in 1..(l - full) /\ full + 1 \in 1..l /\ x + (full + 1) - 1 = x + full
        BY <1>11, <2>1
      <4>2. ring'[1] = ring[full + 1]
        BY <1>16, <4>1
      <4>3. ring[full + 1].chunk = (x + (full + 1) - 1) % C
        BY <1>10, <4>1
      <4> QED BY <4>1, <4>2, <4>3
    <3>3. untold' = Mark(w + length)
      BY <1>14, <2>1, <3>1, <3>2
    <3>4. n > 0 => last # w + length
      <4> SUFFICES ASSUME n > 0  PROVE last # w + length
        OBVIOUS
      <4>1. q[n] \in 1..full /\ last = pos[q[n]]
        BY <1>20, <1>21
      <4>2. last < w + length /\ last \in 1..Size
        BY <1>14, <2>1, <4>1
      <4> QED BY <1>4, <4>2
    <3> QED BY <1>22, <3>3, <3>4
  <2>2. CASE left = 0
    <3>1. full > 0 /\ full \in 1..full /\ pos[full] = w + length
          /\ Mark(w + length) = EndOf(ring[full].chunk)
      <4>1. full > 0 /\ full \in 1..full
        BY <1>11, <1>12, <2>2
      <4>2. pos[full] = w + length
        BY <1>14, <2>2
      <4>3. Mark(pos[full]) = EndOf(ring[full].chunk)
        BY <1>15, <4>1
      <4> QED BY <4>1, <4>2, <4>3
    <3>2. CASE ring[full].irq
      <4>1. last = w + length
        BY <1>20, <1>21, <3>1, <3>2
      <4>2. untold' = 0
        <5>1. ~(left > 0)
          BY <2>2
        <5> QED BY <1>2a, <2>2, <3>2, <5>1, Zenon
      <4> QED BY <4>1, <4>2
    <3>3. CASE ~ring[full].irq
      <4>1. untold' = Mark(w + length)
        <5>1. ~(left > 0)
          BY <2>2
        <5>2. untold' = EndOf(ring[full].chunk)
          BY <1>2a, <2>2, <3>3, <5>1, Zenon
        <5> QED BY <3>1, <5>2
      <4>2. n > 0 => last # w + length
        <5> SUFFICES ASSUME n > 0  PROVE last # w + length
          OBVIOUS
        <5>1. q[n] \in 1..full /\ last = pos[q[n]] /\ q[n] # full
          BY <1>20, <1>21, <3>1, <3>3
        <5>2. q[n] < full
          BY <1>12, <5>1
        <5>3. pos[q[n]] < pos[full] /\ pos[q[n]] \in 1..Size
          BY <1>14, <3>1, <5>1, <5>2
        <5>4. last < w + length /\ last \in 1..Size
          BY <3>1, <5>1, <5>3
        <5> QED BY <1>4, <5>4
      <4> QED BY <1>22, <4>1, <4>2
    <3> QED BY <3>2, <3>3
  <2> QED BY <1>11, <2>1, <2>2
<1>24. PICK c : c = OneMore(b, length)
  OBVIOUS
<1>25. /\ Bounds(c)' /\ Written(c)'
       /\ \A i \in 1..received : Unpadded(b, i) => Unpadded(c, i)'
  <2>1. ASSUME NEW k \in 1..length  PROVE Place(k) = At(w + (k - 1))
    <3>1. fill + length <= Len(ring) * BytesPerChunk
      BY <1>2b
    <3>2. \A i \in 1..Len(ring) : ring[i].chunk = (x + i - 1) % ChunksPerBuffer
      BY <1>2b, <1>10
    <3>3. prev_offset + w = x * BytesPerChunk + fill /\ fill \in 0..(BytesPerChunk - 1)
      BY <1>5, <1>11
    <3> QED BY <1>4, <1>5, <3>1, <3>2, <3>3, ArrivalPlaces
  <2>2. UNCHANGED prev_offset
    BY <1>1 DEF object
  <2>3. Arrival(w, length, data)
    <3>1. buffer' = [y \in 0..(Size - 1) |->
                       IF \A k \in 1..length : Place(k) # y THEN buffer[y]
                       ELSE LET k == CHOOSE k \in 1..length : Place(k) = y
                            IN <<received + 1, k, IF k = 1 THEN data ELSE 0>>]
      BY <1>1, <1>2b, HwReceiveEffect
    <3> QED BY <1>11, <2>1, <3>1 DEF Arrival
  <2>4. history \subseteq history' /\ ("short" \notin history' => 16 <= length)
    BY <1>1, <1>2b, <1>4
  <2> QED BY <1>1, <1>2b, <1>4, <1>6, <1>8, <1>24, <2>2, <2>3, <2>4, ReceivedWritten
<1>26. /\ \A i \in 0..received : c[i] = b[i]
       /\ c[received + 1] = w + length
  BY <1>4, <1>8, <1>24 DEF OneMore
<1>27. Showing(c)'
  <2>1. \A r : At(r)' = At(r)
    BY <1>1 DEF At, object
  <2>2. /\ ctx_payloads' = ctx_payloads /\ accum_length' = accum_length
    BY <1>1 DEF handler
  <2>3. /\ Len(ctx_payloads) \in 0..received
        /\ \A i \in 1..Len(ctx_payloads) : i \in 0..received /\ i - 1 \in 0..received
    BY <1>4
  <2>4. accum_length = c[Len(ctx_payloads)]
    BY <1>6, <1>26, <2>3 DEF Showing
  <2>5. ASSUME NEW i \in 1..Len(ctx_payloads)
        PROVE  /\ ctx_payloads[i] = [offset |-> At(c[i - 1]), length |-> c[i] - c[i - 1]]
               /\ Unpadded(c, i)'
    <3>1. c[i] = b[i] /\ c[i - 1] = b[i - 1]
      BY <1>26, <2>3
    <3>2. /\ ctx_payloads[i] = [offset |-> At(b[i - 1]), length |-> b[i] - b[i - 1]]
          /\ Unpadded(b, i)
      BY <1>6 DEF Showing
    <3>3. i \in 1..received
      BY <1>4
    <3> QED BY <1>25, <3>1, <3>2, <3>3
  <2> QED BY <2>1, <2>2, <2>4, <2>5 DEF Showing
<1>28. Holding(c)'
  <2>1. \A r : ChunkAt(r)' = ChunkAt(r)
    BY <1>1 DEF ChunkAt, object
  <2>2. c[received'] = w + length /\ st' = st /\ prev_offset' = prev_offset
    BY <1>1, <1>26 DEF object
  <2>3. ChunkAt(c[received])' = x + full
    BY <1>11, <2>1, <2>2
  <2>4. PICK x0 \in Nat : x0 = ChunkAt(0) /\ l + x = x0 + C
    <3>1. 0 \in 0..Size
      BY <1>4
    <3> QED BY <1>4, <1>9, <1>10, <3>1, AtFacts
  <2>5. /\ Len(st'.data) = 0 /\ Len(ring') = l - full
        /\ 0 + (x + full) <= x0 + C
        /\ (l - full) + (x + full) = x0 + C
    BY <1>3, <1>4, <1>11, <1>16, <2>2, <2>4
  <2>6. fill' = (prev_offset' + c[received']) % Q
    BY <1>2b, <1>11, <2>2
  <2>7. ASSUME NEW i \in 1..(l - full)  PROVE ring'[i].chunk = ((x + full) + i - 1) % C
    <3>1. full + i \in 1..l /\ x + (full + i) - 1 = (x + full) + i - 1
      BY <1>11
    <3>2. ring'[i] = ring[full + i]
      BY <1>16
    <3> QED BY <1>10, <3>1, <3>2
  <2>8. st'.curr_offset = ChunkAt(0)'
    BY <1>10, <2>1, <2>2
  <2>9. ChunkAt(0)' = x0
    BY <2>1, <2>4
  <2> QED BY <2>3, <2>5, <2>6, <2>7, <2>8, <2>9 DEF Holding
<1>29. \E g : Events(c, g)'
  <2>1. UNCHANGED <<prev_offset, accum_length, ctx_payloads>> /\ history \subseteq history'
    BY <1>1 DEF object, handler
  <2>2. \A i \in 1..full : /\ pos[i] \in 1..Size /\ w < pos[i] /\ pos[i] <= w + length
                           /\ Mark(pos[i]) = EndOf(ring[i].chunk)
    BY <1>14, <1>15
  <2>3. untold' = IF LastTold(e, raised, pos, q) = w + length THEN 0 ELSE Mark(w + length)
    BY <1>20, <1>23
  <2>4. \A i, j \in 1..full : i < j => pos[i] < pos[j]
    BY <1>14
  <2> HIDE DEF Q, C
  <2>5. devq' = devq \o raised
    BY <1>2b
  <2>6. /\ st.running /\ received' = received + 1 /\ devq \in Seq(1..Size)
        /\ b[received] = w /\ w + length \in 1..Size /\ UNCHANGED prev_offset
        /\ UNCHANGED <<accum_length, ctx_payloads>> /\ history \subseteq history'
    BY <1>1, <1>5, <1>8, <1>11, <2>1
  <2>7. chunks \in Seq(Held) /\ \A i \in 1..full : chunks[i] = ring[i]
    BY <1>16
  <2>8. EndsFilled(w, length, full, pos)
    BY <1>4, <1>12, <2>2, <2>4, <2>6 DEF EndsFilled
  <2>9. Appended(b, w, length, c)
    BY <1>26, <2>6 DEF Appended
  <2> QED BY <1>4, <1>7, <1>17, <1>18,
             <2>3, <2>5, <2>6, <2>7, <2>8, <2>9, ReceivedEvents
<1> QED BY <1>25, <1>27, <1>28, <1>29 DEF Stream

LEMMA HwReceiveStep ==
  ASSUME IInv, NEW data \in DataLengths, HwReceive(data)
  PROVE  IInv'
<1>1. /\ st \in StateType /\ HwType /\ HandlerType /\ received \in Nat
  BY DEF IInv, OtherTypes
<1>2. /\ received' = received + 1 /\ history \subseteq history'
      /\ UNCHANGED <<st, object, handler, attached>>
  BY <1>1, HwReceiveEffect
<1>3. HwType' /\ OtherTypes' /\ BufferType' /\ Phases' /\ Marked'
  BY HwReceiveTypes
<1>4. HandlerType'
  <2>1. "astray" \notin history' => Len(ctx_payloads) <= received + 1
    <3> SUFFICES ASSUME "astray" \notin history'  PROVE Len(ctx_payloads) <= received + 1
      OBVIOUS
    <3>1. Len(ctx_payloads) <= received /\ Len(ctx_payloads) \in Nat
      BY <1>1, <1>2 DEF HandlerType
    <3> QED BY <1>1, <3>1
  <2> QED BY <1>1, <1>2, <2>1 DEF HandlerType, handler
<1>5. Stream'
  <2>1. CASE "astray" \in history
    BY <1>2, <2>1 DEF Stream
  <2>2. CASE "astray" \notin history
    BY <2>2, HwReceiveStream
  <2> QED BY <2>1, <2>2
<1> QED BY <1>1, <1>2, <1>3, <1>4, <1>5 DEF IInv

-----------------------------------------------------------------------------
(***************************************************************************)
(* The invariant.                                                          *)
(***************************************************************************)
LEMMA NextIInv == IInv /\ [Next]_vars => IInv'
<1> SUFFICES ASSUME IInv, [Next]_vars  PROVE IInv'
  OBVIOUS
<1>1. CASE Allocate
  BY <1>1, AllocateStep
<1>2. CASE MapBuffer
  BY <1>2, MapBufferStep
<1>3. CASE Stop \/ UnmapBuffer \/ Release
  BY <1>3, StopStep, UnmapSteps
<1>4. CASE \E interval \in Intervals : Start(interval)
  BY <1>4, StartStep
<1>5. CASE CreateSource \/ DestroySource \/ UNCHANGED vars
  BY <1>5, SourceStep
<1>6. CASE FlushCompletions
  BY <1>6, FlushCompletionsStep
<1>7. CASE \E data \in DataLengths : HwReceive(data)
  BY <1>7, HwReceiveStep
<1>8. CASE Dispatch
  BY <1>8, DispatchStep
<1>9. CASE HandlerReturns
  BY <1>9, HandlerReturnsStep
<1> QED BY <1>1, <1>2, <1>3, <1>4, <1>5, <1>6, <1>7, <1>8, <1>9 DEF Next, Step

LEMMA SpecIInv == Spec => []IInv
<1>1. Init => IInv
  BY InitIInv
<1>2. IInv /\ [Next]_vars => IInv'
  BY NextIInv
<1> QED BY <1>1, <1>2, PTL DEF Spec

-----------------------------------------------------------------------------
(***************************************************************************)
(* TypeOK of FwIsoIrMultiple in every reachable state.                     *)
(***************************************************************************)
THEOREM TypeCorrect == Spec => []TypeOK
<1>1. IInv => TypeOK
  <2> SUFFICES ASSUME IInv  PROVE TypeOK
    OBVIOUS
  <2>1. /\ st \in StateType /\ HwType /\ OtherTypes /\ BufferType /\ HandlerType
    BY DEF IInv
  <2>2. /\ st.mode = "IR_MULTIPLE" /\ st.data \in Seq(BOOLEAN \cup {Stale})
        /\ st.data_length = Len(st.data) /\ st.data_length <= ChunksPerBuffer
        /\ st.curr_offset \in Chunks
    BY <2>1, Constants DEF StateType, StateRecords
  <2>3. \A i \in DOMAIN ctx_payloads :
          /\ ctx_payloads[i].offset \in 0..(Size - 1)
          /\ ctx_payloads[i].length - 8 \in DataLengths \cup Words
    <3> DEFINE P == [offset : 0..(Size - 1), length : Read]
    <3> SUFFICES ASSUME NEW i \in DOMAIN ctx_payloads
                 PROVE  /\ ctx_payloads[i].offset \in 0..(Size - 1)
                        /\ ctx_payloads[i].length - 8 \in DataLengths \cup Words
      OBVIOUS
    <3>1. ctx_payloads[i] \in P
      <4>1. ctx_payloads \in Seq(P)
        BY <2>1 DEF HandlerType
      <4> HIDE DEF P
      <4> QED BY <4>1
    <3>2. PICK d \in DataLengths \cup Words : ctx_payloads[i].length = d + 8
      BY <3>1 DEF Read
    <3>3. d \in Nat
      BY FwIsoIrMultipleAssumption
    <3>4. (d + 8) - 8 = d
      BY <3>3
    <3> QED BY <3>1, <3>2, <3>4
  <2>4. /\ accum_length \in 0..Size /\ {handling, attached} \subseteq BOOLEAN
        /\ prev_offset \in 0..(Size - 1) /\ chunks_per_irq \in Intervals \cup {0}
        /\ accumulated_chunk_count \in 0..(MaxInt - 1) /\ received \in Nat
        /\ history \subseteq {"mapped", "started", "failed", "round", "short", "astray", "overrun"}
    BY <2>1 DEF OtherTypes, HandlerType
  <2>5. /\ ring \in Seq([chunk : Chunks, irq : BOOLEAN])
        /\ fill \in 0..(BytesPerChunk - 1) /\ untold \in 0..Size
        /\ devq \in Seq(1..Size) /\ Len(devq) <= MaxEvents
    BY <2>1 DEF HwType, Held
  <2>6. buffer \in [0..(Size - 1) -> Nat \X (0..(BytesPerChunk + 8)) \X ({0} \cup DataLengths)]
    <3> DEFINE T == Nat \X (0..(BytesPerChunk + 8)) \X ({0} \cup DataLengths)
    <3>1. \A x \in Cells : x \in T
      BY DEF Cells
    <3> HIDE DEF T
    <3>2. buffer \in [0..(Size - 1) -> T]
      BY <2>1, <3>1 DEF BufferType
    <3> QED BY <3>2 DEF T
  <2> QED BY <2>2, <2>3, <2>4, <2>5, <2>6, Zenon DEF TypeOK
<1> QED BY <1>1, SpecIInv, PTL

(***************************************************************************)
(* What get_payload of fw_iso_ir_multiple.c yields in the handler is, for  *)
(* each payload, the next packet the hardware received, whole, in order    *)
(* and once, also over the end of the buffer - as long as the walk of      *)
(* handle_event has not passed a packet with padding.                      *)
(***************************************************************************)
THEOREM PayloadsAreThePackets == Spec => []FirstRunPackets
<1>1. IInv => FirstRunPackets
  <2> SUFFICES ASSUME IInv, handling, st.addr = "mapped", "astray" \notin history,
                      NEW i \in DOMAIN ctx_payloads
               PROVE  GetPayload(ctx_payloads[i]) =
                        [k \in 1..ctx_payloads[i].length |->
                           <<i, k, IF k = 1 THEN ctx_payloads[i].length - 8 ELSE 0>>]
    BY DEF FirstRunPackets
  <2>1. /\ HandlerType /\ OtherTypes /\ Stream
    BY DEF IInv
  <2>2. PICK b : Bounds(b) /\ Written(b) /\ Showing(b)
    BY <2>1 DEF Stream
  <2>3. /\ prev_offset \in 0..(Size - 1) /\ received \in Nat /\ Size \in Nat \ {0}
        /\ i \in 1..received
    <3>1. i \in 1..Len(ctx_payloads) /\ Len(ctx_payloads) <= received
      BY <2>1 DEF HandlerType
    <3> QED BY <2>1, <3>1, Constants DEF OtherTypes, HandlerType
  <2>4. PICK u, v \in Nat :
          /\ u = b[i - 1] /\ v = b[i] /\ v <= Size /\ v - u \in Nat /\ v - u <= Size
          /\ u \in 0..Size
    <3>1. i - 1 \in 0..received /\ i \in 0..received /\ i - 1 <= i
      BY <2>3
    <3>2. /\ b[i - 1] \in 0..Size /\ b[i] \in 0..Size /\ b[i - 1] <= b[i]
      BY <2>2, <2>3, <3>1, BoundsFacts
    <3> DEFINE y == b[i - 1]
               z == b[i]
    <3>3. y \in 0..Size /\ z \in 0..Size /\ y <= z
      BY <3>2
    <3> HIDE DEF y, z
    <3>4. y \in Nat /\ z \in Nat /\ z <= Size /\ z - y \in Nat /\ z - y <= Size
      BY <2>3, <3>3
    <3> QED BY <3>3, <3>4 DEF y, z
  <2>5. PICK l \in Nat : l = v - u
    BY <2>4
  <2>6. ctx_payloads[i] = [offset |-> At(u), length |-> l]
    <3>1. i \in 1..Len(ctx_payloads)
      BY <2>1 DEF HandlerType
    <3> QED BY <2>2, <2>4, <2>5, <3>1 DEF Showing
  <2>7. PICK d \in DataLengths :
          /\ l - 8 = d
          /\ \A k \in 1..l : buffer[At(u + k - 1)] = <<i, k, IF k = 1 THEN d ELSE 0>>
    <3>1. i \in 1..Len(ctx_payloads)
      BY <2>1 DEF HandlerType
    <3>2. PICK d \in DataLengths : Packet(b, i, d) /\ b[i] - b[i - 1] = d + 8
      BY <2>2, <3>1 DEF Showing, Unpadded
    <3>3. d \in Nat /\ l = d + 8
      BY <2>4, <2>5, <3>2, Constants
    <3>4. l - 8 = d
      BY <3>3
    <3> QED BY <2>4, <2>5, <3>2, <3>4 DEF Packet
  <2> DEFINE o == At(u)
             size == IF o + l < Size THEN l ELSE Size - o
  <2>8. o \in 0..(Size - 1)
        /\ o = IF prev_offset + u < Size THEN prev_offset + u ELSE (prev_offset + u) - Size
    BY <2>3, <2>4, AtFacts
  <2>9. ASSUME NEW k \in 1..l
        PROVE  /\ k <= size => o + k - 1 = At(u + k - 1)
               /\ ~(k <= size) => k - size - 1 = At(u + k - 1)
    <3> HIDE DEF o
    <3>1. u + k - 1 \in 0..Size
      BY <2>3, <2>4, <2>5
    <3>2. At(u + k - 1) = IF prev_offset + (u + k - 1) < Size THEN prev_offset + (u + k - 1)
                          ELSE (prev_offset + (u + k - 1)) - Size
      BY <2>3, <3>1, AtFacts
    <3>3. o \in 0..(Size - 1) /\ l <= Size /\ u + l <= Size
      BY <2>4, <2>5, <2>8
    <3>4. CASE prev_offset + u < Size
      BY <2>3, <2>4, <2>5, <2>8, <3>2, <3>3, <3>4
    <3>5. CASE ~(prev_offset + u < Size)
      BY <2>3, <2>4, <2>5, <2>8, <3>2, <3>3, <3>5
    <3> QED BY <3>4, <3>5
  <2>10. GetPayload(ctx_payloads[i]) =
           [k \in 1..l |-> IF k <= size THEN buffer[o + k - 1] ELSE buffer[k - size - 1]]
    BY <2>6 DEF GetPayload
  <2> HIDE DEF o, size
  <2>11. ASSUME NEW k \in 1..l
         PROVE  (IF k <= size THEN buffer[o + k - 1] ELSE buffer[k - size - 1]) =
                  <<i, k, IF k = 1 THEN d ELSE 0>>
    <3>1. CASE k <= size
      BY <2>7, <2>9, <3>1
    <3>2. CASE ~(k <= size)
      BY <2>7, <2>9, <3>2
    <3> QED BY <3>1, <3>2
  <2>12. ctx_payloads[i].length = l
    BY <2>6
  <2> QED BY <2>7, <2>10, <2>11, <2>12, Zenon
<1> QED BY <1>1, SpecIInv, PTL

(***************************************************************************)
(* When handle_event has handled every event there was and the hardware    *)
(* has told of everything, each packet received was shown, unless an event *)
(* came just at prev_offset after a round of the buffer, or the walk has   *)
(* passed a packet with padding.                                           *)
(***************************************************************************)
THEOREM NothingToldIsKeptBack == Spec => []ToldIsShown
<1>1. IInv => ToldIsShown
  <2> SUFFICES ASSUME IInv, history \cap {"astray", "round"} = {}, st.running, ~handling, devq = <<>>,
                      untold = 0
               PROVE  received = 0
    BY DEF ToldIsShown
  <2>1. /\ st \in StateType /\ HandlerType /\ OtherTypes /\ Stream
        /\ "astray" \notin history /\ "round" \notin history
    BY DEF IInv
  <2>2. /\ ctx_payloads = <<>> /\ Len(<<>>) = 0 /\ st.addr = "mapped"
        /\ prev_offset \in 0..(Size - 1) /\ received \in Nat
    BY <2>1 DEF HandlerType, StateType, OtherTypes
  <2>3. PICK b : /\ Bounds(b) /\ \E e : Events(b, e)
    BY <2>1, <2>2 DEF Stream
  <2>4. PICK e : Events(b, e)
    BY <2>3
  <2>5. /\ received > 0 => e[0] < b[1]
        /\ 0 = IF e[0] = b[received] THEN 0 ELSE Mark(b[received])
        /\ e[0] \in 0..Size
    <3>1. Len(devq) = 0 /\ Len(ctx_payloads) = 0
      BY <2>2
    <3> QED BY <2>1, <2>4, <3>1 DEF Events
  <2>6. b[received] \in 0..Size
    <3>1. received \in 0..received
      BY <2>2
    <3> QED BY <2>2, <2>3, <3>1, BoundsFacts
  <2>7. e[0] = b[received]
    <3>1. Mark(b[received]) \in 1..Size
      BY <2>2, <2>6, AtFacts
    <3>2. Mark(b[received]) # 0
      BY <3>1, Constants
    <3> QED BY <2>5, <3>2
  <2> SUFFICES ASSUME received > 0  PROVE FALSE
    BY <2>2
  <2>8. 1 \in 0..received /\ received \in 0..received /\ 1 <= received
    BY <2>2
  <2>9. b[1] <= b[received] /\ b[1] \in Nat /\ b[received] \in Nat
    BY <2>2, <2>3, <2>8, BoundsFacts
  <2>10. b[received] < b[1]
    BY <2>5, <2>7
  <2> QED BY <2>9, <2>10
<1> QED BY <1>1, SpecIInv, PTL

(***************************************************************************)
(* While the context runs and no handler does, no chunk is lost: each is   *)
(* held by the hardware or has a packet still to be shown, unless the walk *)
(* has passed a packet with padding.                                       *)
(***************************************************************************)
THEOREM ChunksAreKept == Spec => []NoChunkLeaks
<1>1. IInv => NoChunkLeaks
  <2> DEFINE Q == BytesPerChunk
             C == ChunksPerBuffer
  <2> SUFFICES ASSUME IInv, "astray" \notin history, st.running, ~handling,
                      NEW c \in Chunks,
                      ~\E i \in DOMAIN ring : ring[i].chunk = c
               PROVE  \E y \in (c * Q)..(EndOf(c) - 1) : buffer[y][1] > 0
    BY DEF NoChunkLeaks
  <2>1. /\ st \in StateType /\ HwType /\ OtherTypes /\ Stream
    BY DEF IInv
  <2>2. /\ st.addr = "mapped" /\ prev_offset \in 0..(Size - 1) /\ received \in Nat
        /\ Q \in Nat \ {0} /\ C \in Nat \ {0} /\ Size \in Nat \ {0} /\ Size = Q * C
        /\ Chunks = 0..(C - 1) /\ DOMAIN ring = 1..Len(ring) /\ Len(ring) \in Nat
    BY <2>1, Constants DEF StateType, OtherTypes, HwType, Size
  <2>3. PICK b : Bounds(b) /\ Written(b) /\ Holding(b)
    BY <2>1, <2>2 DEF Stream
  <2>4. PICK w \in 0..Size : w = b[received]
    <3>1. received \in 0..received
      BY <2>2
    <3> QED BY <2>2, <2>3, <3>1, BoundsFacts
  <2>5. PICK x \in Nat, x0 \in Nat, l \in Nat :
          /\ x = ChunkAt(w) /\ x0 = ChunkAt(0) /\ l = Len(ring) /\ l + x = x0 + C
          /\ \A i \in 1..l : ring[i].chunk = (x + i - 1) % C
    <3>1. ChunkAt(w) \in Nat /\ ChunkAt(0) \in Nat
      <4>1. 0 \in 0..Size
        BY <2>2
      <4> QED BY <2>2, <4>1, AtFacts
    <3>2. /\ Len(ring) + ChunkAt(w) = ChunkAt(0) + C
          /\ \A i \in 1..Len(ring) : ring[i].chunk = (ChunkAt(w) + i - 1) % C
      BY <2>3, <2>4 DEF Holding
    <3> DEFINE y == ChunkAt(w)
               y0 == ChunkAt(0)
               n == Len(ring)
    <3>3. /\ y \in Nat /\ y0 \in Nat /\ n \in Nat /\ n + y = y0 + C
          /\ \A i \in 1..n : ring[i].chunk = (y + i - 1) % C
      BY <2>2, <3>1, <3>2
    <3> HIDE DEF y, y0, n, C
    <3> QED BY <3>3, Zenon DEF y, y0, n
  <2>6. PICK z \in Nat : z % C = c /\ x0 <= z /\ z < x0 + C
    <3> DEFINE d == x0 \div C
               m == x0 % C
    <3>1. d \in Int /\ m \in 0..(C - 1) /\ x0 = C * d + m
      BY <2>2, DivisionFacts
    <3> HIDE DEF d, m, C
    <3>2. c \in 0..(C - 1)
      BY <2>2
    <3>3. CASE m <= c
      <4>1. C * d + c \in Nat /\ x0 <= C * d + c /\ C * d + c < x0 + C
        <5> DEFINE t == C * d
        <5>1. t \in Int /\ x0 = t + m
          BY <2>2, <3>1
        <5> HIDE DEF t
        <5> QED BY <2>2, <3>1, <3>2, <3>3, <5>1 DEF t
      <4>2. (C * d + c) % C = c
        BY <2>2, <3>1, <3>2, RemainderUnique
      <4> QED BY <4>1, <4>2
    <3>4. CASE m > c
      <4>1. C * (d + 1) = C * d + C /\ d + 1 \in Int
        BY <2>2, <3>1
      <4>2. /\ C * (d + 1) + c \in Nat /\ x0 <= C * (d + 1) + c /\ C * (d + 1) + c < x0 + C
        <5> DEFINE t == C * d
                   u == C * (d + 1)
        <5>1. t \in Int /\ x0 = t + m /\ u = t + C
          BY <2>2, <3>1, <4>1
        <5> HIDE DEF t, u
        <5> QED BY <2>2, <3>1, <3>2, <3>4, <5>1 DEF u
      <4>3. (C * (d + 1) + c) % C = c
        BY <2>2, <3>2, <4>1, RemainderUnique
      <4> QED BY <4>2, <4>3
    <3> QED BY <3>1, <3>2, <3>3, <3>4
  <2>7. z < x
    <3> SUFFICES ASSUME z >= x  PROVE FALSE
      BY <2>5
    <3>1. z - x + 1 \in 1..l /\ x + (z - x + 1) - 1 = z
      BY <2>2, <2>5, <2>6
    <3>2. ring[z - x + 1].chunk = z % C
      BY <2>5, <3>1
    <3> QED BY <2>2, <2>5, <2>6, <3>1, <3>2
  <2>8. PICK r \in Nat, m \in 0..(Q - 1) : prev_offset + r = z * Q + m /\ r < w
    <3>1. PICK r0 \in 0..(Q - 1) : prev_offset = x0 * Q + r0
      <4>1. prev_offset \in Nat /\ prev_offset + 0 = prev_offset
        BY <2>2
      <4>2. x0 = prev_offset \div Q
        BY <2>5, <4>1 DEF ChunkAt
      <4> QED BY <4>1, <4>2, ChunkOf
    <3>2. PICK f \in 0..(Q - 1) : prev_offset + w = x * Q + f
      <4>1. prev_offset + w \in Nat
        BY <2>2
      <4> QED BY <2>5, <4>1, ChunkOf DEF ChunkAt
    <3> DEFINE tx == x * Q
               tz == z * Q
               t0 == x0 * Q
    <3>3. /\ tx \in Nat /\ tz \in Nat /\ t0 \in Nat
          /\ tx >= tz + Q
      <4>1. PICK g \in Nat : x = z + 1 + g
        <5>1. x - z - 1 \in Nat /\ x = z + 1 + (x - z - 1)
          BY <2>7
        <5> QED BY <5>1
      <4>2. tx \in Nat /\ tz \in Nat /\ t0 \in Nat
        <5>1. x \in Nat /\ z \in Nat /\ x0 \in Nat /\ Q \in Nat
          BY <2>2, <2>5, <2>6
        <5>2. \A i, k \in Nat : i * k \in Nat
          OBVIOUS
        <5> HIDE DEF Q
        <5> QED BY <5>1, <5>2
      <4> DEFINE t == g * Q
      <4>3. t \in Nat /\ tx = tz + Q + t
        <5>1. Q \in Nat
          BY <2>2
        <5> HIDE DEF Q
        <5>2. (z + 1 + g) * Q = z * Q + Q + g * Q
          BY <5>1
        <5> QED BY <4>1, <5>1, <5>2
      <4> HIDE DEF t, tx, tz
      <4> QED BY <2>2, <4>2, <4>3
    <3>4. CASE z = x0
      <4>1. /\ 0 \in Nat /\ r0 \in 0..(Q - 1) /\ prev_offset + 0 = z * Q + r0
        BY <2>2, <3>1, <3>4
      <4>2. prev_offset = tz + r0 /\ prev_offset + w = tx + f
        BY <3>1, <3>2, <3>4
      <4> HIDE DEF tx, tz
      <4>3. 0 < w
        BY <2>2, <3>1, <3>2, <3>3, <4>2
      <4> QED BY <4>1, <4>3
    <3>5. CASE z > x0
      <4>1. tz >= t0 + Q
        <5>2. PICK g \in Nat : z = x0 + 1 + g
          <6>1. z - x0 - 1 \in Nat /\ z = x0 + 1 + (z - x0 - 1)
            BY <3>5
          <6> QED BY <6>1
        <5> DEFINE t == g * Q
        <5>1. t \in Nat /\ tz = t0 + Q + t
          <6>1. Q \in Nat
            BY <2>2
          <6> HIDE DEF Q
          <6>2. (x0 + 1 + g) * Q = x0 * Q + Q + g * Q
            BY <6>1
          <6> QED BY <5>2, <6>1, <6>2
        <5> HIDE DEF t, tz, t0
        <5> QED BY <2>2, <3>3, <5>1
      <4> DEFINE r == tz - prev_offset
      <4>2. prev_offset = t0 + r0 /\ prev_offset + w = tx + f
        BY <3>1, <3>2
      <4>3. r \in Nat /\ prev_offset + r = tz + 0 /\ r < w /\ 0 \in 0..(Q - 1)
        <5> HIDE DEF t0, tx, tz
        <5> QED BY <2>2, <3>1, <3>2, <3>3, <4>1, <4>2
      <4> HIDE DEF r
      <4> QED BY <4>3
    <3> QED BY <2>5, <2>6, <3>4, <3>5
  <2>9. At(r) = c * Q + m /\ c * Q \in Nat /\ EndOf(c) = c * Q + Q
    <3>1. (z * Q + m) % Size = (z % C) * Q + m
      BY <2>6, <2>8, ChunkAndByte
    <3>2. At(r) = c * Q + m
      BY <2>6, <2>8, <3>1 DEF At
    <3> QED BY <2>2, <3>2 DEF EndOf
  <2>10. PICK j \in 1..received : r < b[j] /\ b[j - 1] <= r
    <3> DEFINE S == {j \in 1..received : r < b[j]}
    <3>1. received > 0
      <4> SUFFICES ASSUME received = 0  PROVE FALSE
        BY <2>2
      <4>1. w = 0
        BY <2>3, <2>4 DEF Bounds
      <4> QED BY <2>8, <4>1
    <3>2. received \in S /\ 1 \in Nat /\ 1 <= received
      BY <2>2, <2>4, <2>8, <3>1
    <3> HIDE DEF S
    <3>5. received \in Nat
      BY <2>2
    <3>3. PICK j \in 1..received : j \in S /\ \A i \in 1..(j - 1) : i \notin S
      BY <3>2, <3>5, FirstFrom
    <3>4. b[j - 1] <= r
      <4>1. CASE j = 1
        BY <2>3, <2>8, <4>1 DEF Bounds
      <4>2. CASE j > 1
        <5>1. j - 1 \in 1..(j - 1) /\ j - 1 \in 1..received /\ j - 1 \in 0..received
          BY <3>5, <4>2
        <5>2. ~(r < b[j - 1])
          BY <3>3, <5>1 DEF S
        <5>3. b[j - 1] \in Nat
          BY <2>2, <2>3, <5>1, BoundsFacts
        <5> QED BY <2>8, <5>2, <5>3
      <4> QED BY <4>1, <4>2
    <3> QED BY <3>3, <3>4 DEF S
  <2>11. buffer[At(r)][1] = j
    <3> DEFINE u == b[j - 1]
               v == b[j]
    <3>1. u \in Nat /\ v \in Nat /\ u <= r /\ r < v
      <4>1. j - 1 \in 0..received /\ j \in 0..received
        <5>1. received \in Nat
          BY <2>2
        <5> QED BY <5>1
      <4> QED BY <2>2, <2>3, <2>10, <4>1, BoundsFacts
    <3>2. PICK k \in 1..(v - u) : u + k - 1 = r
      <4> HIDE DEF u, v
      <4>1. r - u + 1 \in 1..(v - u) /\ u + (r - u + 1) - 1 = r
        BY <2>8, <3>1
      <4> QED BY <4>1
    <3>3. PICK d \in DataLengths :
            buffer[At(u + k - 1)] = <<j, k, IF k = 1 THEN d ELSE 0>>
      BY <2>3, <3>2 DEF Written, Packet
    <3>4. buffer[At(r)] = <<j, k, IF k = 1 THEN d ELSE 0>>
      BY <3>2, <3>3
    <3> QED BY <3>4, TripleExcept
  <2>12. /\ At(r) \in (c * Q)..(EndOf(c) - 1) /\ buffer[At(r)][1] > 0
    <3> DEFINE t == c * Q
    <3>1. t \in Nat /\ At(r) = t + m /\ EndOf(c) = t + Q
      BY <2>9
    <3> HIDE DEF t
    <3>2. At(r) \in t..(EndOf(c) - 1)
      BY <2>2, <2>8, <3>1
    <3> QED BY <2>11, <3>2 DEF t
  <2> QED BY <2>12
<1> QED BY <1>1, SpecIInv, PTL

(***************************************************************************)
(* Of the chunks the hardware holds, each chunks_per_irq in a row have one *)
(* that raises an interrupt: register_chunk goes on counting where it      *)
(* stopped, also over G_MAXINT.                                            *)
(***************************************************************************)
THEOREM OneInterruptInEachInterval == Spec => []InterruptsRegular
<1>1. IInv => InterruptsRegular
  <2> SUFFICES ASSUME IInv, st.running, chunks_per_irq > 0,
                      NEW i \in 0..(Len(ring) - chunks_per_irq)
               PROVE  Cardinality({j \in (i + 1)..(i + chunks_per_irq) : ring[j].irq}) = 1
    BY DEF InterruptsRegular
  <2>1. HwType /\ OtherTypes /\ Marked
    BY DEF IInv
  <2>2. PICK n \in Nat \ {0}, l \in Nat, acc \in Nat :
          n = chunks_per_irq /\ l = Len(ring) /\ acc = accumulated_chunk_count
    <3>1. chunks_per_irq \in Nat \ {0} /\ accumulated_chunk_count \in Nat
      BY <2>1, Constants DEF OtherTypes
    <3>2. Len(ring) \in Nat
      BY <2>1 DEF HwType
    <3> QED BY <3>1, <3>2
  <2>3. \A k \in 1..l : ring[k].irq <=> (acc - l + k) % n = 0
    BY <2>1, <2>2 DEF Marked
  <2> DEFINE a == acc - l + i
  <2>4. a \in Int
    BY <2>2
  <2>5. PICK k \in 1..n : \A j \in 1..n : (a + j) % n = 0 <=> j = k
    <3> HIDE DEF a
    <3> QED BY <2>2, <2>4, OneMultiple
  <2>6. ASSUME NEW j \in (i + 1)..(i + n)  PROVE ring[j].irq <=> j = i + k
    <3>1. j - i \in 1..n /\ a + (j - i) = acc - l + j /\ j \in 1..l
      BY <2>2
    <3>2. ring[j].irq <=> (a + (j - i)) % n = 0
      BY <2>3, <3>1
    <3>3. (a + (j - i)) % n = 0 <=> j - i = k
      BY <2>5, <3>1
    <3>4. j - i = k <=> j = i + k
      BY <3>1
    <3> QED BY <3>2, <3>3, <3>4
  <2>7. i + k \in (i + 1)..(i + n)
    BY <2>2
  <2>8. {j \in (i + 1)..(i + n) : ring[j].irq} = {i + k}
    BY <2>6, <2>7
  <2> QED BY <2>2, <2>8, FS_Singleton
<1> QED BY <1>1, SpecIInv, PTL

(***************************************************************************)
(* Unless a batch was refused while the context did not run, start finds   *)
(* room to register all chunks of the buffer.                              *)
(***************************************************************************)
THEOREM RoomToStart == Spec => []StartHasRoom
<1>1. IInv => StartHasRoom
  <2> SUFFICES ASSUME IInv, "failed" \notin history, st.addr = "mapped"
               PROVE  st.data_length + ChunksPerBuffer <= st.alloc_data_length
    BY DEF StartHasRoom
  <2>1. st \in StateType /\ st.data = <<>> /\ Len(<<>>) = 0
    BY DEF IInv, Phases
  <2>2. st.data_length = 0 /\ st.alloc_data_length = ChunksPerBuffer
    BY <2>1 DEF StateType
  <2> QED BY <2>2, Constants
<1> QED BY <1>1, SpecIInv, PTL

(***************************************************************************)
(* Packets of 16 bytes or more, and their trailing quadlets, never make    *)
(* handle_event write behind ctx_payloads, whose room map_buffer takes for *)
(* two quadlets of header and two more: whatever part of the buffer an     *)
(* event covers.                                                           *)
(***************************************************************************)
THEOREM LongPacketsFit == Spec => []DescriptorsFit
<1>1. Init => DescriptorsFit
  BY DEF Init, DescriptorsFit
<1>2. IInv /\ DescriptorsFit /\ [Next]_vars => DescriptorsFit'
  <2> SUFFICES ASSUME IInv, DescriptorsFit, [Next]_vars,
                      "astray" \notin history', "short" \notin history'
               PROVE  "overrun" \notin history'
    BY DEF DescriptorsFit
  <2>1. CASE \/ Allocate \/ MapBuffer \/ Stop \/ UnmapBuffer \/ Release \/ CreateSource
             \/ DestroySource \/ FlushCompletions \/ UNCHANGED vars
    <3>1. history' = history \/ history' = history \cup {"mapped"}
      BY <2>1 DEF Allocate, MapBuffer, Stop, UnmapBuffer, Release, CreateSource,
                  DestroySource, FlushCompletions, vars
    <3> QED BY <3>1 DEF DescriptorsFit
  <2>2. CASE \E interval \in Intervals : Start(interval)
    <3>1. \/ history' = history \/ history' = history \cup {"started"}
          \/ history' = history \cup {"started", "failed"}
      BY <2>2 DEF Start
    <3> QED BY <3>1 DEF DescriptorsFit
  <2>3. CASE \E data \in DataLengths : HwReceive(data)
    <3>1. history' = history \/ history' = history \cup {"short"}
      BY <2>3 DEF HwReceive
    <3> QED BY <3>1 DEF DescriptorsFit
  <2>4. CASE HandlerReturns
    <3>1. history' = history \/ history' = history \cup {"failed"}
      BY <2>4 DEF HandlerReturns
    <3> QED BY <3>1 DEF DescriptorsFit
  <2>5. CASE Dispatch
    <3>1. /\ history \subseteq history'
          /\ "overrun" \in history' => "overrun" \in history \/ Len(ctx_payloads') > Descriptors
      BY <2>5, DispatchHistory
    <3>2. 16 * Len(ctx_payloads') <= Size /\ Len(ctx_payloads') \in Nat
      BY <2>5, <3>1, DispatchStream, DispatchStep DEF IInv, HandlerType
    <3>3. ~(Len(ctx_payloads') > Descriptors)
      <4> DEFINE n == Len(ctx_payloads')
      <4>1. n \in Nat /\ 16 * n <= Size
        BY <3>2
      <4> HIDE DEF n
      <4>2. ~(n > Descriptors)
        BY <4>1, Constants
      <4> QED BY <4>2 DEF n
    <3> QED BY <3>1, <3>3 DEF DescriptorsFit
  <2> QED BY <2>1, <2>2, <2>3, <2>4, <2>5 DEF Next, Step
<1> QED BY <1>1, <1>2, SpecIInv, PTL DEF Spec
=============================================================================
