--------------------------- MODULE FwIsoIrMultiple ---------------------------
(***************************************************************************)
(* fw_iso_ir_multiple.c: the IR context in buffer-fill mode.  The hardware *)
(* writes packets one behind the other into the chunks it holds, each with *)
(* a header that tells the length of its data, padding up to the quadlet,  *)
(* and a trailing timestamp, over the ends of chunks and of the buffer.    *)
(* An event tells how far the hardware got; the library walks from its own *)
(* prev_offset to there, header by header, shows the program the packets   *)
(* that are complete, and after the handler registers again the chunks it  *)
(* has passed.  The walk takes no account of the padding.                  *)
(*                                                                         *)
(* The buffer is kept byte by byte; st counts in chunks, so that its       *)
(* bytes_per_chunk is 1.  Packets are numbered from the first one that no  *)
(* handler was shown.  Left out: the set of channels, calls that fail      *)
(* without changing anything, and the memory of concat_frames (map_buffer  *)
(* is not called on a mapped object).                                      *)
(*                                                                         *)
(* The program gives map_buffer the longest payload there is, does not go  *)
(* on after it returned FALSE, and has no source polling the device when   *)
(* it unmaps without a release.  The object is mapped and started once:    *)
(* the properties are about its first run.                                 *)
(***************************************************************************)
EXTENDS FwIsoCtxState, FiniteSets

CONSTANTS MaxPayload,        \* the argument bytes_per_chunk of map_buffer
          ChunksPerBuffer,   \* the argument chunks_per_buffer
          DataLengths,       \* the bytes of data of the packets on the bus
          Intervals,         \* the arguments chunks_per_irq of start
          Words,             \* what a word reads as a length of data where no
                             \* header is
          MaxInt,            \* G_MAXINT
          MaxEvents          \* bound: events waiting in the character device

ASSUME FwIsoIrMultipleAssumption ==
  /\ MaxPayload \in Nat \ {0} /\ ChunksPerBuffer \in Nat \ {0}
  /\ DataLengths \subseteq 0..MaxPayload
  /\ Intervals \subseteq Nat /\ Words \subseteq Nat /\ Words # {}
  /\ MaxInt \in Nat /\ ChunksPerBuffer <= MaxInt /\ MaxEvents \in Nat

VARIABLES
  st,            \* priv->state
  prev_offset,   \* priv->prev_offset, in bytes
  chunks_per_irq, accumulated_chunk_count,
  handling,      \* the handler of `interrupted' runs
  ctx_payloads,  \* in the handler, the first ctx_payload_count of them
  accum_length,  \* in the handler, the local variable of handle_event
  attached,      \* a GSource polls the fd
  ring,          \* hardware: the chunks queued and not full, the first one
                 \* being filled
  fill,          \* hardware: bytes written to that one
  untold,        \* hardware: how far it got, 0 if an event has told so
  devq,          \* kernel: the `completed' of the events to be read
  buffer,        \* the mapped buffer: for each byte the number of the packet
                 \* (0 once it was shown), the position in it, and the
                 \* length of its data in the first byte of a header
  received,      \* packets written and not shown to a handler that returned
  history        \* what happened: mapped, started, failed, round; a short
                 \* packet was received; the walk went astray, or had
                 \* more packets than ctx_payloads has room for (overrun)

object == <<prev_offset, chunks_per_irq, accumulated_chunk_count>>
handler == <<handling, ctx_payloads, accum_length>>
hw == <<ring, fill, untold, devq>>
vars == <<st, object, handler, attached, hw, buffer, received, history>>

\* Up to the quadlet, as map_buffer makes its chunks and the hardware the data.
Padded(bytes) == ((bytes + 3) \div 4) * 4

BytesPerChunk == Padded(MaxPayload)
Size == BytesPerChunk * ChunksPerBuffer

\* What a packet takes in the buffer.
Space(data_length) == 4 + Padded(data_length) + 4

\* Mutant: each packet is taken to have 32 bytes.
Descriptors_OfLongPackets == (Size \div 8) \div 4

\* The entries ctx_payloads has room for.
Descriptors == (Size \div 8) \div 2

Chunks == 0..(ChunksPerBuffer - 1)
Blank == <<0, 0, 0>>
Empty == [b \in 0..(Size - 1) |-> Blank]

TypeOK ==
  /\ st.mode = "IR_MULTIPLE" /\ st.data \in Seq(BOOLEAN \cup {Stale})
  /\ st.data_length = Len(st.data) /\ st.data_length <= ChunksPerBuffer
  /\ st.curr_offset \in Chunks
  /\ prev_offset \in 0..(Size - 1)
  /\ chunks_per_irq \in Intervals \cup {0}
  /\ accumulated_chunk_count \in 0..(MaxInt - 1)
  /\ {handling, attached} \subseteq BOOLEAN
  /\ \A i \in DOMAIN ctx_payloads :
       /\ ctx_payloads[i].offset \in 0..(Size - 1)
       /\ ctx_payloads[i].length - 8 \in DataLengths \cup Words
  /\ accum_length \in 0..Size
  /\ ring \in Seq([chunk : Chunks, irq : BOOLEAN])
  /\ fill \in 0..(BytesPerChunk - 1)
  /\ untold \in 0..Size
  /\ devq \in Seq(1..Size) /\ Len(devq) <= MaxEvents
  /\ buffer \in [0..(Size - 1) -> Nat \X (0..(BytesPerChunk + 8)) \X ({0} \cup DataLengths)]
  /\ received \in Nat
  /\ history \subseteq {"mapped", "started", "failed", "round", "short", "astray", "overrun"}

Init ==
  /\ st = StateInit("IR_MULTIPLE", 0)
  /\ prev_offset = 0 /\ chunks_per_irq = 0 /\ accumulated_chunk_count = 0
  /\ handling = FALSE /\ ctx_payloads = <<>> /\ accum_length = 0
  /\ attached = FALSE
  /\ ring = <<>> /\ fill = 0 /\ untold = 0 /\ devq = <<>>
  /\ buffer = Empty /\ received = 0
  /\ history = {}

\* The packets up to number n were shown, and are not told apart any more; their
\* bytes stay.
Shown(n) ==
  [b \in 0..(Size - 1) |->
     [buffer[b] EXCEPT ![1] = IF @ > n THEN @ - n ELSE 0]]

-----------------------------------------------------------------------------
(***************************************************************************)
(* The hardware.  A packet for which the queued chunks have no room is     *)
(* lost and leaves no trace.  A full chunk raises an event if it was       *)
(* marked; the position in an event counts from the start of the buffer    *)
(* and is never 0.                                                         *)
(***************************************************************************)
EndOf(chunk) == (chunk + 1) * BytesPerChunk

Place(k) ==
  ring[((fill + k - 1) \div BytesPerChunk) + 1].chunk * BytesPerChunk
    + ((fill + k - 1) % BytesPerChunk)

\* The events of these chunks, when they are full.
Raised(chunks) ==
  LET after[i \in 0..Len(chunks)] ==
        IF i = 0 THEN <<>>
        ELSE IF chunks[i].irq THEN Append(after[i - 1], EndOf(chunks[i].chunk))
        ELSE after[i - 1]
  IN  after[Len(chunks)]

HwReceive(data_length) ==
  LET space  == Space(data_length)
      full   == (fill + space) \div BytesPerChunk
      raised == Raised(SubSeq(ring, 1, full))
  IN  /\ st.running
      /\ fill + space <= Len(ring) * BytesPerChunk
      /\ Len(devq) + Len(raised) <= MaxEvents
      /\ ring' = SubSeq(ring, full + 1, Len(ring))
      /\ fill' = (fill + space) % BytesPerChunk
      /\ devq' = devq \o raised
      /\ untold' = CASE fill' > 0 -> ring'[1].chunk * BytesPerChunk + fill'
                     [] fill' = 0 /\ ring[full].irq -> 0
                     [] fill' = 0 /\ ~ring[full].irq -> EndOf(ring[full].chunk)
      /\ buffer' = [b \in 0..(Size - 1) |->
                      IF \A k \in 1..space : Place(k) # b THEN buffer[b]
                      ELSE LET k == CHOOSE k \in 1..space : Place(k) = b
                           IN <<received + 1, k, IF k = 1 THEN data_length ELSE 0>>]
      /\ received' = received + 1
      /\ history' = history \cup (IF space < 16 THEN {"short"} ELSE {})
      /\ UNCHANGED <<st, object, handler, attached>>

\* flush_completions has the kernel raise an event for what is there.
FlushCompletions ==
  /\ untold # 0 /\ Len(devq) < MaxEvents
  /\ devq' = Append(devq, untold) /\ untold' = 0
  /\ UNCHANGED <<st, object, handler, attached, ring, fill, buffer, received, history>>

\* FW_CDEV_IOC_STOP_ISO; the events stay readable.
HwStop == ring' = <<>> /\ fill' = 0 /\ untold' = 0 /\ UNCHANGED devq

HwClose == ring' = <<>> /\ fill' = 0 /\ untold' = 0 /\ devq' = <<>>

HwQueue(chunks) == ring' = ring \o chunks /\ UNCHANGED <<fill, untold, devq>>

Entries(s) ==
  [i \in DOMAIN s.data |->
     [chunk |-> IrChunks(s)[i], irq |-> s.data[i] = TRUE]]

\* What queue_chunks has handed over when one of its batches is refused.
EntriesBeforeFailure(s) ==
  {SubSeq(Entries(s), 1, n) : n \in {0} \cup
     {n \in 1..(Len(s.data) - 1) : IrChunk(s, n) = 0}}

-----------------------------------------------------------------------------
(***************************************************************************)
(* fw_iso_ir_multiple_register_chunk(), m times until it fails: the        *)
(* structure and the counter it leaves.                                    *)
(***************************************************************************)
\* Mutant: the counter is not reduced.
Counted_Unreduced(count, interval) == IF interval = 0 THEN count ELSE count + 1

\* Mutant: the counter starts anew at G_MAXINT.
Counted_FromZero(count, interval) ==
  IF interval = 0 THEN count ELSE IF count + 1 >= MaxInt THEN 0 ELSE count + 1

Counted(count, interval) ==
  CASE interval = 0         -> count
    [] interval > 0 /\ count + 1 >= MaxInt -> (count + 1) % interval
    [] interval > 0 /\ count + 1 < MaxInt  -> count + 1

RegisterChunk(r, interval) ==
  LET irq == interval > 0 /\ (r.count + 1) % interval = 0
      ok  == RoomFor(r.st, 0) /\ RegisterChunkError(r.st) = "none"
  IN  [st    |-> IF ok THEN StateRegisterChunk(r.st, irq, 0) ELSE r.st,
       count |-> Counted(r.count, interval),
       ok    |-> ok]

RegisterChunks(s, count, interval, m) ==
  LET after[i \in 0..m] ==
        IF i = 0 THEN [st |-> s, count |-> count, ok |-> TRUE]
        ELSE IF after[i - 1].ok THEN RegisterChunk(after[i - 1], interval)
        ELSE after[i - 1]
  IN  after[m]

-----------------------------------------------------------------------------
(***************************************************************************)
(* The calls of the program, outside or inside the handler.                *)
(***************************************************************************)
Allocate ==
  /\ AllocateError(st) = "none"
  /\ st' = StateAllocate(st)
  /\ UNCHANGED <<object, handler, attached, hw, buffer, received, history>>

MapBuffer ==
  /\ "mapped" \notin history /\ MapBufferError(st) = "none"
  /\ \/ /\ st' = StateMapBuffer(st, 1, ChunksPerBuffer)
        /\ buffer' = Empty
        /\ history' = history \cup {"mapped"}
     \/ /\ st' = StateMapFailed(st, ChunksPerBuffer)
        /\ UNCHANGED <<buffer, history>>
  /\ UNCHANGED <<object, handler, attached, hw, received>>

\* All chunks are registered, whatever was registered or queued before.
Start(interval) ==
  LET r == RegisterChunks(st, 0, interval, st.chunks_per_buffer)
  IN  /\ "started" \notin history /\ st.addr # "failed" /\ interval < st.chunks_per_buffer
      /\ chunks_per_irq' = interval
      /\ accumulated_chunk_count' = r.count
      /\ \/ /\ ~r.ok
            /\ st' = r.st
            /\ UNCHANGED <<prev_offset, hw, history>>
         \/ /\ r.ok
            /\ prev_offset' = 0
            /\ \/ \* FW_CDEV_IOC_QUEUE_ISO fails
                  /\ \E chunks \in EntriesBeforeFailure(r.st) : HwQueue(chunks)
                  /\ st' = r.st
                  /\ history' = history \cup {"started", "failed"}
               \/ \* FW_CDEV_IOC_START_ISO fails
                  /\ HwQueue(Entries(r.st))
                  /\ st' = StateIrDrained(r.st)
                  /\ history' = history \cup {"started"}
               \/ /\ HwQueue(Entries(r.st))
                  /\ st' = StateStarted(StateIrDrained(r.st))
                  /\ history' = history \cup {"started"}
      /\ UNCHANGED <<handler, attached, buffer, received>>

StopOr(s) ==
  /\ st' = s
  /\ IF st.running THEN HwStop ELSE UNCHANGED hw

Stop ==
  /\ StopOr(StateStop(st))
  /\ UNCHANGED <<object, handler, attached, buffer, received, history>>

UnmapBuffer ==
  /\ ~attached /\ ~handling
  /\ StopOr(StateUnmapBuffer(StateStop(st)))
  /\ buffer' = Empty
  /\ UNCHANGED <<object, handler, attached, received, history>>

Release ==
  /\ st.running \/ st.data = <<>> \/ ~handling
  /\ st' = StateRelease(StateUnmapBuffer(StateStop(st)))
  /\ HwClose
  /\ attached' = FALSE
  /\ buffer' = Empty
  /\ UNCHANGED <<object, handler, received, history>>

CreateSource ==
  /\ CreateSourceError(st) = "none" /\ ~attached /\ st.addr = "mapped"
  /\ attached' = TRUE
  /\ UNCHANGED <<st, object, handler, hw, buffer, received, history>>

DestroySource ==
  /\ attached /\ attached' = FALSE
  /\ UNCHANGED <<st, object, handler, hw, buffer, received, history>>

-----------------------------------------------------------------------------
(***************************************************************************)
(* handle_event up to the emission: the walk over the packets that end     *)
(* before what the event tells.                                            *)
(***************************************************************************)
\* Mutant: an event at the start of the buffer is not taken to be behind.
AccumEnd_NoWrap(completed) == completed

AccumEnd(completed) == IF completed < prev_offset THEN completed + Size ELSE completed

\* What the walk takes for the length of the packet at an offset: there is no
\* padding in it.
LengthAt(offset, word) ==
  (IF buffer[offset][2] = 1 THEN buffer[offset][3] ELSE word) + 8

\* Mutant: a packet is taken as soon as its header is there.
Complete_HeaderOnly(avail, length) == TRUE

Complete(avail, length) == avail >= length

\* The loop: each turn shows one packet more, until none is complete.
Turn(completed, word, walk) ==
  LET avail  == AccumEnd(completed) - prev_offset - walk.length
      offset == (prev_offset + walk.length) % Size
      length == LengthAt(offset, word)
  IN  IF avail >= 4 /\ Complete(avail, length)
      THEN [payloads |-> Append(walk.payloads, [offset |-> offset, length |-> length]),
            length   |-> walk.length + length]
      ELSE walk

\* Each turn but the last takes 8 bytes of the buffer or more.
MaxTurns == Size \div 8

Walk(completed, words) ==
  LET after[n \in 0..MaxTurns] ==
        IF n = 0 THEN [payloads |-> <<>>, length |-> 0]
        ELSE Turn(completed, words[n], after[n - 1])
  IN  after[MaxTurns]

\* The walk has passed a packet without its padding.
Astray(payloads) ==
  \E i \in DOMAIN payloads : payloads[i].length # Space(payloads[i].length - 8)

\* An entry more than ctx_payloads has room for is written behind it: the model
\* ends there.
Dispatch ==
  /\ attached /\ ~handling /\ devq # <<>>
  /\ devq' = Tail(devq)
  /\ handling' = TRUE
  /\ \E words \in [1..MaxTurns -> Words] :
       LET walk == Walk(Head(devq), words)
       IN  /\ ctx_payloads' = walk.payloads
           /\ accum_length' = walk.length
  /\ history' = history \cup (IF Head(devq) = prev_offset THEN {"round"} ELSE {})
                       \cup (IF Astray(ctx_payloads') THEN {"astray"} ELSE {})
                       \cup (IF Len(ctx_payloads') > Descriptors THEN {"overrun"} ELSE {})
  /\ UNCHANGED <<st, object, attached, ring, fill, untold, buffer, received>>

(***************************************************************************)
(* The rest of handle_event.  When a chunk is not registered, or a batch   *)
(* is refused, dispatch_src stops the context and drops the source; in the *)
(* former case prev_offset stays.  When the walk has gone astray nobody    *)
(* can tell which packets were shown; all received are taken for shown.    *)
(***************************************************************************)
\* Mutant: only whole chunks of packets count.
ChunksPassed_ByLength == accum_length \div BytesPerChunk

ChunksPassed ==
  (prev_offset + accum_length) \div BytesPerChunk
    - (prev_offset \div BytesPerChunk)

HandlerReturns ==
  LET r == RegisterChunks(st, accumulated_chunk_count, chunks_per_irq, ChunksPassed)
      shown == IF "astray" \in history THEN received ELSE Len(ctx_payloads)
  IN  /\ handling
      /\ handling' = FALSE /\ ctx_payloads' = <<>> /\ accum_length' = 0
      /\ accumulated_chunk_count' = r.count
      /\ prev_offset' = IF r.ok THEN (prev_offset + accum_length) % Size ELSE prev_offset
      /\ buffer' = Shown(shown)
      /\ received' = received - shown
      /\ \/ /\ r.ok
            /\ HwQueue(Entries(r.st))
            /\ st' = StateIrDrained(r.st)
            /\ UNCHANGED <<attached, history>>
         \/ /\ ~r.ok \/ r.st.data # <<>>
            /\ st' = StateStop(r.st)
            /\ attached' = FALSE
            /\ IF st.running THEN HwStop
               ELSE \E chunks \in IF r.ok THEN EntriesBeforeFailure(r.st) ELSE {<<>>} :
                      HwQueue(chunks)
            /\ history' = history \cup
                 (IF r.ok /\ ~st.running THEN {"failed"} ELSE {})
      /\ UNCHANGED chunks_per_irq

-----------------------------------------------------------------------------
Step ==
  \/ Allocate \/ MapBuffer \/ Stop \/ UnmapBuffer \/ Release
  \/ \E interval \in Intervals : Start(interval)
  \/ CreateSource \/ DestroySource \/ FlushCompletions
  \/ \E data_length \in DataLengths : HwReceive(data_length)
  \/ Dispatch \/ HandlerReturns

Next ==
  \/ "overrun" \notin history /\ Step
  \/ "overrun" \in history /\ UNCHANGED vars

Spec == Init /\ [][Next]_vars

-----------------------------------------------------------------------------
(***************************************************************************)
(* hinoko_fw_iso_ir_multiple_get_payload(): a packet over the end of the   *)
(* buffer is put together in concat_frames from what read_frame finds      *)
(* before the end and the rest at the beginning.                           *)
(***************************************************************************)
GetPayload(p) ==
  LET frame_size == IF p.offset + p.length < Size THEN p.length ELSE Size - p.offset
  IN  [k \in 1..p.length |->
         IF k <= frame_size THEN buffer[p.offset + k - 1] ELSE buffer[k - frame_size - 1]]

(***************************************************************************)
(* As long as the walk has not passed a packet with padding, the packets   *)
(* get_payload yields in the handler are the next ones the hardware        *)
(* received, each whole, in order and once, up to the return of the        *)
(* handler: no header is looked for in the wrong place, and no chunk that  *)
(* still has to be shown is given back to the hardware.                    *)
(***************************************************************************)
FirstRunPackets ==
  handling /\ st.addr = "mapped" /\ history \cap {"astray", "overrun"} = {} =>
    \A i \in DOMAIN ctx_payloads :
      LET p == ctx_payloads[i]
      IN  GetPayload(p) = [k \in 1..p.length |->
                             <<i, k, IF k = 1 THEN p.length - 8 ELSE 0>>]

(***************************************************************************)
(* When the events have told of everything and were handled, every packet  *)
(* received was shown: nothing is left for the next event, wherever events *)
(* cut a packet.  The exceptions are a walk that went astray, and an event *)
(* which completes just at prev_offset, after a whole round of the buffer: *)
(* the comparison in handle_event takes it for nothing new.                *)
(***************************************************************************)
ToldIsShown ==
  history \cap {"astray", "round"} = {}
    /\ st.running /\ ~handling /\ devq = <<>> /\ untold = 0
  => received = 0

(***************************************************************************)
(* The documentation of `interrupted' says of its argument: "The number of *)
(* packets available in this interrupt."  When no other event waits and    *)
(* the hardware wrote nothing since this one, these are all the packets    *)
(* not shown yet.  Does not hold: a walk astray misses some, and so does   *)
(* an event which completes a whole round after prev_offset.               *)
(***************************************************************************)
CountIsAvailable ==
  handling /\ st.running /\ devq = <<>> /\ untold = 0 =>
    Len(ctx_payloads) = received

(***************************************************************************)
(* No chunk gets lost between library and hardware: the hardware holds it, *)
(* or it has a packet still to be shown, unless the walk went astray.      *)
(***************************************************************************)
NoChunkLeaks ==
  "astray" \notin history /\ st.running /\ ~handling =>
    \A c \in Chunks :
      \/ \E i \in DOMAIN ring : ring[i].chunk = c
      \/ \E b \in (c * BytesPerChunk)..(EndOf(c) - 1) : buffer[b][1] > 0

(***************************************************************************)
(* Of the chunks the hardware holds, each chunks_per_irq in a row have one *)
(* that raises an interrupt, also where the counter is reduced at          *)
(* G_MAXINT, and when start marked some of them and handle_event others.   *)
(***************************************************************************)
InterruptsRegular ==
  st.running /\ chunks_per_irq > 0 =>
    \A i \in 0..(Len(ring) - chunks_per_irq) :
      Cardinality({j \in (i + 1)..(i + chunks_per_irq) : ring[j].irq}) = 1

(***************************************************************************)
(* A mapped context can be started again, wherever it was stopped: there   *)
(* is room to register all its chunks.  The exception is a batch which was *)
(* refused while the context did not run, in start or after the handler of *)
(* a late event: no call takes its entries away again.                     *)
(***************************************************************************)
StartHasRoom ==
  "failed" \notin history /\ ~handling /\ st.addr = "mapped" =>
    st.data_length + ChunksPerBuffer <= st.alloc_data_length

(***************************************************************************)
(* The entries of one event have room in ctx_payloads, whose size is that  *)
(* of the buffer divided by 16 bytes: packets of that size have, whatever  *)
(* part of the buffer an event covers.  Only a packet of less than 5 bytes *)
(* of data is shorter, and a walk astray may see such where none are.      *)
(***************************************************************************)
DescriptorsFit ==
  history \cap {"astray", "short"} = {} => "overrun" \notin history
=============================================================================
