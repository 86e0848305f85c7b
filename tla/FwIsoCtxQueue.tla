--------------------------- MODULE FwIsoCtxQueue ---------------------------
(***************************************************************************)
(* fw_iso_ctx_state_queue_chunks(): the loop that hands the registered     *)
(* entries to the hardware, batch by batch, so that no batch crosses the   *)
(* end of the payload buffer.  An entry is a record with its payload       *)
(* length in `len'; the hardware gets it with its offset in the buffer.    *)
(* That is the length the loop takes back out of the control word, which   *)
(* is the one register_chunk got if it is less than 65536 and has lost the *)
(* places above if not: FwIsoCtxControl has the word.                      *)
(***************************************************************************)
EXTENDS FwIsoCtxState

\* The lengths of the first k entries together.
Bytes(data, k) ==
  LET sum[i \in 0..Len(data)] == IF i = 0 THEN 0 ELSE sum[i - 1] + data[i].len
  IN  sum[k]

\* buf_offset + buf_length after the k-th entry, in a batch of the entries behind
\* the first `from' which starts at `offset'.
EndsAt(data, from, offset, k) == offset + (Bytes(data, k) - Bytes(data, from))

\* Mutant: an entry that crosses the end of the buffer is taken all the same.
Takes_Crossing(data, from, offset, size, k) ==
  EndsAt(data, from, offset, k - 1) < size

\* Mutant: the entry that ends with the buffer is left for the next batch.
Takes_EndExcluded(data, from, offset, size, k) ==
  /\ EndsAt(data, from, offset, k - 1) < size
  /\ EndsAt(data, from, offset, k) < size \/ k > from + 1 \/ offset = 0

\* The condition of the inner loop for the k-th entry, and the test in its body that
\* breaks out of it.
Takes(data, from, offset, size, k) ==
  /\ EndsAt(data, from, offset, k - 1) < size
  /\ EndsAt(data, from, offset, k) <= size

\* The last entry of the batch, or `from' when it has none.
BatchEnd(data, from, offset, size) ==
  CHOOSE to \in from..Len(data) :
    /\ \A k \in (from + 1)..to : Takes(data, from, offset, size, k)
    /\ to = Len(data) \/ ~Takes(data, from, offset, size, to + 1)

\* Mutant: the reset happens too when the batch ends with the buffer.
BatchOffset_AlwaysReset(data, from, to, offset, size) ==
  IF to < Len(data) THEN 0 ELSE offset

\* The break resets buf_offset before the entries taken so far are handed over,
\* which moves them to the beginning of the buffer.
BatchOffset(data, from, to, offset, size) ==
  IF to < Len(data) /\ EndsAt(data, from, offset, to) < size THEN 0 ELSE offset

(***************************************************************************)
(* One batch: how many entries were taken since the beginning, what was    *)
(* handed over with the offsets (`at') the hardware is told, and the       *)
(* offset left behind.  Without an entry left nothing changes.             *)
(***************************************************************************)
NextBatch(data, size, q) ==
  LET to == BatchEnd(data, q.taken, q.offset, size)
      at == BatchOffset(data, q.taken, to, q.offset, size)
  IN  [taken  |-> to,
       offset |-> EndsAt(data, q.taken, at, to) % size,
       handed |-> q.handed \o
         [k \in 1..(to - q.taken) |->
            [e  |-> data[q.taken + k],
             at |-> EndsAt(data, q.taken, at, q.taken + k - 1)]]]

\* A batch without an entry is followed by one that starts at the beginning of the
\* buffer and has one: there are no more than two for each entry.
MaxBatches(s) == 2 * Len(s.data)

Batches(s) ==
  LET after[b \in 0..MaxBatches(s)] ==
        IF b = 0
        THEN [taken |-> 0, offset |-> s.curr_offset, handed |-> <<>>]
        ELSE NextBatch(s.data, BytesPerBuffer(s), after[b - 1])
  IN  after

QueuedOf(s) == Batches(s)[MaxBatches(s)]

\* Every batch was accepted.
Handed(s) == QueuedOf(s).handed

StateQueued(s) == StateDrained(s, QueuedOf(s).offset)

\* FW_CDEV_IOC_QUEUE_ISO failed for one of them; the structure stays as it is.
HandedBeforeFailure(s) ==
  {Batches(s)[b].handed :
     b \in {a \in 0..MaxBatches(s) : Batches(s)[a].taken < Len(s.data)}}
=============================================================================
