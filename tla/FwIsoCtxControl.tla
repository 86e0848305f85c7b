-------------------------- MODULE FwIsoCtxControl --------------------------
(***************************************************************************)
(* The control word of a packet descriptor: fw_iso_ctx_state_register_chunk*)
(* puts six fields together without a mask, queue_chunks and the driver    *)
(* take them apart.  A word is the set of the places of its ones, so that  *)
(* the bitwise or is a union and a mask an intersection.                   *)
(***************************************************************************)
EXTENDS Integers

Word == 0..31

\* v << place, of a guint below 2^31 (no length comes near it).
Shifted(v, place) ==
  {i \in Word : i - place \in 0..30 /\ (v \div 2^(i - place)) % 2 = 1}

\* The number in so many places from the first.
Field(word, first, width) ==
  LET sum[i \in 0..width] ==
        IF i = 0 THEN 0
        ELSE sum[i - 1] + (IF first + i - 1 \in word THEN 2^(i - 1) ELSE 0)
  IN  sum[width]

(***************************************************************************)
(* What an IT context may be given: the assertions of register_chunk.  The *)
(* tag is a value of HinokoFwIsoCtxMatchFlag, the length of the header     *)
(* that of each packet of the context, the payload no longer than a chunk, *)
(* neither of which is bounded.                                            *)
(***************************************************************************)
Accepts(p, headerSize, bytesPerChunk) ==
  /\ p.tags \in {0, 1, 2, 4, 8}
  /\ p.sync_code <= 15
  /\ IF p.skip
     THEN p.payload_length = 0 /\ p.header_length = 0
     ELSE p.header_length = headerSize /\ p.payload_length <= bytesPerChunk

\* Mutant: the sync code is put one place too low.
ControlWord_SyncAt19(p) ==
  Shifted(p.payload_length, 0) \cup Shifted(p.tags, 18)
    \cup Shifted(p.sync_code, 19) \cup Shifted(p.header_length, 24)
    \cup (IF p.skip THEN {17} ELSE {})
    \cup (IF p.schedule_interrupt THEN {16} ELSE {})

ControlWord(p) ==
  Shifted(p.payload_length, 0) \cup Shifted(p.tags, 18)
    \cup Shifted(p.sync_code, 20) \cup Shifted(p.header_length, 24)
    \cup (IF p.skip THEN {17} ELSE {})
    \cup (IF p.schedule_interrupt THEN {16} ELSE {})

\* fw_cdev_iso_packet_control_to_payload_length() and _header_length().
PayloadLength(word) == Field(word, 0, 16)
HeaderLength(word) == Field(word, 24, 8)

\* What the driver makes of the word.
DriverReads(word) ==
  [payload_length |-> PayloadLength(word), header_length |-> HeaderLength(word),
   tags |-> Field(word, 18, 2), sync_code |-> Field(word, 20, 4),
   skip |-> 17 \in word, schedule_interrupt |-> 16 \in word]
=============================================================================
