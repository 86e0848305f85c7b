# Specifications of libhinoko

libhinoko wraps the character device of the Linux FireWire stack in GObject classes for
isochronous contexts (packets in and out of a buffer shared with the 1394 OHCI hardware) and for
isochronous resources (channel and bandwidth on the bus). This directory keeps TLA+ models of it,
TLC configurations that check them on small instances, and proofs checked by TLAPS.

Line numbers below and in PROJECT.json are those of `src/` at the commit modelled.

## The system

| component | source | state | operations | interacts with |
|---|---|---|---|---|
| context structure | `fw_iso_ctx_private.c` | `struct fw_iso_ctx_state`: fd, mapped address, sizes of the buffer, area for packet descriptors, `curr_offset`, `running` | allocate, release, map, unmap, register_chunk, queue_chunks, start, stop, create_source, flush | embedded in each context; ioctl, mmap |
| context interface | `fw_iso_ctx.c` | none | stop, unmap_buffer (stops first), release (unmaps first), create_source, flush | emits `stopped` from the middle of its calls |
| IT context | `fw_iso_it.c` | a byte offset of its own | register_packet copies the payload, handle_event emits `interrupted` and then queues | the offset has to agree with `curr_offset` |
| IR single | `fw_iso_ir_single.c` | `chunk_cursor`, the event being handled | register_packet, get_payload inside the handler | the cursor has to agree with the hardware |
| IR multiple | `fw_iso_ir_multiple.c` | `prev_offset`, list of payloads, counter for interrupts | registers chunks itself, at start and after each event | the same for bytes in buffer-fill mode |
| event source | `dispatch_src` in both `_private.c` | a GSource with a copy of the fd | poll, read one event, handle it | the main loop of the program |
| resource structure | `struct fw_iso_resource_state` in `fw_iso_resource_private.c` | fd, cached state of the bus | open, create_source, the two writes of a bus reset | embedded in both classes; written by the dispatcher and by the thread in create_source, without a lock |
| resource, auto | `fw_iso_resource_auto.c` | `is_allocated`, bandwidth, channel, handle | allocate, deallocate, event handler | the kernel keeps the resource over bus resets and answers by events |
| resource, once | `fw_iso_resource_once.c` | nothing of its own | allocate, deallocate, event handler | hands the answers of the kernel on; a bus reset releases everything and nobody allocates it again |
| waiter | `fw_iso_resource_private.c` | a frame on the stack with mutex, condition, handled, error | allocate_wait, deallocate_wait | a signal handler in the thread of the dispatcher |
| helpers | `fw_iso_resource.c`, enumerations | none | bandwidth calculation, error labels | |

What is hard here:

* the program is called back in the middle of the library's work and calls in again: a handler of
  `interrupted` or `stopped` may stop, unmap, release, map and start the object;
* library and hardware count chunks and bytes separately and never compare;
* every ioctl may fail, also the second of two, and what the first did is not undone;
* events outlive the run of the context that raised them, and the request they answer;
* a sleeping thread and the dispatcher share a frame which goes away.

PROJECT.json lists these as hazards, each with its line and the properties about it.

What makes each component correct: the object never leaves the order open, map, start, stop, unmap,
close; the hardware gets each registered chunk once, in order, inside the buffer; the payload shown
for a packet is that packet's and is not overwritten meanwhile; the payload sent is the one
registered; what an auto object says of itself is what the kernel has, and what a program counts by
the signals of a once object is what the bus has; the cached generation is that of the bus as soon
as the bus resets are handled; a wait returns the answer to its own request, or times out.

## Modules

| module | models | state and actions |
|---|---|---|
| `FwIsoCtxState` | `struct fw_iso_ctx_state` and the functions that only change it | operators from structure to structure; one entry of `data` per registered chunk, `data_length` kept apart as in C; `Stale` marks entries whose memory was freed |
| `IsoContext` | what a context promises the hardware (abstract) | `phase`: released, allocated, mapped, running |
| `FwIsoCtx` | one context object through the interface, its source, the program above it | `frames` is the stack of signal handlers of the program being executed, with what the emitter does after each; one action per call, per event, and `Return` for the end of a handler |
| `FwIsoCtxQueue` | the loop of `queue_chunks` | batches, the wrap at the end of the buffer, failure at any batch |
| `FwIsoCtxControl` | the control word of a packet descriptor | a word is the set of the places of its ones; what `register_chunk` puts together, what `queue_chunks` and the driver take apart |
| `MCFwIsoCtxQueue` | the loop over all inputs up to a bound, and the control word | registers entries one by one from any `curr_offset`; a packet with any fields the assertions admit |
| `FwIsoIrSingle` | IR single: where payloads are | `ring` is what the hardware holds, `done` how many chunks it filled, `marks` the events; `ev` the event in the handler |
| `FwIsoIrMultiple` | IR multiple: which packets are shown, which chunks go back | `buffer` byte by byte, with the padding the hardware puts behind the data; `ring` and `fill` are how far the hardware is, `devq` the events, `ctx_payloads` what the walk of handle_event found, `handling` to the return of the handler the rest of it |
| `FwIsoIt` | IT: what is sent | `buffer` byte by byte, with the packet and byte each holds |
| `FwIsoResourceState` | the structure both classes of resource share, its source and its bus resets | `creating` and `handling` say how far create_source and the handling of a bus reset are, since they interleave; `reading` is the event read and not handled yet; `seen` what generation the program was told |
| `FwIsoResourceAuto` | the auto class over that structure | the kernel's resources by handle; `orderly` (below) |
| `FwIsoResourceOnce` | the once class over that structure | `work` requests in the kernel, `irm` what the bus has for this node, `tally` the account the program keeps by the signals; `steady` (below) |
| `FwIsoResource` | an object of either class | `class` is chosen with the object |
| `FwIsoResourceWaiter` | threads in allocate_wait or deallocate_wait | program counters of the threads and of the emission; `mutex` per frame |
| `FwIsoResourceBandwidth` | `hinoko_fw_iso_resource_calculate_bandwidth` | operators modulo the width of a guint |
| `FwIsoCtxProofs`, `FwIsoCtxQueueProofs`, `MCFwIsoCtxQueueProofs`, `FwIsoItProofs`, `FwIsoIrSingleProofs`, `FwIsoIrMultipleProofs`, `FwIsoResourceProofs`, `FwIsoResourceWaiterProofs` | theorems about the module of that name | |

`FwIsoIrSingle`, `FwIsoIrMultiple`, `FwIsoIt` and `FwIsoCtx` extend `FwIsoCtxState` and keep the
structure in the variable `st`; `FwIsoIt` uses the loop of `FwIsoCtxQueue`, the IR models use its closed form
`IrChunks`, which the run `queue` compares with the loop. `FwIsoCtx` follows the whole life of an
object with any program; the other three leave out calls that fail without changing anything and
assume a careful program (below), and look at the data instead.

A program is *careful* when it does not build the object up again inside a handler of `stopped`,
does not go on after map_buffer returned FALSE, and does not unmap while chunks are registered that
no start or handler has queued. The library enforces none of this; `FwIsoCtx` models careless
programs too, and the invariants that need care say so (`careful =>`). Without it, RunningUsable
and NoCrash are false: the hazards name the lines.

`FwIsoIrMultiple` has one run of an object, whose program drops its source before it unmaps. The
hardware fills the data of a packet up to the quadlet; handle_event goes on by the length in the
header and 8 bytes (`fw_iso_ir_multiple.c:273,288`), as `LengthAt` and `Turn` do. Behind a packet of
another length the walk is *astray*: it reads words that are no headers, any of `Words`. The
properties about which packets are shown, and where chunks are, hold until then (`"astray" \notin
history`); those of types, interrupts and room to start hold after it too. `ctx_payloads` has one
entry for 16 bytes of the buffer, and packets of less than 5 bytes of data take less: an event with
more packets than entries has the walk write behind the memory (*overrun*), where the model ends.

The two resource classes have three such histories. An auto object is *orderly* as long as its
program never allocates while an answer is due and no resource was lost or given up with an error.
A once object is *steady* as long as no two requests for one channel are under way at a time, no bus
reset comes between a request carried out and its answer, and create_source does not cache a
generation ahead of answers not read. `crossed` says that create_source and the dispatcher of an
earlier source wrote the cached state of the bus at one time: each compares, writes and notifies in
steps of its own, and then a notification may be lost (the value is not). None of these orders is
enforced by the library; the properties say `orderly =>`, `steady =>` and `crossed \/`.

What is taken from outside the library (marked external in the map): in buffer-fill mode a packet
is a header with the length of the data, the data, up to 3 bytes that fill its last quadlet, and a
timestamp; it is lost when the queued chunks have no room for it, and an event tells the
offset behind the last byte, which is never 0; the kernel accepts a batch as
a whole or refuses it; stopping a context drops chunks not told of in an event and leaves events
readable; closing the device drops both; a resource is reallocated after each bus reset or given up
with a DEALLOCATED event that carries an error; a request of the once kind is carried out and then
answered, in any order with others, is not answered when the device was closed, and its answer tells
no generation; an emission calls the handlers connected when it
began and skips those disconnected since; disconnecting does not wait for a call in flight.

## Runs

| run | what it shows | bounds |
|---|---|---|
| `ctx` | type correctness; a running context is open and mapped; nothing freed is queued; `queue_chunks` never faults; `stopped` is not nested; the object implements `IsoContext`; a lost device is detached | buffers of 1 or 2 chunks, 2 starts, 2 waiting events: enough for a stop inside a handler, a second run with an event of the first, and calls nested two deep |
| `ir_single` | in the first run the handler reads the chunk of each packet; the hardware does not write to it; a full queue of events drains | 4 chunks, all of them outstanding, G_MAXINT 10, so that the cursor is reduced in the middle of a round of the buffer |
| `ir_single_reuse` | finding: after a start that failed late the cursor disagrees, whatever is done in between | 3 chunks, the object may be mapped and started again |
| `ir_multiple` | unless the walk is astray, the handler is shown each packet once, whole and in order, also one over the end of the buffer, all that was told of is shown, and chunks go back to the hardware and none is lost; interrupts stay regular over G_MAXINT; after a stop there is room to start again; descriptors fit their memory when no packet was short | 3 chunks of 12 bytes, data of 0, 8 and 11 bytes: a short packet, one that fills its quadlets and one that does not, each over ends of chunks and of the buffer; 20 as the only length a word reads where no header is; intervals 0 to 2, G_MAXINT 5, 3 waiting events |
| `ir_multiple_padding` | finding: behind a packet with padding another is not shown though it is there | chunks of 16 bytes, data of 8 and 9 bytes, no interval, so that no chunk raises an event; what is read three bytes before a header as a length has the first byte of that header, where the tcode is, as its higher byte, and so is above any length (40960) |
| `queue` | every entry is handed over once, in order, inside the buffer; in place unless one crosses the end; the closed form for IR; the driver reads back what the program meant exactly when lengths fit their fields and no flag was given for the tag | up to 5 entries, chunks of 1 to 3 bytes, 1 to 3 of them, every offset and length; every tag flag and sync code, lengths 0, 1, 255, 256, 65535, 65536 and 65792 on both sides of the fields of 8 and 16 bits |
| `it` | in the first run the bytes sent are those registered unless a payload crossed the end; nothing is queued twice, lost or overtaken; nothing behind the end of the buffer is sent, whatever happens | a buffer of 4 bytes, payloads of 1 and 2, 2 packets outstanding numbered modulo 3 |
| `it_crossing` | finding: a payload that crosses the end is not sent as registered | same |
| `it_restart` | finding: nor is any after a restart | payloads of 2 that never cross |
| `resource` | the cached generation is the one of the bus once bus resets are handled, and the program was told; once all answers are handled, an orderly auto object is allocated exactly when its handle is held, with that bandwidth; the account of a steady program over a once object is what the bus has | both classes; 2 handles, 2 amounts, unsigned numbers modulo 4; 1 channel, 2 requests at a time; 2 bus resets, 2 waiting events: answers and resets overtake each other, and an object is closed and made anew |
| `resource_auto_lost` | finding: the object stays allocated when the resource is gone | the auto class alone, 3 waiting events |
| `resource_waiter` | an answer in time is never missed; a lone call gets its own answer and no handler runs on its dead frame; no lost wakeup; every call returns | 2 threads, 2 calls in all: the same thread twice (a late answer) or both at once |

Bounds that only stop counters: `MaxStarts`, `MaxEvents`, `MaxGen`, `MaxCalls`, `MaxRequests`,
`Ids`. `Reuse`
limits the program to one map and one start where a property is about the first run only.
`Ids` exceeds `MaxOutstanding`, so two packets alive never have the same number.

Fairness. `FwIsoCtx` and `FwIsoIrSingle`: the main loop polls again and handlers of the program
return (weak fairness of dispatch and of the return); no fairness of the program's calls or of the
hardware. `FwIsoResourceWaiter`: threads are scheduled, time passes, and an emission that has begun
goes on; that an answer ever comes, or that a sleeping thread wakes without a signal before the
expiration, is not assumed.

Each property of a passing run has a mutant of the code, beside the definition it replaces and
marked so, which breaks it.

### Findings

1. `ir_multiple_padding`: handle_event leaves out the padding behind the data
   (`fw_iso_ir_multiple.c:273`, `:288`). A packet of 9 bytes of data is shown without the end of its
   timestamp, and the next header is looked for three bytes too early: the packet is not shown. The
   same property fails without padding when an event comes one round of the buffer after
   `prev_offset` (`:246`): it is taken for one without news, no chunk is given back and the context
   stalls. Data of 8, 12 and 16 bytes and an interval of 2 in place of those of the run show it, with
   two events of chunks marked by the library and no flush.
2. `it_crossing`: `queue_chunks` moves a batch to the beginning of the buffer when an entry does not
   fit (`fw_iso_ctx_private.c:385-389`), register_packet copies it in two parts
   (`fw_iso_it.c:360-376`).
3. `it_restart`: stop resets `curr_offset`, nothing resets the offset of the IT context.
4. `ir_single_reuse`: when FW_CDEV_IOC_START_ISO fails, `curr_offset` stays where the queued chunks
   moved it (`fw_iso_ctx_private.c:434`, `:520`) and nothing takes it back, not even a release, a new
   device and a new map. The next start has the first packet put in chunk 1 and the cursor at 0.
5. `resource_auto_lost`: a DEALLOCATED event with an error changes nothing
   (`fw_iso_resource_auto.c:255`).
6. `queue`: `TAG0` is sent as the tag 1, `TAG1` as 2; `TAG2` and `TAG3` leave the tag 0 and set bits
   of the sync code (`fw_iso_ctx_private.c:323`), though its assertions admit them. The property
   `ReadBackIffFits` holds, and says that no flag for the tag comes out as the tag it names.

## Proofs

TLAPS checks each of these for every value of the constants, from the named assumptions in the
modules alone (`...Assumption`); TLC checked each inductive invariant on the small instance first.
An invariant of a run is seldom inductive: what follows says what had to be added to it. All safety
properties of the passing runs are proved, the refinement of `IsoContext` among them.

`FwIsoCtxProofs`, of `FwIsoCtx`: all its safety properties (`TypesCorrect`, `RunningIsUsable`,
`NothingStaleIsQueued`, `NeverCrashes`, `StoppedIsOnce`) and the refinement of `IsoContext`
(`ContractHolds`), for any sizes of buffers, any number of starts and events, and calls nested to any
depth. The invariant adds that a mapped buffer has a length and a closed object no buffer
(`Backed`), that a careful program has entries for a mapped buffer only and never freed ones
(`EntriesHaveBuffer`), and none while a handler of `stopped` runs (`StoppedIsEmpty`): the last is why
`unmap_buffer`, which goes on after that handler, frees nothing that is still registered. What a
function does to the structure is a lemma `...Facts`; `StopKeeps` is the argument about stop with
whatever its caller does next, `CallKeeps` that about calls which leave the buffer.

`FwIsoIrSingleProofs`, of `FwIsoIrSingle`, for every size of the buffer and every G_MAXINT not below
it: `TypeCorrect`; `FirstRunReadsItsPackets` (`FirstRunAligned`); `PayloadsAreStable`
(`PayloadsStable`), when `MaxOutstanding <= ChunksPerBuffer`. That the event in the handler is in the
chunks the cursor points to says nothing of the next event, so `IInv` adds, for the first run, that
the k-th packet after those in the handler is in the chunk k after them around the buffer, in the
ring of the hardware (`FilledInPlace`), that `curr_offset` continues that numbering
(`QueuedInPlace`), that the marks of events rise and stay within what is filled (`MarksInOrder`),
that before the first start nothing is filled or told of (`BeforeStart`), and how many chunks are
registered, queued and in the handler together (`Outstanding`). The facts about remainders are in
`FwIsoCtxQueueProofs`: that counting goes on around the ring, that the reduction at G_MAXINT keeps
the chunk, and that fewer steps than the size of the ring reach different chunks.

`FwIsoCtxQueueProofs`, of `FwIsoCtxQueue`: what the loop of `queue_chunks` does with any entries, any
buffer and any offset. The loop is a recursive function, and the library's theorems about those take operators, which the
provers cannot instantiate; `Induction` has a set in the place of the predicate and `Iteration` a
function in the place of the step, both from `WellFoundedInduction`. The states of the loop between
two batches are a set (`Between`): what was taken so far was handed over once, in order and inside
the buffer, and in place if nothing crosses. A batch keeps to it (`BatchKeepsBetween`) and takes an
entry or goes back to the beginning of the buffer, so that two for each entry are enough
(`AllBatchesTakeAll`).

`MCFwIsoCtxQueueProofs`, of `MCFwIsoCtxQueue`: `HandsOverOnceInside` (`HandedOnceInside`),
`HandsOverInPlace` (`HandedInPlace`) and `LoopIsIrClosedForm` (`IrClosedForm`), which entitles the IR
models to the closed form `IrChunks`. `MCFwIsoCtxQueueAssumption` has chunks and buffers that are
not empty, which map_buffer asserts (`fw_iso_ctx_private.c:181-182`). `ReadBackExactly`
(`ReadBackIffFits`): the control word, for headers and payloads of any length, against what the
program meant, where the flag TAGn is the tag n. A field gives no more
than it has room for and, of a number whose places are in the word, the remainder (`FieldFacts`); a
number that fits has no ones beyond its field (`NoHighBits`).

`FwIsoItProofs`, of `FwIsoIt`, for buffers and payloads of any size: `TypeCorrect`;
`HardwareStaysInBuffer` (`PayloadsInBuffer`), also after restarts and failures;
`PacketsQueuedInOrder` (`QueuedInOrder`); `AlignedRunIsSent` (`AlignedRunSendsPayloads`), when
`MaxOutstanding <= PayloadsPerBuffer`. register_packet and
queue_chunks count the same bytes from offsets of their own, so the ring is unrolled: every packet
underway, registered or queued, has a position which only grows, and both offsets are positions
modulo the size of the buffer (`InPlace`); the numbers of packets underway follow on one another
(`InOrder`); before the first start nothing is queued (`BeforeStart`). The payload register_packet
copies then cannot reach one that is still to be sent.

`FwIsoIrMultipleProofs`, of `FwIsoIrMultiple`, for chunks and a buffer of any size, data of any
lengths up to the maximum given to map_buffer, none at all included, any words where no header is,
and every G_MAXINT not below the chunks of
the buffer: all its safety properties (`TypeCorrect`, `PayloadsAreThePackets`,
`NothingToldIsKeptBack`, `ChunksAreKept`, `OneInterruptInEachInterval`, `RoomToStart`,
`LongPacketsFit`). What the
handler is shown depends on headers the hardware wrote events ago, in chunks it got from handlers
before, so the invariant has the whole stream at once: there are bounds `b` of the packets not shown
and positions `e` of the events not read, all counted from `prev_offset`, such that each packet lies
between its bounds (`Written`), the handler is shown the first of them (`Showing`), the events rise
and none is ahead of the packets (`Events`), and each chunk from `prev_offset` on is held by the
hardware, has part of those packets, or is registered, never two of them (`Holding`). `Marked` has
the counter of interrupts continue from the last chunk held, `Phases` how far the object is in its
life. `WalkFacts` is the argument about the loop of handle_event: at each turn it stands at a bound
and the header it reads there is that of the next packet; it stops at the last bound the event has
passed, or behind the first packet with padding. Of a walk astray the invariant keeps the types and
that it takes no more than the event told of, and gives up the stream; of packets which are not
short, the bounds are 16 bytes apart, and so the descriptors have room. The step of the hardware is the longest: a packet may fill several chunks, and raise
several events, of which each is the next position.

`FwIsoResourceProofs`, of `FwIsoResource`: `TypesCorrect`, `GenerationIsCurrent`, `TruthSettles`,
`TallyHolds`, for any handles, amounts, channels, bus resets, events and objects one after another.
The events read and unread stand in one `Line`. `StateInv`: bus resets stand in it in order and the last is the
current generation, the cached generation is current when none is to come, and how far the two
threads are says what the program knows (`Known`). `Orderly`: the answers in the line and the state
of the kernel are in one of eight phases around one handle. `Steady`: what the bus has of a channel
follows from the last request carried out; its answer is due, in the line with no bus reset behind
it, or in the account (`ByRequest`, `ByAnswer`, `ByTally`); a generation cached ahead of the resets
in the line finds the account empty (`Ahead`).

`FwIsoResourceWaiterProofs`, of `FwIsoResourceWaiter`: all its safety properties (`TypesCorrect`,
`SleepersAreWoken`, `AnswersInTimeAreHeard`, `AnswersAreOwn`, `HandlersEndFirst`), for any number of
threads and calls. The invariant adds that a call has an answer to come only when it was requested
(`Underway`), who holds the mutex of a frame (`Locks`), that the handler of a thread not yet leaving
is still to be called while its answer is emitted (`Hearing`), and the seven places where the answer
to a lone call can be, from `Unasked` to `CalledBack` (`LoneCalls`).

`BandwidthIsTime`, there too, of `FwIsoResourceBandwidth`, for every payload a guint has, every
speed and every width of a guint that is a multiple of 8: the calculation in C is the time of header
and padded payload as long as packet and bandwidth are below that width, except that at S3200 half a
unit is rounded away from an odd number of quadlets. Where one of them is not (at S100 from a quarter
of the width), the calculation wraps, and the bandwidth is too small by an eighth of the width at
least.

Only model-checked: liveness (`QueueDrains`, `DeviceLossDetaches`, `EveryWaitReturns`), since fairness
is out of this prover's reach.

## Not modelled

Later runs of an IR multiple context, what follows when `ctx_payloads` is overrun, its set of channels
and the memory of `concat_frames`; the content of packet headers and the length get_payload reports; the cycle match of
start, whose assertions join the bounds of second and cycle by `||` and so refuse only what breaks
both (`fw_iso_ctx_private.c:487`, `fw_iso_it.c:299`); cycle times, which are one ioctl; labels and
GObject glue, which have no state. A NULL location of the error in the `_wait` functions
(`fw_iso_resource_private.c:232` reads it), waiting in the thread that dispatches, and a GSource of a
context left attached for good are hazards, or limits, without a property.

Payloads and IR chunks of 65536 bytes and more do not fit the control word; `FwIsoCtxQueue` begins
with the length that is in it.

What no property holds for is listed with the hazards: programs that are not careful, orderly or
steady, a wait that races its expiration, two waiting threads, and the memory of a waiter's frame
then. The hazards say so in their notes.

## Plan

1. Done: `FwIsoCtxState`, `FwIsoCtx` with `IsoContext`, `FwIsoCtxQueue`, `FwIsoCtxControl`,
   `FwIsoIrSingle`, `FwIsoIrMultiple`, `FwIsoIt`; `FwIsoResourceState` with both classes over it,
   `FwIsoResourceWaiter`, `FwIsoResourceBandwidth`; the proofs of all their safety properties.
2. Later runs in `FwIsoIrMultiple`: events and chunks left by an earlier run.
3. Action properties beside the invariants: what a step of each context may never do to what the
   hardware holds.
