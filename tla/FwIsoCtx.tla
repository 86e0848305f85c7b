------------------------------ MODULE FwIsoCtx ------------------------------
(***************************************************************************)
(* The life of one isochronous context object: the interface functions of  *)
(* fw_iso_ctx.c, the functions of fw_iso_ctx_private.c they reach, the     *)
(* GSource that brings the events of the character device to the object,   *)
(* and the program above it, which may call the object from its main       *)
(* loop and again from inside the handlers of the signals `interrupted'    *)
(* and `stopped'.  The class is FwIsoIrSingle; what it adds to the path    *)
(* of the payloads is in the module of that name.                          *)
(***************************************************************************)
EXTENDS FwIsoCtxState

CONSTANTS ChunkCounts,  \* the values of chunks_per_buffer a program maps
          MaxStarts,    \* bound: successful calls of start
          MaxEvents     \* bound: events waiting in the character device

ASSUME FwIsoCtxAssumption ==
  /\ ChunkCounts \subseteq Nat \ {0}
  /\ MaxStarts \in Nat
  /\ MaxEvents \in Nat
  /\ Stale # "chunk"

VARIABLES
  st,       \* priv->state
  frames,   \* the signal handlers of the program being executed, innermost last
  src,      \* the GSource: "none", "live", or "stale" after its fd was closed
  events,   \* the events queued in the open character device
  down,     \* the device is gone: the fd polls G_IO_ERR and read() fails
  queued,   \* the entries read by the last call, if it was of queue_chunks
  crashed,  \* queue_chunks touched memory, or a divisor, that was not there
  result,   \* the error code of the last call of the program, or "none"
  starts,   \* successful starts so far
  careful   \* history: so far the program kept to the order stated below

vars == <<st, frames, src, events, down, queued, crashed, result, starts,
          careful>>

ErrorCodes == {"FAILED", "ALLOCATED", "NOT_ALLOCATED", "MAPPED", "NOT_MAPPED",
               "CHUNK_UNREGISTERED"}

Interrupted == [sig |-> "interrupted", then |-> "nothing"]
\* `stopped' is emitted from the middle of stop, unmap_buffer, release and the
\* error path of the dispatcher: `then' is what the caller does after it.
Stopped(then) == [sig |-> "stopped", then |-> then]
Continuations == {"nothing", "unmap", "release", "remove"}
Frames == {Interrupted} \cup {Stopped(c) : c \in Continuations}

TypeOK ==
  /\ st \in [fd : BOOLEAN, mode : {"IR_SINGLE"}, header_size : {1},
             addr : {"null", "failed", "mapped"}, bytes_per_chunk : {0, 1},
             chunks_per_buffer : Nat, data : Seq({"chunk", Stale}),
             data_length : Nat, alloc_data_length : Nat, curr_offset : Nat,
             running : BOOLEAN]
  /\ st.data_length = Len(st.data)
  /\ frames \in Seq(Frames)
  /\ src \in {"none", "live", "stale"}
  /\ events \in Seq({"interrupt", "bus_reset"})
  /\ down \in BOOLEAN
  /\ queued \in Seq({"chunk", Stale})
  /\ crashed \in BOOLEAN
  /\ result \in ErrorCodes \cup {"none", "assertion"}
  /\ starts \in Nat
  /\ careful \in BOOLEAN

Init ==
  /\ st = StateInit("IR_SINGLE", 1)
  /\ frames = <<>>
  /\ src = "none"
  /\ events = <<>>
  /\ down = FALSE
  /\ queued = <<>>
  /\ crashed = FALSE
  /\ result = "none"
  /\ starts = 0
  /\ careful = TRUE

-----------------------------------------------------------------------------
(***************************************************************************)
(* The program may call anything at any time.  It is careful as long as it *)
(* does not build the object up again inside a handler of `stopped',       *)
(* honours the FALSE of map_buffer, and does not unmap with chunks         *)
(* registered that no start or handler has queued.  The library enforces   *)
(* none of it.                                                             *)
(***************************************************************************)
InStopped == \E i \in DOMAIN frames : frames[i].sig = "stopped"

CarefulSetup == careful' = (careful /\ ~InStopped)
CarefulUse == careful' = (careful /\ ~InStopped /\ st.addr # "failed")
CarefulUnmap == careful' = (careful /\ (st.running \/ st.data = <<>>))

Returns(code) == result' = code /\ queued' = <<>>
Fails(code) == code # "none" /\ Returns(code)

\* queue_chunks has entries to read but not the memory, or divides by an empty
\* buffer's length.
QueueFaults == st.data # <<>> /\ (st.addr = "null" \/ BytesPerBuffer(st) = 0)

(***************************************************************************)
(* stop: the object leaves the running state, then `stopped' is emitted.   *)
(* When it was not running nothing is emitted and the caller goes on.      *)
(* `base' and `left' are the frames and the events as the caller leaves    *)
(* them.                                                                   *)
(***************************************************************************)
Resume(then, left) ==
  /\ st' = CASE then = "unmap"   -> StateUnmapBuffer(st)
             [] then = "release" -> StateRelease(StateUnmapBuffer(st))
             [] OTHER            -> st
  /\ src' = CASE then = "remove" -> "none"
              [] then = "release" /\ src = "live" -> "stale"
              [] OTHER -> src
  /\ events' = IF then = "release" THEN <<>> ELSE left

\* Mutant: `stopped' is emitted by every call of stop.
Emits_Always == TRUE

Emits == StateStop(st).running # st.running

CallStop(then, base, left) ==
  \/ /\ Emits
     /\ st' = StateStop(st)
     /\ frames' = Append(base, Stopped(then))
     /\ events' = left
     /\ UNCHANGED src
  \/ /\ ~Emits
     /\ Resume(then, left)
     /\ frames' = base

Stop ==
  /\ CallStop("nothing", frames, events)
  /\ Returns("none")
  /\ UNCHANGED <<down, crashed, starts, careful>>

\* Mutant: the class's unmap_buffer alone.
UnmapBuffer_WithoutStop ==
  /\ CarefulUnmap
  /\ Resume("unmap", events)
  /\ Returns("none")
  /\ UNCHANGED <<frames, down, crashed, starts>>

\* fw_iso_ctx.c: stop, then the class's unmap_buffer.
UnmapBuffer ==
  /\ CarefulUnmap
  /\ CallStop("unmap", frames, events)
  /\ Returns("none")
  /\ UNCHANGED <<down, crashed, starts>>

\* Mutant: the class's release alone.
Release_WithoutStop ==
  /\ CarefulUnmap
  /\ Resume("release", events)
  /\ Returns("none")
  /\ UNCHANGED <<frames, down, crashed, starts>>

\* fw_iso_ctx.c: unmap_buffer and thus stop, then the class's release.  The
\* finalizers of the classes call it too.
Release ==
  /\ CarefulUnmap
  /\ CallStop("release", frames, events)
  /\ Returns("none")
  /\ UNCHANGED <<down, crashed, starts>>

-----------------------------------------------------------------------------
\* open(), then two ioctl requests whose failure closes the fd again.  The new
\* fd may have the number of the one a forgotten GSource still polls.
Allocate ==
  /\ CarefulSetup
  /\ \/ /\ Fails(AllocateError(st))
        /\ UNCHANGED <<st, src, down>>
     \/ /\ AllocateError(st) = "none"
        /\ Returns("FAILED")
        /\ UNCHANGED <<st, src, down>>
     \/ /\ AllocateError(st) = "none"
        /\ Returns("none")
        /\ st' = StateAllocate(st)
        /\ src' \in IF src = "stale" THEN {"stale", "live"} ELSE {src}
        /\ down' = FALSE
  /\ UNCHANGED <<frames, events, crashed, starts>>

MapBuffer(chunks) ==
  /\ CarefulSetup
  /\ \/ /\ Fails(MapBufferError(st))
        /\ UNCHANGED st
     \/ /\ MapBufferError(st) = "none"
        /\ Returns("FAILED")
        /\ st' = StateMapFailed(st, chunks)
     \/ /\ MapBufferError(st) = "none"
        /\ Returns("none")
        /\ st' = StateMapBuffer(st, 1, chunks)
  /\ UNCHANGED <<frames, src, events, down, crashed, starts>>

RegisterChunk ==
  /\ CarefulUse
  /\ \/ /\ ~RoomFor(st, 0)
        /\ Returns("assertion")
        /\ UNCHANGED st
     \/ /\ RoomFor(st, 0)
        /\ Fails(RegisterChunkError(st))
        /\ UNCHANGED st
     \/ /\ RoomFor(st, 0)
        /\ RegisterChunkError(st) = "none"
        /\ Returns("none")
        /\ st' = StateRegisterChunk(st, "chunk", 0)
  /\ UNCHANGED <<frames, src, events, down, crashed, starts>>

(***************************************************************************)
(* queue_chunks.  The hardware takes entries only for a mapped buffer; a   *)
(* stale entry decodes to any length and leaves any offset.                *)
(***************************************************************************)
Queueable == st.data = <<>> \/ (st.fd /\ st.addr = "mapped")

QueuedStates ==
  IF Stale \in {st.data[i] : i \in DOMAIN st.data}
  THEN {StateDrained(st, offset) : offset \in 0..(st.chunks_per_buffer - 1)}
  ELSE {IF st.data = <<>> THEN st ELSE StateIrDrained(st)}

Crash ==
  /\ QueueFaults
  /\ crashed' = TRUE
  /\ Returns("none")
  /\ UNCHANGED <<st, frames, src, events, down, starts>>

Start ==
  /\ CarefulUse
  /\ \/ /\ Fails(StartError(st))
        /\ UNCHANGED <<st, starts, crashed, frames, src, events, down>>
     \/ /\ StartError(st) = "none"
        /\ Crash
     \/ \* FW_CDEV_IOC_QUEUE_ISO fails
        /\ StartError(st) = "none" /\ ~QueueFaults
        /\ Returns("FAILED")
        /\ UNCHANGED <<st, starts, crashed, frames, src, events, down>>
     \/ \* FW_CDEV_IOC_START_ISO fails
        /\ StartError(st) = "none" /\ ~QueueFaults /\ Queueable
        /\ st' \in QueuedStates
        /\ queued' = st.data
        /\ result' = "FAILED"
        /\ UNCHANGED <<starts, crashed, frames, src, events, down>>
     \/ /\ StartError(st) = "none" /\ ~QueueFaults /\ Queueable
        /\ starts < MaxStarts
        /\ st' \in {StateStarted(s) : s \in QueuedStates}
        /\ queued' = st.data
        /\ result' = "none"
        /\ starts' = starts + 1
        /\ UNCHANGED <<crashed, frames, src, events, down>>

\* Bound: one GSource at a time, made outside the handlers.
CreateSource ==
  /\ src = "none" /\ frames = <<>>
  /\ Returns(CreateSourceError(st))
  /\ src' = IF CreateSourceError(st) = "none" THEN "live" ELSE src
  /\ UNCHANGED <<st, frames, events, down, crashed, starts, careful>>

DestroySource ==
  /\ src # "none"
  /\ src' = "none"
  /\ Returns("none")
  /\ UNCHANGED <<st, frames, events, down, crashed, starts, careful>>

-----------------------------------------------------------------------------
(***************************************************************************)
(* The kernel.  The running context raises interrupts; a bus reset is an   *)
(* event of every open fd; a removed device makes the fd poll an error.    *)
(***************************************************************************)
Arrives(event) ==
  /\ Len(events) < MaxEvents
  /\ events' = Append(events, event)
  /\ UNCHANGED <<st, frames, src, down, crashed, starts, careful>>

HwInterrupt ==
  st.fd /\ st.running /\ Arrives("interrupt") /\ UNCHANGED <<queued, result>>

BusReset == st.fd /\ Arrives("bus_reset") /\ UNCHANGED <<queued, result>>

DeviceLost ==
  /\ st.fd /\ ~down
  /\ down' = TRUE
  /\ UNCHANGED <<st, frames, src, events, queued, crashed, result, starts,
                 careful>>

\* FW_CDEV_IOC_FLUSH_ISO has the kernel raise the interrupt at once.
FlushCompletions ==
  \/ /\ Returns("FAILED")
     /\ UNCHANGED <<st, frames, src, events, down, crashed, starts, careful>>
  \/ st.fd /\ st.running /\ Returns("none") /\ Arrives("interrupt")

-----------------------------------------------------------------------------
(***************************************************************************)
(* The main loop.  dispatch_src drops a source whose fd polls an error,    *)
(* stops the context when read() or the handler of the event fails, and    *)
(* else leaves the signal handler of the program running (a frame); any    *)
(* event but an interrupt fails an assertion of the handler.               *)
(***************************************************************************)
\* Mutant: the source is kept when its fd polls an error.
DispatchError_KeepsSource ==
  /\ down
  /\ UNCHANGED <<src, st, frames, events>>

DispatchError ==
  /\ down
  /\ src' = "none"
  /\ UNCHANGED <<st, frames, events>>

DispatchReadFails ==
  /\ down
  /\ CallStop("remove", frames, events)

DispatchEvent ==
  /\ events # <<>> /\ ~down
  /\ \/ /\ Head(events) = "interrupt"
        /\ frames' = Append(frames, Interrupted)
        /\ events' = Tail(events)
        /\ UNCHANGED <<st, src>>
     \/ /\ Head(events) = "bus_reset"
        /\ CallStop("remove", frames, Tail(events))

Dispatch ==
  /\ frames = <<>> /\ src = "live"
  /\ DispatchError \/ DispatchReadFails \/ DispatchEvent
  /\ Returns("none")
  /\ UNCHANGED <<down, crashed, starts, careful>>

(***************************************************************************)
(* A handler of the program returns: the event handler queues the chunks   *)
(* registered meanwhile; the caller that emitted `stopped' goes on.        *)
(***************************************************************************)
Innermost == frames[Len(frames)]
Outer == SubSeq(frames, 1, Len(frames) - 1)

ReturnFromInterrupted ==
  /\ Innermost.sig = "interrupted"
  /\ ~QueueFaults
  /\ \/ /\ Queueable
        /\ st' \in QueuedStates
        /\ frames' = Outer
        /\ queued' = st.data
        /\ UNCHANGED <<src, events>>
     \/ /\ st.data # <<>>
        /\ CallStop("remove", Outer, events)
        /\ queued' = <<>>

ReturnFromStopped ==
  /\ Innermost.sig = "stopped"
  /\ Resume(Innermost.then, events)
  /\ frames' = Outer
  /\ queued' = <<>>

Return ==
  /\ frames # <<>>
  /\ UNCHANGED careful
  /\ \/ /\ ReturnFromInterrupted \/ ReturnFromStopped
        /\ result' = "none"
        /\ UNCHANGED <<down, crashed, starts>>
     \/ /\ Innermost.sig = "interrupted"
        /\ Crash

-----------------------------------------------------------------------------
Call ==
  \/ Allocate \/ Release \/ UnmapBuffer \/ Stop
  \/ \E chunks \in ChunkCounts : MapBuffer(chunks)
  \/ RegisterChunk \/ Start \/ FlushCompletions
  \/ CreateSource \/ DestroySource

Kernel == HwInterrupt \/ BusReset \/ DeviceLost

Next == ~crashed /\ (Call \/ Kernel \/ Dispatch \/ Return)

MainLoop == ~crashed /\ Dispatch
HandlerEnds == ~crashed /\ Return

Spec == Init /\ [][Next]_vars /\ WF_vars(MainLoop) /\ WF_vars(HandlerEnds)

-----------------------------------------------------------------------------
(***************************************************************************)
(* Properties.                                                             *)
(***************************************************************************)

(***************************************************************************)
(* While the context is marked running its device is open and its buffer   *)
(* is mapped, whatever the handlers of `interrupted' and `stopped' call:   *)
(* unmap_buffer and release of fw_iso_ctx.c stop the context first.        *)
(***************************************************************************)
RunningUsable == careful /\ st.running => st.fd /\ st.addr = "mapped"

(***************************************************************************)
(* queue_chunks only reads entries that were registered since their memory *)
(* was allocated: stop drops what was registered, so the drain at the end  *)
(* of handle_event finds nothing of a buffer unmapped in the handler.      *)
(***************************************************************************)
NothingStaleQueued == careful => \A i \in DOMAIN queued : queued[i] # Stale

(***************************************************************************)
(* queue_chunks never reads entries through the null pointer unmap_buffer  *)
(* leaves and never takes the remainder by the length 0 of a buffer that   *)
(* was not mapped.                                                         *)
(***************************************************************************)
NoCrash == careful => ~crashed

(***************************************************************************)
(* `stopped' is emitted once per stop: no handler of it runs inside        *)
(* another, although a handler may call stop, unmap_buffer and release,    *)
(* and the context does not run meanwhile.                                 *)
(***************************************************************************)
StoppedOnce ==
  careful => \A i \in DOMAIN frames : frames[i].sig = "stopped" =>
    /\ ~st.running
    /\ \A j \in DOMAIN frames : frames[j].sig = "stopped" => i = j

(***************************************************************************)
(* Once the device is gone the main loop gets rid of the source, by way of *)
(* the poll error or of the failing read(), even from amidst handlers.     *)
(***************************************************************************)
DeviceLossDetaches == (down /\ src = "live") ~> (src # "live" \/ ~down \/ crashed)

(***************************************************************************)
(* The object implements the contract with the hardware in IsoContext.     *)
(***************************************************************************)
Phase ==
  IF ~st.fd THEN "released"
  ELSE IF st.addr # "mapped" THEN "allocated"
  ELSE IF st.running THEN "running" ELSE "mapped"

Contract == INSTANCE IsoContext WITH phase <- Phase

\* Stop before unmap before close, in every interleaving of calls, signal
\* handlers and dispatches (fw_iso_ctx.c), for as long as the program is
\* careful: every step is one of the contract or leaves the phase alone.
ImplementsContract ==
  Contract!Init /\ [][careful' => [Contract!Next]_Phase]_vars
=============================================================================
