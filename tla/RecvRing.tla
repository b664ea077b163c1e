------------------------------ MODULE RecvRing ------------------------------
(***************************************************************************)
(* receive_file_core (core/src/usb_transfer_core.cpp): the bulk-IN side of *)
(* one file transfer.  Three actors share a ring of Pool slots:            *)
(*                                                                         *)
(*   main    reads the header, keeps up to MaxInflight transfers           *)
(*           submitted, accounts for completions strictly in ring order,   *)
(*           and on a failure cancels, drains and joins;                   *)
(*   libusb  completes transfers.  ring_cb runs only while main is inside  *)
(*           libusb_handle_events_timeout, i.e. while it waits for the     *)
(*           slot next_complete or drains;                                 *)
(*   writer  a std::thread that writes READY slots to the output file, in  *)
(*           ring order, and marks them FREE.                              *)
(*                                                                         *)
(* Bytes are abstracted to small units: Chunk units per transfer, and the  *)
(* i-th unit of the peer's file is the number i.  The number 0 stands for  *)
(* anything that is not file data (zero padding, never-received buffer     *)
(* contents, frames that follow the file).                                 *)
(***************************************************************************)
EXTENDS Integers, Sequences, FiniteSets

CONSTANTS
    Pool,           \* usb_protocol::kPoolSize, slots of the ring
    MaxInflight,    \* effective_queue_depth(), at most kQueueDepth
    Chunk,          \* usb_protocol::kChunkSize, in units
    FileSizes,      \* file sizes, in units, a peer may announce
    ExpectedKind,   \* the caller's expected_frame_kind: "any", "session", "payload"
    ShortReads,     \* TRUE: the device may complete an IN transfer early
    Wedged          \* TRUE: cancelled transfers may fail to complete within 2 s

ASSUME SizesAssumption == /\ Pool \in Nat \ {0}
                          /\ MaxInflight \in 1..Pool
                          /\ Chunk \in Nat \ {0}
                          /\ FileSizes \subseteq Nat
ASSUME FlagsAssumption == /\ ExpectedKind \in {"any", "session", "payload"}
                          /\ ShortReads \in BOOLEAN
                          /\ Wedged \in BOOLEAN

VARIABLES
    main,           \* control point of the calling thread
    writer,         \* control point of the writer thread
    state,          \* RingSlot::state
    status,         \* RingSlot::status: TRUE for LIBUSB_TRANSFER_COMPLETED (0)
    actual,         \* RingSlot::actual
    real_bytes,     \* RingSlot::real_bytes
    buf,            \* RingSlot::buf
    file_size, bytes_submitted, bytes_received, active,
    submit_count,   \* also total_submitted, stored from it at once
    next_complete, error,
    write_error, usb_done, recv_aborted,
    write_idx,      \* the writer's local counter
    disk,           \* what was handed to out_file, in order
    stream,         \* units of payload the fabric delivered so far
    gave_up,        \* the bounded drain ended with a transfer still in flight
    ok              \* TransferResult::ok

slots  == <<state, status, actual, real_bytes, buf>>
counts == <<bytes_submitted, bytes_received, active, submit_count, next_complete>>
flags  == <<write_error, usb_done, recv_aborted>>
outs   == <<stream, gave_up, ok>>
vars   == <<main, writer, slots, file_size, counts, error, flags, write_idx, disk, outs>>

Slot == 0 .. Pool - 1
SlotOf(n) == n % Pool
Least(a, b) == IF a <= b THEN a ELSE b

Init == /\ main = "header" /\ writer = "none"
        /\ state = [s \in Slot |-> "FREE"]
        /\ status = [s \in Slot |-> TRUE]
        /\ actual = [s \in Slot |-> 0]
        /\ real_bytes = [s \in Slot |-> 0]
        /\ buf = [s \in Slot |-> [i \in 1..Chunk |-> 0]]
        /\ file_size = 0 /\ bytes_submitted = 0 /\ bytes_received = 0
        /\ active = 0 /\ submit_count = 0 /\ next_complete = 0
        /\ error = FALSE /\ write_error = FALSE
        /\ usb_done = FALSE /\ recv_aborted = FALSE
        /\ write_idx = 0 /\ disk = << >> /\ stream = 0
        /\ gave_up = FALSE /\ ok = FALSE

-----------------------------------------------------------------------------
(* The header loop.  A peer's next frame is a session or a payload frame.  *)

\* No header before the deadline, wrong magic, an unexpected frame kind, or a
\* stray session frame whose body cannot be discarded: fail before the ring.
HeaderFails ==
    /\ main = "header"
    /\ main' = "done"
    /\ UNCHANGED <<writer, slots, file_size, counts, error, flags, write_idx, disk, outs>>

Strays(kind) == ExpectedKind = "payload" /\ kind = "session"

\* A stray session frame ahead of the payload: its body is discarded and the
\* loop reads the next header.
SkipSessionFrame(kind) ==
    /\ main = "header"
    /\ Strays(kind)
    /\ UNCHANGED vars

\* A header of the expected kind: the ring is allocated, the writer started.
AcceptHeader(kind, size) ==
    /\ main = "header"
    /\ ~Strays(kind)
    /\ ExpectedKind \in {"any", kind}
    /\ file_size' = size
    /\ main' = "submit" /\ writer' = "await"
    /\ UNCHANGED <<slots, counts, error, flags, write_idx, disk, outs>>

-----------------------------------------------------------------------------
(* try_submit: fill the window, spinning on a slot the writer still holds. *)

OverfillsWindow == active <= MaxInflight /\ bytes_submitted < file_size /\ ~error
WantsSubmit == active < MaxInflight /\ bytes_submitted < file_size /\ ~error

UncappedSize == file_size - bytes_submitted
UntrimmedSize == Chunk
SubmitSize == Least(file_size - bytes_submitted, Chunk)

NotInFlight(s) == state[s] # "IN_FLIGHT"
Reusable(s) == state[s] = "FREE"

\* A partial last chunk is received into a zeroed buffer.
Submit ==
    LET s == SlotOf(submit_count) IN
    /\ main = "submit" /\ WantsSubmit /\ Reusable(s)
    /\ real_bytes' = [real_bytes EXCEPT ![s] = SubmitSize]
    /\ buf' = IF SubmitSize < Chunk
              THEN [buf EXCEPT ![s] = [i \in 1..Chunk |-> 0]] ELSE buf
    /\ status' = [status EXCEPT ![s] = TRUE]
    /\ state' = [state EXCEPT ![s] = "IN_FLIGHT"]
    /\ bytes_submitted' = bytes_submitted + SubmitSize
    /\ submit_count' = submit_count + 1
    /\ active' = active + 1
    /\ UNCHANGED <<main, writer, actual, file_size, bytes_received, next_complete,
                   error, flags, write_idx, disk, outs>>

\* libusb_submit_transfer fails: no completion will come for this slot.
SubmitFails ==
    LET s == SlotOf(submit_count) IN
    /\ main = "submit" /\ WantsSubmit /\ Reusable(s)
    /\ real_bytes' = [real_bytes EXCEPT ![s] = SubmitSize]
    /\ buf' = IF SubmitSize < Chunk
              THEN [buf EXCEPT ![s] = [i \in 1..Chunk |-> 0]] ELSE buf
    /\ status' = [status EXCEPT ![s] = TRUE]
    /\ error' = TRUE
    /\ main' = "loop"
    /\ UNCHANGED <<writer, state, actual, file_size, counts, flags, write_idx, disk, outs>>

\* Spinning on a slot that is not FREE, main sees that the writer gave up.
SubmitSeesWriteError ==
    /\ main = "submit" /\ WantsSubmit
    /\ ~Reusable(SlotOf(submit_count))
    /\ write_error
    /\ error' = TRUE
    /\ main' = "loop"
    /\ UNCHANGED <<writer, slots, file_size, counts, flags, write_idx, disk, outs>>

SubmitDone ==
    /\ main = "submit" /\ ~WantsSubmit
    /\ main' = "loop"
    /\ UNCHANGED <<writer, slots, file_size, counts, error, flags, write_idx, disk, outs>>

-----------------------------------------------------------------------------
(* The completion loop of main.                                            *)

LeaveLoop ==
    /\ main = "loop"
    /\ bytes_received >= file_size \/ error \/ write_error
    /\ main' = "finish"
    /\ UNCHANGED <<writer, slots, file_size, counts, error, flags, write_idx, disk, outs>>

WaitSeesWriteError ==
    /\ main = "loop"
    /\ bytes_received < file_size /\ ~error
    /\ state[SlotOf(next_complete)] = "IN_FLIGHT"
    /\ write_error
    /\ error' = TRUE
    /\ main' = "finish"
    /\ UNCHANGED <<writer, slots, file_size, counts, flags, write_idx, disk, outs>>

\* The slot whose turn it is has left IN_FLIGHT: the writer may by now have
\* written and freed it, and goes on running while main accounts for it.
SlotArrived ==
    /\ main = "loop"
    /\ bytes_received < file_size /\ ~error /\ ~write_error
    /\ state[SlotOf(next_complete)] # "IN_FLIGHT"
    /\ main' = "account"
    /\ UNCHANGED <<writer, slots, file_size, counts, error, flags, write_idx, disk, outs>>

\* A completion with a status other than COMPLETED aborts the transfer.
AccountFailure ==
    LET s == SlotOf(next_complete) IN
    /\ main = "account" /\ ~status[s]
    /\ error' = TRUE
    /\ state' = [state EXCEPT ![s] = "FREE"]
    /\ main' = "finish"
    /\ UNCHANGED <<writer, status, actual, real_bytes, buf, file_size, counts,
                   flags, write_idx, disk, outs>>

Account ==
    LET s == SlotOf(next_complete)
        n == Least(actual[s], file_size - bytes_received) IN
    /\ main = "account" /\ status[s]
    /\ real_bytes' = [real_bytes EXCEPT ![s] = n]
    /\ bytes_received' = bytes_received + n
    /\ active' = active - 1
    /\ next_complete' = next_complete + 1
    /\ main' = "submit"
    /\ UNCHANGED <<writer, state, status, actual, buf, file_size, bytes_submitted,
                   submit_count, error, flags, write_idx, disk, outs>>

-----------------------------------------------------------------------------
(* Teardown: cancel and drain after a failure, then join the writer.       *)

Finish ==
    /\ main = "finish"
    /\ IF error \/ write_error
       THEN main' = "drain" /\ recv_aborted' = TRUE /\ UNCHANGED usb_done
       ELSE main' = "join" /\ usb_done' = TRUE /\ UNCHANGED recv_aborted
    /\ UNCHANGED <<writer, slots, file_size, counts, error, write_error, write_idx, disk, outs>>

OneIdle == state[SlotOf(next_complete)] # "IN_FLIGHT"
Idle == \A s \in Slot : state[s] # "IN_FLIGHT"

Drained ==
    /\ main = "drain" /\ Idle
    /\ main' = "join" /\ usb_done' = TRUE
    /\ UNCHANGED <<writer, slots, file_size, counts, error, write_error, recv_aborted,
                   write_idx, disk, outs>>

\* 2 s have passed; the transfers are freed although some are still pending.
DrainGivesUp ==
    /\ main = "drain" /\ Wedged /\ ~Idle
    /\ main' = "join" /\ usb_done' = TRUE /\ gave_up' = TRUE
    /\ UNCHANGED <<writer, slots, file_size, counts, error, write_error, recv_aborted,
                   write_idx, disk, stream, ok>>

OverlooksWriter == ~error /\ bytes_received = file_size
Succeeded == ~error /\ ~write_error /\ bytes_received = file_size

Join ==
    /\ main = "join" /\ writer = "exit"
    /\ ok' = Succeeded
    /\ main' = "done"
    /\ UNCHANGED <<writer, slots, file_size, counts, error, flags, write_idx, disk,
                   stream, gave_up>>

-----------------------------------------------------------------------------
(* libusb.  Events are handled only while main waits on an IN_FLIGHT slot  *)
(* or drains.  The host controller fills the queued transfers in order.    *)

HandlingEvents ==
    \/ main = "loop" /\ ~error /\ bytes_received < file_size
       /\ state[SlotOf(next_complete)] = "IN_FLIGHT"
    \/ main = "drain"

InFlight == {k \in next_complete .. submit_count - 1 : state[SlotOf(k)] = "IN_FLIGHT"}

\* The lengths a successful IN transfer may have: all of the chunk, or what is
\* left of the file when the sender does not pad its last transfer.  With
\* ShortReads, any length.
Lengths == IF ShortReads THEN 0..Chunk
           ELSE {Chunk, IF stream < file_size THEN Least(file_size - stream, Chunk) ELSE Chunk}

Received(k) == IF k <= file_size THEN k ELSE 0

Complete(k, n) ==
    LET s == SlotOf(k) IN
    /\ HandlingEvents /\ k \in InFlight
    /\ \A j \in InFlight : k <= j
    /\ n \in Lengths
    /\ buf' = [buf EXCEPT ![s] =
                  [i \in 1..Chunk |-> IF i <= n THEN Received(stream + i) ELSE buf[s][i]]]
    /\ stream' = stream + n
    /\ actual' = [actual EXCEPT ![s] = n]
    /\ status' = [status EXCEPT ![s] = TRUE]
    /\ state' = [state EXCEPT ![s] = "READY"]
    /\ UNCHANGED <<main, writer, real_bytes, file_size, counts, error, flags, write_idx,
                   disk, gave_up, ok>>

\* TIMED_OUT, NO_DEVICE, CANCELLED, ...: ring_cb marks the slot READY all the same.
CompleteBadly(k) ==
    LET s == SlotOf(k) IN
    /\ HandlingEvents /\ k \in InFlight
    /\ actual' = [actual EXCEPT ![s] = 0]
    /\ status' = [status EXCEPT ![s] = FALSE]
    /\ state' = [state EXCEPT ![s] = "READY"]
    /\ UNCHANGED <<main, writer, real_bytes, buf, file_size, counts, error, flags,
                   write_idx, disk, outs>>

-----------------------------------------------------------------------------
(* The writer thread.                                                      *)

IgnoresAbort == usb_done /\ write_idx >= submit_count
NothingToCome == recv_aborted \/ (usb_done /\ write_idx >= submit_count)

WriterExits ==
    /\ writer = "await"
    /\ state[SlotOf(write_idx)] # "READY"
    /\ NothingToCome
    /\ writer' = "exit"
    /\ UNCHANGED <<main, slots, file_size, counts, error, flags, write_idx, disk, outs>>

WriterTakes ==
    /\ writer = "await"
    /\ state[SlotOf(write_idx)] = "READY"
    /\ writer' = "write"
    /\ UNCHANGED <<main, slots, file_size, counts, error, flags, write_idx, disk, outs>>

\* real_bytes is read here: main may or may not have corrected it by now.
WriterWrites ==
    LET s == SlotOf(write_idx) IN
    /\ writer = "write"
    /\ disk' = disk \o SubSeq(buf[s], 1, real_bytes[s])
    /\ state' = [state EXCEPT ![s] = "FREE"]
    /\ write_idx' = write_idx + 1
    /\ writer' = "await"
    /\ UNCHANGED <<main, status, actual, real_bytes, buf, file_size, counts, error,
                   flags, outs>>

\* A failed write raises write_error first and frees the slot in a second store.
WriterFails ==
    /\ writer = "write" /\ real_bytes[SlotOf(write_idx)] > 0
    /\ write_error' = TRUE
    /\ writer' = "giveup"
    /\ UNCHANGED <<main, slots, file_size, counts, error, usb_done, recv_aborted,
                   write_idx, disk, outs>>

WriterGivesUp ==
    /\ writer = "giveup"
    /\ state' = [state EXCEPT ![SlotOf(write_idx)] = "FREE"]
    /\ writer' = "exit"
    /\ UNCHANGED <<main, status, actual, real_bytes, buf, file_size, counts, error,
                   flags, write_idx, disk, outs>>

-----------------------------------------------------------------------------
Header == \/ HeaderFails
          \/ \E kind \in {"session", "payload"} : \E size \in FileSizes :
                 SkipSessionFrame(kind) \/ AcceptHeader(kind, size)
Main == \/ Header \/ Submit \/ SubmitFails \/ SubmitSeesWriteError \/ SubmitDone
        \/ LeaveLoop \/ WaitSeesWriteError \/ SlotArrived \/ Account \/ AccountFailure
        \/ Finish \/ Drained \/ DrainGivesUp \/ Join
Usb == \E k \in next_complete .. submit_count - 1 :
          CompleteBadly(k) \/ \E n \in 0..Chunk : Complete(k, n)
Writer == WriterExits \/ WriterTakes \/ WriterWrites \/ WriterFails \/ WriterGivesUp

\* The call has returned and the writer is joined.
Returned == main = "done" /\ UNCHANGED vars

Next == Main \/ Usb \/ Writer \/ Returned

\* Both threads are scheduled, and libusb completes every transfer it holds:
\* each is submitted with payload_timeout_ms().  In the drain that is only so
\* while the device is not wedged, but then the drain is bounded.
Spec == Init /\ [][Next]_vars /\ WF_vars(Main) /\ WF_vars(Usb) /\ WF_vars(Writer)

-----------------------------------------------------------------------------
(* Properties.                                                             *)

\* Every variable has its type; a slot never claims more than a chunk.
TypeOK ==
    /\ main \in {"header", "submit", "loop", "account", "finish", "drain", "join", "done"}
    /\ writer \in {"none", "await", "write", "giveup", "exit"}
    /\ state \in [Slot -> {"FREE", "IN_FLIGHT", "READY"}]
    /\ status \in [Slot -> BOOLEAN]
    /\ actual \in [Slot -> 0..Chunk]
    /\ real_bytes \in [Slot -> 0..Chunk]
    /\ buf \in [Slot -> [1..Chunk -> Nat]]
    /\ file_size \in Nat
    /\ bytes_submitted \in 0..file_size
    /\ bytes_received \in 0..file_size
    /\ active \in Int /\ active <= MaxInflight
    /\ submit_count \in Nat /\ next_complete \in Nat /\ write_idx \in Nat
    /\ error \in BOOLEAN /\ write_error \in BOOLEAN
    /\ usb_done \in BOOLEAN /\ recv_aborted \in BOOLEAN
    /\ disk \in Seq(Nat) /\ stream \in Nat
    /\ gave_up \in BOOLEAN /\ ok \in BOOLEAN

\* A receive is a FileTransfer whose output is the file on disk.  Its success has
\* handed exactly the announced file, in order, to out_file: TransferResult.ok is
\* what finish_transfer and the user see, and nothing downstream compares the file
\* with the peer's.  Nothing is written once the call has returned.
Transfer == INSTANCE FileTransfer WITH
    Sizes <- FileSizes, size <- file_size, fabric <- stream, out <- disk,
    progress <- bytes_received,
    result <- IF main # "done" THEN "none" ELSE IF ok THEN "ok" ELSE "failed"
ImplementsTransfer == Transfer!Spec

\* "A slot cannot be reused until the writer marks it FREE": while the disk is
\* sound, main is never more than one lap of the ring ahead of the writer, and
\* never submits a slot it has not yet accounted for.
NoReuseBeforeWrite == /\ ~write_error => submit_count <= write_idx + Pool
                      /\ submit_count <= next_complete + Pool

\* No libusb_transfer is freed while libusb still holds it, unless the 2 s
\* drain gave up on a wedged device.
FreedTransfersIdle ==
    main \in {"join", "done"} => gave_up \/ \A s \in Slot : state[s] # "IN_FLIGHT"

\* The writer reads real_bytes without waiting for main's correction of it; the
\* race is benign as long as the correction never changes the value.
CorrectionIsNoop == [][main = "account" => real_bytes' = real_bytes]_vars

\* main's books agree with libusb's: it accounts only for slots it submitted,
\* never for more bytes than it asked for, and never holds more transfers than
\* the usbfs budget (effective_queue_depth) allows.
BooksBalance == /\ active = submit_count - next_complete
                /\ next_complete <= submit_count
                /\ bytes_received <= bytes_submitted
                /\ Cardinality({s \in Slot : state[s] = "IN_FLIGHT"}) <= MaxInflight

\* receive_file_core returns: no submit spin, completion wait, drain or join
\* waits for something that cannot come.
Returns == <>(main = "done")
=============================================================================
