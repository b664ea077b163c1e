------------------------------ MODULE SendQueue ------------------------------
(***************************************************************************)
(* send_file_core (core/src/usb_transfer_core.cpp): the bulk-OUT side of   *)
(* one transfer.  One thread reads the file into a queue of transfers and  *)
(* keeps at most MaxInflight of them submitted; queued_cb runs while that  *)
(* thread is inside libusb_handle_events_timeout, so any set of transfers  *)
(* may have completed by the time it scans the queue.                      *)
(*                                                                         *)
(* Bytes are small units as in RecvRing: the i-th unit of the file is the  *)
(* number i, and wire is what left the host, in order.                     *)
(***************************************************************************)
EXTENDS Integers, Sequences, FiniteSets

CONSTANTS
    Depth,          \* usb_protocol::kQueueDepth, entries of the queue
    MaxInflight,    \* effective_queue_depth()
    Chunk,          \* usb_protocol::kChunkSize, in units
    FileSizes       \* sizes of the file when it is opened

ASSUME SendAssumption == /\ Depth \in Nat \ {0}
                         /\ MaxInflight \in 1..Depth
                         /\ Chunk \in Nat \ {0}
                         /\ FileSizes \subseteq Nat

VARIABLES
    pc,             \* control point of send_file_core
    file_size,
    truncated,      \* the file turned out shorter than it was when opened
    in_flight, completed, status,   \* QueuedXfr fields
    data,           \* QueuedXfr::buf[0..valid_bytes): the units of the file in it
    order,          \* entries libusb holds, in the order they were submitted
    scan,           \* position of the range-for over the queue
    bytes_read, bytes_sent, active, disk_done, error,
    wire,
    ok              \* TransferResult::ok

xfrs  == <<in_flight, completed, status, data>>
sums  == <<bytes_read, bytes_sent, active, disk_done>>
vars  == <<pc, file_size, truncated, xfrs, order, scan, sums, error, wire, ok>>

Entry == 0 .. Depth - 1
Least(a, b) == IF a <= b THEN a ELSE b
Units(from, n) == [i \in 1..n |-> from + i]

Init == /\ pc = "header"
        /\ file_size \in FileSizes /\ truncated = FALSE
        /\ in_flight = [q \in Entry |-> FALSE] /\ completed = [q \in Entry |-> FALSE]
        /\ status = [q \in Entry |-> TRUE] /\ data = [q \in Entry |-> << >>]
        /\ order = << >> /\ scan = 0
        /\ bytes_read = 0 /\ bytes_sent = 0 /\ active = 0 /\ disk_done = FALSE
        /\ error = FALSE /\ wire = << >> /\ ok = FALSE

\* bulk_write_all of the 32-byte header.
SendHeader ==
    /\ pc = "header"
    /\ pc' = "prime" /\ scan' = 0
    /\ UNCHANGED <<file_size, truncated, xfrs, order, sums, error, wire, ok>>

HeaderFails ==
    /\ pc = "header"
    /\ pc' = "done"
    /\ UNCHANGED <<file_size, truncated, xfrs, order, scan, sums, error, wire, ok>>

-----------------------------------------------------------------------------
(* submit_next(q), called while priming the queue and for each completion. *)

NothingLeft == disk_done' = TRUE /\ UNCHANGED <<truncated, xfrs, order, bytes_read, active, error>>

\* n units are read; fewer than wanted only at the end of a truncated file.
\* The transfer is as long as what was read: it is not padded to Chunk.
ReadAndSubmit(q, n) ==
    /\ ~truncated
    /\ n \in 1 .. Least(file_size - bytes_read, Chunk)
    /\ truncated' = (n < Least(file_size - bytes_read, Chunk))
    /\ data' = [data EXCEPT ![q] = Units(bytes_read, n)]
    /\ completed' = [completed EXCEPT ![q] = FALSE]
    /\ in_flight' = [in_flight EXCEPT ![q] = TRUE]
    /\ order' = Append(order, q)
    /\ bytes_read' = bytes_read + n
    /\ disk_done' = (bytes_read + n >= file_size)
    /\ active' = active + 1
    /\ UNCHANGED <<status, error>>

\* The disk read yields nothing, or libusb_submit_transfer refuses.
ReadFails == error' = TRUE /\ UNCHANGED <<truncated, xfrs, order, bytes_read, active, disk_done>>

StaysInFlight == TRUE
InFlightOnceRefused == FALSE

SubmitFails(q) ==
    /\ ~truncated
    /\ data' = [data EXCEPT ![q] = Units(bytes_read, Least(file_size - bytes_read, Chunk))]
    /\ completed' = [completed EXCEPT ![q] = FALSE]
    /\ in_flight' = [in_flight EXCEPT ![q] = InFlightOnceRefused]
    /\ error' = TRUE
    /\ UNCHANGED <<truncated, status, order, bytes_read, active, disk_done>>

SubmitNext(q) ==
    IF bytes_read = file_size
    THEN NothingLeft
    ELSE \/ \E n \in 1..Chunk : ReadAndSubmit(q, n)
         \/ ReadFails
         \/ SubmitFails(q)

Primes == scan < MaxInflight /\ ~disk_done /\ ~error

Prime ==
    /\ pc = "prime" /\ Primes
    /\ SubmitNext(scan)
    /\ scan' = scan + 1
    /\ UNCHANGED <<pc, file_size, bytes_sent, wire, ok>>

Primed ==
    /\ pc = "prime" /\ ~Primes
    /\ pc' = "loop"
    /\ UNCHANGED <<file_size, truncated, xfrs, order, scan, sums, error, wire, ok>>

-----------------------------------------------------------------------------
(* libusb: the endpoint sends the queued transfers in order.               *)

HandlingEvents == pc \in {"events", "drain"}

Sent == /\ HandlingEvents /\ order # << >>
        /\ LET q == order[1] IN
           /\ wire' = wire \o data[q]
           /\ status' = [status EXCEPT ![q] = TRUE]
           /\ completed' = [completed EXCEPT ![q] = TRUE]
           /\ in_flight' = [in_flight EXCEPT ![q] = FALSE]
        /\ order' = Tail(order)
        /\ UNCHANGED <<pc, file_size, truncated, data, scan, sums, error, ok>>

\* TIMED_OUT, NO_DEVICE, CANCELLED, ...; the oldest may have been sent in part.
SendBreaks(i, n) ==
    /\ HandlingEvents /\ i \in 1..Len(order)
    /\ n \in 0 .. (IF i = 1 THEN Len(data[order[i]]) ELSE 0)
    /\ LET q == order[i] IN
       /\ wire' = wire \o SubSeq(data[q], 1, n)
       /\ status' = [status EXCEPT ![q] = FALSE]
       /\ completed' = [completed EXCEPT ![q] = TRUE]
       /\ in_flight' = [in_flight EXCEPT ![q] = FALSE]
    /\ order' = SubSeq(order, 1, i - 1) \o SubSeq(order, i + 1, Len(order))
    /\ UNCHANGED <<pc, file_size, truncated, data, scan, sums, error, ok>>

-----------------------------------------------------------------------------
(* The completion loop.                                                    *)

HandleEvents ==
    /\ pc = "loop" /\ active > 0 /\ ~error
    /\ pc' = "events"
    /\ UNCHANGED <<file_size, truncated, xfrs, order, scan, sums, error, wire, ok>>

\* libusb_handle_events_timeout returns.
EventsHandled ==
    /\ pc = "events" /\ \E q \in Entry : completed[q]
    /\ pc' = "scan" /\ scan' = 0
    /\ UNCHANGED <<file_size, truncated, xfrs, order, sums, error, wire, ok>>

ScanSkips ==
    /\ pc = "scan" /\ scan < Depth /\ ~completed[scan]
    /\ scan' = scan + 1
    /\ UNCHANGED <<pc, file_size, truncated, xfrs, order, sums, error, wire, ok>>

AnyStatus(q) == TRUE
Completed(q) == status[q]

NotCounted == active
Counted == active - 1

\* A bad status ends the scan; the entries behind it are left to the drain.
ScanFails ==
    /\ pc = "scan" /\ scan < Depth /\ completed[scan] /\ ~Completed(scan)
    /\ completed' = [completed EXCEPT ![scan] = FALSE]
    /\ active' = Counted
    /\ error' = TRUE
    /\ pc' = "loop"
    /\ UNCHANGED <<file_size, truncated, in_flight, status, data, order, scan,
                   bytes_read, bytes_sent, disk_done, wire, ok>>

CreditWholeChunk(q) == Chunk
Credit(q) == Len(data[q])

\* A good completion is credited and, with more file to read, the entry reused.
ScanCredits ==
    /\ pc = "scan" /\ scan < Depth /\ completed[scan] /\ Completed(scan)
    /\ bytes_sent' = bytes_sent + Credit(scan)
    /\ completed' = [completed EXCEPT ![scan] = FALSE]
    /\ active' = active - 1
    /\ pc' = IF disk_done \/ error THEN "scan" ELSE "refill"
    /\ scan' = IF disk_done \/ error THEN scan + 1 ELSE scan
    /\ UNCHANGED <<file_size, truncated, in_flight, status, data, order,
                   bytes_read, disk_done, error, wire, ok>>

Refill ==
    /\ pc = "refill"
    /\ SubmitNext(scan)
    /\ pc' = "scan" /\ scan' = scan + 1
    /\ UNCHANGED <<file_size, bytes_sent, wire, ok>>

ScanEnds ==
    /\ pc = "scan" /\ scan >= Depth
    /\ pc' = "loop"
    /\ UNCHANGED <<file_size, truncated, xfrs, order, scan, sums, error, wire, ok>>

-----------------------------------------------------------------------------
(* After the loop: cancel and drain on an error, free everything, report.  *)

LeaveLoop ==
    /\ pc = "loop" /\ (active <= 0 \/ error)
    /\ pc' = IF error THEN "drain" ELSE "free"
    /\ UNCHANGED <<file_size, truncated, xfrs, order, scan, sums, error, wire, ok>>

DrainCounts(q) ==
    /\ pc = "drain" /\ active > 0 /\ completed[q]
    /\ completed' = [completed EXCEPT ![q] = FALSE]
    /\ active' = active - 1
    /\ UNCHANGED <<pc, file_size, truncated, in_flight, status, data, order, scan,
                   bytes_read, bytes_sent, disk_done, error, wire, ok>>

DrainedAll == active <= 0

Drained ==
    /\ pc = "drain" /\ DrainedAll
    /\ pc' = "free"
    /\ UNCHANGED <<file_size, truncated, xfrs, order, scan, sums, error, wire, ok>>

Finish ==
    /\ pc = "free"
    /\ ok' = (~error /\ bytes_sent = file_size)
    /\ pc' = "done"
    /\ UNCHANGED <<file_size, truncated, xfrs, order, scan, sums, error, wire>>

Send == \/ SendHeader \/ HeaderFails \/ Prime \/ Primed
        \/ HandleEvents \/ EventsHandled
        \/ ScanSkips \/ ScanFails \/ ScanCredits \/ Refill \/ ScanEnds
        \/ LeaveLoop \/ Drained \/ Finish
        \/ \E q \in Entry : DrainCounts(q)
Usb == Sent \/ \E i \in 1..Depth : \E n \in 0..Chunk : SendBreaks(i, n)
Returned == pc = "done" /\ UNCHANGED vars

Next == Send \/ Usb \/ Returned

\* The thread is scheduled, and libusb completes every transfer it holds: each
\* was submitted with a timeout, or is cancelled.
Spec == Init /\ [][Next]_vars /\ WF_vars(Send) /\ WF_vars(Usb)

-----------------------------------------------------------------------------
(* Properties.                                                             *)

\* Every variable has its type; the books never leave the file.
TypeOK ==
    /\ pc \in {"header", "prime", "loop", "events", "scan", "refill", "drain", "free", "done"}
    /\ file_size \in Nat /\ truncated \in BOOLEAN
    /\ in_flight \in [Entry -> BOOLEAN] /\ completed \in [Entry -> BOOLEAN]
    /\ status \in [Entry -> BOOLEAN]
    /\ \A q \in Entry : data[q] \in Seq(1..file_size) /\ Len(data[q]) <= Chunk
    /\ order \in Seq(Entry) /\ scan \in 0..Depth
    /\ bytes_read \in 0..file_size /\ bytes_sent \in 0..bytes_read
    /\ active \in 0..MaxInflight
    /\ disk_done \in BOOLEAN /\ error \in BOOLEAN /\ ok \in BOOLEAN
    /\ wire \in Seq(1..file_size)

\* A send is a FileTransfer whose output is the wire.  Its success has put the whole
\* file there, each unit once and in order, however the completions were batched and
\* the entries reused, and its progress is never ahead of what the fabric has taken.
Transfer == INSTANCE FileTransfer WITH
    Sizes <- FileSizes, size <- file_size, fabric <- Len(wire), out <- wire,
    progress <- bytes_sent,
    result <- IF pc # "done" THEN "none" ELSE IF ok THEN "ok" ELSE "failed"
ImplementsTransfer == Transfer!Spec

\* active counts exactly the transfers libusb holds and the completions not yet
\* looked at; so at the end no transfer is freed while libusb still holds it.
ActiveIsExact == active = Cardinality({q \in Entry : in_flight[q] \/ completed[q]})

\* The queue at any time: types, and books that agree with libusb's.
QueueOK == TypeOK /\ ActiveIsExact

\* send_file_core returns: the drain, which has no time limit, ends once libusb
\* has answered every cancel.
Returns == <>(pc = "done")
=============================================================================
