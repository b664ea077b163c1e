---------------------------- MODULE CrossConnect ----------------------------
(***************************************************************************)
(* loopback_transfer_core and its engine file_cross_connect_core           *)
(* (core/src/usb_transfer_core.cpp).  The calling thread opens both cables *)
(* and passes a header from one to the other; then a reader thread fills   *)
(* slots from the input file, the calling thread sends a slot on one cable *)
(* and receives it on the other, a writer thread writes what was received. *)
(* At the end the copy is compared with the file, and removed.  There are  *)
(* two slots, used alternately by each thread, each with one mutex and one *)
(* condition variable.                                                     *)
(*                                                                         *)
(* A thread blocked in cv.wait evaluates its predicate again only when it  *)
(* is notified, so a thread that found it false is "asleep" until some     *)
(* thread calls notify_all on that slot.  (Spurious wake-ups are allowed   *)
(* by C++ but promised by nobody.)                                         *)
(*                                                                         *)
(* The buffers of a slot are used outside its mutex, and main waits only   *)
(* for "filled": it may send a slot again that the writer has not emptied, *)
(* and the buffers are then overwritten while another thread reads them.   *)
(* A buffer being overwritten holds 0, which is a unit of no file, where   *)
(* the new data goes; so a reader in between may find the old data, the    *)
(* new, or a mixture.                                                      *)
(*                                                                         *)
(* The i-th unit of the file is the number i.                              *)
(***************************************************************************)
EXTENDS Naturals, Sequences

CONSTANTS
    FileSizes,      \* sizes of the file, in units
    Chunk,          \* units in kChunkSize
    MaxOpenAttempts,    \* max_open_attempts
    Failures,       \* what may go wrong: subset of Failure
    MaxLaps         \* bound on laps

\* "short": an IN transfer completes with fewer bytes than were sent.
Failure == {"open", "header", "read", "usb", "short", "write"}

ASSUME SizesAssumption == FileSizes \subseteq Nat /\ Chunk \in Nat \ {0}
ASSUME FailuresAssumption == Failures \subseteq Failure
ASSUME BoundsAssumption == MaxOpenAttempts \in Nat \ {0} /\ MaxLaps \in Nat

VARIABLES
    handles,        \* ports of which the interface is claimed
    attempt,        \* failed attempts to open the present port
    recv_path,      \* whether the copy, the file recv_path, is on the disk
    file_size,
    pc,             \* control point of each thread
    at,             \* slot_idx of each thread
    tx_buf, rx_buf, tx_bytes, rx_bytes,
    filled, usb_done, eof,
    transfer_error,
    len, rx_actual, \* of usb_transfer_chunk: length asked for, and received
    bytes_read, bytes_written, total_bytes_done,
    out_file,       \* units written to the output file
    ok,             \* TransferResult::ok
    laps,           \* history: transfers main began of a slot it had transferred
                    \* and the writer had not given back
    short           \* history: whether an IN transfer completed short

bufs  == <<tx_buf, rx_buf, tx_bytes, rx_bytes>>
marks == <<filled, usb_done, eof>>
call  == <<len, rx_actual>>
sums  == <<bytes_read, bytes_written, total_bytes_done>>
past  == <<laps, short>>
ports == <<handles, attempt, recv_path, file_size>>
slots == <<at, bufs, marks, transfer_error, call, sums, out_file, past>>
vars  == <<ports, pc, slots, ok>>

Thread == {"reader", "main", "writer"}
Slot == {0, 1}
Port == {"send_port", "recv_port"}

Torn == [i \in 1..Chunk |-> 0]

Init == /\ handles = {} /\ attempt = 0 /\ recv_path = FALSE
        /\ file_size \in FileSizes
        /\ pc = [t \in Thread |-> IF t = "main" THEN "devices" ELSE "unborn"]
        /\ at = [t \in Thread |-> 0]
        /\ tx_buf = [s \in Slot |-> Torn] /\ rx_buf = [s \in Slot |-> Torn]
        /\ tx_bytes = [s \in Slot |-> 0] /\ rx_bytes = [s \in Slot |-> 0]
        /\ filled = [s \in Slot |-> FALSE]
        /\ usb_done = [s \in Slot |-> FALSE]
        /\ eof = [s \in Slot |-> FALSE]
        /\ transfer_error = FALSE
        /\ len = 0 /\ rx_actual = 0
        /\ bytes_read = 0 /\ bytes_written = 0 /\ total_bytes_done = 0
        /\ out_file = << >> /\ ok = FALSE
        /\ laps = 0 /\ short = FALSE

Goto(t, l) == pc' = [pc EXCEPT ![t] = l]

\* slot.cv.notify_all() by thread t, which itself moves on to l.
NotifyNone(t, l, s) == Goto(t, l)
NotifyAll(t, l, s) ==
    pc' = [u \in Thread |-> IF u = t THEN l
                            ELSE IF pc[u] = "asleep" /\ at[u] = s THEN "wait" ELSE pc[u]]

StepOn(t) == at' = [at EXCEPT ![t] = 1 + @]
Flip(t) == at' = [at EXCEPT ![t] = 1 - @]

\* The wait predicates.  Only the reader's ignores transfer_error.
ReaderMayGo == ~filled[at["reader"]]
WriterGoesWhenFilled == filled[at["writer"]] \/ transfer_error
WriterMayGo == usb_done[at["writer"]] \/ transfer_error
MainMayGo   == filled[at["main"]] \/ transfer_error
MayGo(t) == CASE t = "reader" -> ReaderMayGo
              [] t = "writer" -> WriterMayGo
              [] t = "main"   -> MainMayGo

-----------------------------------------------------------------------------
(* Before the threads: two devices, both ports, one header across.         *)

\* loopback_transfer_core: two devices are listed, and the engine creates the
\* copy, or the call ends at once.
TwoDevices == /\ pc["main"] = "devices"
              /\ recv_path' = TRUE
              /\ Goto("main", "send_port")
              /\ UNCHANGED <<handles, attempt, file_size, slots, ok>>
TooFewDevices == /\ pc["main"] = "devices" /\ "open" \in Failures
                 /\ Goto("main", "refused")
                 /\ UNCHANGED <<ports, slots, ok>>

\* open_device_by_index.  The second port is tried whatever became of the first.
Opened == /\ attempt' = 0
          /\ Goto("main", IF pc["main"] = "send_port" THEN "recv_port" ELSE "header")
          /\ UNCHANGED <<recv_path, file_size, slots, ok>>

PortOpens(p) == /\ pc["main"] = p
                /\ handles' = handles \cup {p}
                /\ Opened
\* LIBUSB_ERROR_BUSY is tried again; the last attempt is a failure.
PortBusy(p) == /\ pc["main"] = p /\ "open" \in Failures
               /\ attempt + 1 < MaxOpenAttempts
               /\ attempt' = attempt + 1
               /\ UNCHANGED <<handles, recv_path, file_size, pc, slots, ok>>
PortFails(p) == /\ pc["main"] = p /\ "open" \in Failures
                /\ Opened
                /\ UNCHANGED handles

OpenPort == \E p \in Port : PortOpens(p) \/ PortBusy(p) \/ PortFails(p)

\* What every way out of the engine does; loopback_transfer_core then removes
\* the copy of a failed run.
Close == handles' = {} /\ UNCHANGED <<attempt, file_size>>

HeaderCrosses == /\ pc["main"] = "header" /\ handles = Port
                 /\ pc' = [t \in Thread |-> "head"]
                 /\ UNCHANGED <<ports, slots, ok>>
HeaderFails == /\ pc["main"] = "header"
               /\ handles # Port \/ "header" \in Failures
               /\ Close /\ recv_path' = FALSE
               /\ Goto("main", "refused")
               /\ UNCHANGED <<slots, ok>>

Prologue == TwoDevices \/ TooFewDevices \/ OpenPort \/ HeaderCrosses \/ HeaderFails

-----------------------------------------------------------------------------
\* The head of each thread's loop.
Continues(t) == /\ ~transfer_error
                /\ t = "reader" => bytes_read < file_size
                /\ t = "writer" => bytes_written < file_size

LoopHead(t) ==
    /\ pc[t] = "head"
    /\ Goto(t, IF Continues(t) THEN "wait" ELSE "exit")
    /\ UNCHANGED <<ports, slots, ok>>

Sleep(t) ==
    /\ pc[t] = "wait" /\ ~MayGo(t)
    /\ Goto(t, "asleep")
    /\ UNCHANGED <<ports, slots, ok>>

\* The predicate holds; main and the writer leave on transfer_error.
Leaves(t) == t # "reader" /\ transfer_error
Go(t) == /\ pc[t] = "wait" /\ MayGo(t)
         /\ Goto(t, IF Leaves(t) THEN "exit" ELSE "busy")

\* buf when new has gone over its first n units.
Over(buf, n, new) == [i \in 1..Chunk |-> IF i <= n THEN new[i] ELSE buf[i]]

-----------------------------------------------------------------------------
(* The reader.                                                             *)

to_read == IF file_size - bytes_read < Chunk THEN file_size - bytes_read ELSE Chunk

ReaderStarts ==
    LET s == at["reader"] IN
    /\ Go("reader")
    /\ tx_buf' = [tx_buf EXCEPT ![s] = Over(@, to_read, Torn)]
    /\ UNCHANGED <<ports, at, rx_buf, tx_bytes, rx_bytes, marks, transfer_error, call, sums,
                   out_file, ok, past>>

ReaderFills ==
    LET s == at["reader"]
        new == [i \in 1..Chunk |-> bytes_read + i] IN
    /\ pc["reader"] = "busy"
    /\ bytes_read' = bytes_read + to_read
    /\ tx_buf' = [tx_buf EXCEPT ![s] = Over(@, to_read, new)]
    /\ tx_bytes' = [tx_bytes EXCEPT ![s] = to_read]
    /\ filled' = [filled EXCEPT ![s] = TRUE]
    /\ usb_done' = [usb_done EXCEPT ![s] = FALSE]
    /\ eof' = [eof EXCEPT ![s] = bytes_read + to_read >= file_size]
    /\ NotifyAll("reader", "head", s) /\ Flip("reader")
    /\ UNCHANGED <<ports, rx_buf, rx_bytes, transfer_error, call, bytes_written,
                   total_bytes_done, out_file, ok, past>>

\* in_file.read fails: nobody is notified.
ReaderFails ==
    /\ pc["reader"] = "busy" /\ "read" \in Failures
    /\ transfer_error' = TRUE
    /\ Goto("reader", "exit")
    /\ UNCHANGED <<ports, at, bufs, marks, call, sums, out_file, ok, past>>

-----------------------------------------------------------------------------
(* The calling thread.  usb_transfer_chunk sends tx_buf and receives into  *)
(* rx_buf.                                                                 *)

\* main goes on whenever the slot is filled, whether the writer has emptied it or not.
MainStarts ==
    LET lap == usb_done[at["main"]] /\ ~transfer_error IN
    /\ Go("main")
    /\ lap => laps < MaxLaps
    /\ laps' = IF lap THEN laps + 1 ELSE laps
    /\ UNCHANGED <<ports, at, bufs, marks, transfer_error, call, sums, out_file, ok, short>>

MainSubmits ==
    LET s == at["main"] IN
    /\ pc["main"] = "busy"
    /\ len' = tx_bytes[s] /\ rx_actual' = 0
    /\ rx_buf' = [rx_buf EXCEPT ![s] = Over(@, tx_bytes[s], Torn)]
    /\ Goto("main", "moving")
    /\ UNCHANGED <<ports, at, tx_buf, tx_bytes, rx_bytes, marks, transfer_error, sums,
                   out_file, ok, past>>

\* libusb_submit_transfer fails unnoticed: no callback ever sets done and
\* usb_transfer_chunk polls for ever.
MainTransferHangs ==
    /\ pc["main"] = "busy" /\ "usb" \in Failures
    /\ Goto("main", "polling")
    /\ UNCHANGED <<ports, slots, ok>>

\* Both transfers are COMPLETED, which says nothing of the length received.
Received == IF "short" \in Failures THEN 0..len ELSE {len}

MainTransfers ==
    LET s == at["main"] IN
    /\ pc["main"] = "moving"
    /\ rx_actual' \in Received
    /\ rx_buf' = [rx_buf EXCEPT ![s] = Over(@, rx_actual', tx_buf[s])]
    /\ short' = (short \/ rx_actual' < len)
    /\ Goto("main", "moved")
    /\ UNCHANGED <<ports, at, tx_buf, tx_bytes, rx_bytes, marks, transfer_error, len, sums,
                   out_file, ok, laps>>

MainTransferFails ==
    LET s == at["main"] IN
    /\ pc["main"] = "moving" /\ "usb" \in Failures
    /\ transfer_error' = TRUE
    /\ usb_done' = [usb_done EXCEPT ![s] = TRUE]
    /\ NotifyAll("main", "exit", s)
    /\ UNCHANGED <<ports, at, bufs, filled, eof, call, sums, out_file, ok, past>>

\* all_done = slot.eof, read without the mutex.
AllDone(s) == eof[s]
MainLooks ==
    /\ pc["main"] = "moved"
    /\ Goto("main", IF AllDone(at["main"]) THEN "last" ELSE "post")
    /\ UNCHANGED <<ports, slots, ok>>

MainPosts ==
    LET s == at["main"] IN
    /\ pc["main"] \in {"post", "last"}
    /\ rx_bytes' = [rx_bytes EXCEPT ![s] = rx_actual]
    /\ usb_done' = [usb_done EXCEPT ![s] = TRUE]
    /\ total_bytes_done' = total_bytes_done + rx_actual
    /\ rx_actual' = 0
    /\ NotifyAll("main", IF pc["main"] = "last" THEN "exit" ELSE "head", s) /\ Flip("main")
    /\ UNCHANGED <<ports, tx_buf, rx_buf, tx_bytes, filled, eof, transfer_error, len,
                   bytes_read, bytes_written, out_file, ok, past>>

-----------------------------------------------------------------------------
(* The writer.                                                             *)

WriterStarts == Go("writer") /\ UNCHANGED <<ports, slots, ok>>

WriterWrites ==
    LET s == at["writer"] IN
    /\ pc["writer"] = "busy"
    /\ out_file' = out_file \o [i \in 1..rx_bytes[s] |-> rx_buf[s][i]]
    /\ Goto("writer", "count")
    /\ UNCHANGED <<ports, at, bufs, marks, transfer_error, call, sums, ok, past>>

\* out_file is not good: nobody is notified.
WriterFails ==
    /\ pc["writer"] = "busy" /\ "write" \in Failures
    /\ transfer_error' = TRUE
    /\ Goto("writer", "exit")
    /\ UNCHANGED <<ports, at, bufs, marks, call, sums, out_file, ok, past>>

\* rx_bytes is read again, still without the mutex.
WriterCounts ==
    /\ pc["writer"] = "count"
    /\ bytes_written' = bytes_written + rx_bytes[at["writer"]]
    /\ Goto("writer", "post")
    /\ UNCHANGED <<ports, at, bufs, marks, transfer_error, call, bytes_read,
                   total_bytes_done, out_file, ok, past>>

KeepsUsbDone(s) == UNCHANGED usb_done
ClearsUsbDone(s) == usb_done' = [usb_done EXCEPT ![s] = FALSE]

WriterFrees ==
    LET s == at["writer"] IN
    /\ pc["writer"] = "post"
    /\ filled' = [filled EXCEPT ![s] = FALSE]
    /\ ClearsUsbDone(s)
    /\ NotifyAll("writer", "head", s) /\ Flip("writer")
    /\ UNCHANGED <<ports, bufs, eof, transfer_error, call, sums, out_file, ok, past>>

-----------------------------------------------------------------------------
(* main joins the reader, then the writer, and builds the result; then     *)
(* loopback_transfer_core compares the copy with the file.                 *)

Succeeded == ~transfer_error /\ total_bytes_done = file_size

ReaderJoined == pc["main"] = "exit" /\ pc["reader"] = "exit"
AllJoined == \A t \in Thread : pc[t] = "exit"

JoinAll ==
    /\ AllJoined
    /\ ok' = Succeeded
    /\ Close
    /\ Goto("main", "compare")
    /\ UNCHANGED <<recv_path, slots>>

files_equal == out_file = [i \in 1..file_size |-> i]

Compare ==
    /\ pc["main"] = "compare"
    /\ ok' = (ok /\ files_equal)
    /\ recv_path' = FALSE
    /\ Goto("main", "returned")
    /\ UNCHANGED <<handles, attempt, file_size, slots>>

Reader == \/ LoopHead("reader") \/ Sleep("reader")
          \/ ReaderStarts \/ ReaderFills \/ ReaderFails
Main   == \/ Prologue \/ LoopHead("main") \/ Sleep("main")
          \/ MainStarts \/ MainSubmits \/ MainTransferHangs \/ MainTransfers
          \/ MainTransferFails \/ MainLooks \/ MainPosts \/ JoinAll \/ Compare
Writer == \/ LoopHead("writer") \/ Sleep("writer")
          \/ WriterStarts \/ WriterWrites \/ WriterFails \/ WriterCounts \/ WriterFrees
Ended == pc["main"] \in {"returned", "refused"}
Returned == Ended /\ UNCHANGED vars

Next == Reader \/ Main \/ Writer \/ Returned

\* Each of the three threads is scheduled.
Spec == Init /\ [][Next]_vars /\ WF_vars(Reader) /\ WF_vars(Main) /\ WF_vars(Writer)

-----------------------------------------------------------------------------
(* Properties.                                                             *)

Point == Port \cup {"unborn", "devices", "header", "refused", "head", "wait", "asleep",
                    "busy", "moving", "polling", "moved", "last", "count", "post", "exit",
                    "compare", "returned"}

\* Every variable has its type.
TypeOK ==
    /\ handles \subseteq Port /\ attempt \in 0..MaxOpenAttempts - 1
    /\ recv_path \in BOOLEAN /\ file_size \in FileSizes
    /\ pc \in [Thread -> Point]
    /\ at \in [Thread -> Slot]
    /\ tx_buf \in [Slot -> [1..Chunk -> Nat]] /\ rx_buf \in [Slot -> [1..Chunk -> Nat]]
    /\ tx_bytes \in [Slot -> 0..Chunk] /\ rx_bytes \in [Slot -> 0..Chunk]
    /\ filled \in [Slot -> BOOLEAN] /\ usb_done \in [Slot -> BOOLEAN]
    /\ eof \in [Slot -> BOOLEAN]
    /\ transfer_error \in BOOLEAN
    /\ len \in 0..Chunk /\ rx_actual \in 0..len
    /\ bytes_read \in 0..file_size /\ bytes_written \in Nat /\ total_bytes_done \in Nat
    /\ out_file \in Seq(Nat) /\ ok \in BOOLEAN
    /\ laps \in 0..MaxLaps /\ short \in BOOLEAN

\* Disk and USB overlap on different buffers: while a slot is being transferred neither
\* the reader nor the writer is at its buffers, which all three use outside the mutex.
DoubleBuffered ==
    pc["main"] \in {"busy", "moving", "moved"} =>
        /\ pc["reader"] = "busy" => at["reader"] # at["main"]
        /\ pc["writer"] \in {"busy", "count"} => at["writer"] # at["main"]

\* Types; and until main laps the writer, that is begins to send a slot which the writer
\* has not emptied, the flags keep reader and writer off the buffers of a transfer,
\* whatever fails and however short a transfer is.
SlotsOK == TypeOK /\ (laps = 0 => DoubleBuffered)

\* A loopback over a link that delivers every chunk whole is a success with an intact
\* copy, unless main lapped the writer: what usb-loopback-test checks is the cables, so
\* the engine may neither lose a chunk nor copy one twice (loopback_transfer_core
\* compares the files).  Whatever the end, the interfaces are released and the copy is
\* gone.
HealthyLinkPasses ==
    /\ pc["main"] = "returned" /\ ~transfer_error /\ ~short /\ laps = 0 => ok /\ files_equal
    /\ Ended => handles = {} /\ ~recv_path

\* A loopback is a FileTransfer from one cable to the other, also with a disk that does
\* not keep up and with transfers that complete short: whatever the three threads did to
\* the slots, a success has the whole file in the copy, each unit once and in order,
\* progress counts only what has crossed, and no thread moves anything once the call has
\* returned.
Transfer == INSTANCE FileTransfer WITH
    Sizes <- FileSizes, size <- file_size,
    fabric <- total_bytes_done + rx_actual,
    out <- out_file, progress <- total_bytes_done,
    result <- IF ~Ended THEN "none" ELSE IF ok THEN "ok" ELSE "failed"
ImplementsTransfer == Transfer!Spec

\* A loopback of a file that is not empty comes to an end if nothing fails, every
\* transfer delivers what was sent and main never laps the writer: every wait is
\* notified.  (Each of these is needed: reader and writer skip their loops for an empty
\* file, and main waits for a slot for ever; the writer waits for the bytes that a short
\* transfer has left out.)
ReturnsUnlessFailure ==
    /\ file_size > 0
    /\ [](~transfer_error /\ pc["main"] # "polling" /\ ~short /\ laps = 0)
    => <>Ended
=============================================================================
