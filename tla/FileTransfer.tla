---------------------------- MODULE FileTransfer ----------------------------
(***************************************************************************)
(* What one call of send_file_core, receive_file_core or                   *)
(* loopback_transfer_core promises to the threads above it                 *)
(* (core/include/usb_transfer.h, TransferResult): output is only ever      *)
(* appended, progress never runs ahead of the fabric or back, the result   *)
(* is given once and nothing moves afterwards, and a success means that    *)
(* the whole file, each unit once and in order, is where it was to go.     *)
(* RecvRing, SendQueue and CrossConnect implement it.                      *)
(*                                                                         *)
(* The i-th unit of a file is the number i.                                *)
(***************************************************************************)
EXTENDS Naturals, Sequences, SequencesExt

CONSTANT Sizes      \* sizes a file may have

VARIABLES
    size,           \* of the file; 0 until the header is there
    fabric,         \* units the fabric has carried
    out,            \* what has gone to the output, wire or disk
    progress,       \* what progress_cb and bytes_transferred were told
    result          \* "none" while the call runs, then "ok" or "failed"

vars == <<size, fabric, out, progress, result>>

File(n) == [i \in 1..n |-> i]

Init == /\ size \in Sizes \cup {0}
        /\ fabric = 0 /\ out = << >> /\ progress = 0 /\ result = "none"

Running == result = "none"

Learn == /\ Running /\ fabric = 0
         /\ size' \in Sizes
         /\ UNCHANGED <<fabric, out, progress, result>>

\* Data moves: on the fabric, to the output, or both at once.  What a call that is
\* going to fail has put out may be anything: a chunk that broke off is written too.
Move == /\ Running
        /\ fabric' >= fabric
        /\ IsPrefix(out, out')
        /\ UNCHANGED <<size, progress, result>>

Count == /\ Running
         /\ progress' > progress /\ progress' <= fabric
         /\ UNCHANGED <<size, fabric, out, result>>

Succeed == /\ Running
           /\ out = File(size) /\ progress = size
           /\ result' = "ok"
           /\ UNCHANGED <<size, fabric, out, progress>>

Fail == /\ Running
        /\ result' = "failed"
        /\ UNCHANGED <<size, fabric, out, progress>>

Next == Learn \/ Move \/ Count \/ Succeed \/ Fail

Spec == Init /\ [][Next]_vars
=============================================================================
