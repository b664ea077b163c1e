--------------------------- MODULE RecvRingProofs ---------------------------
(***************************************************************************)
(* Proofs about receive_file_core (RecvRing), for every ring size, window, *)
(* chunk size and set of file sizes.  With and without short completions:  *)
(* the type invariant, no slot of the ring is used again before the writer *)
(* is done with it, transfers are freed only when they are idle.  Without  *)
(* short completions, besides: the books of submitted and received bytes   *)
(* balance, the correction of the last chunk changes nothing, and the      *)
(* engine implements FileTransfer.                                         *)
(***************************************************************************)
EXTENDS RecvRing, SequenceTheorems, FiniteSetTheorems, TLAPS

(* Arithmetic of the ring index n % kPoolSize that receive_file_core       *)
(* computes from its running counters: two counters less than one lap      *)
(* apart name different slots, one lap apart the same slot.                *)

\* Division with remainder, as the integers of the model define it.
LEMMA DivMod ==
    ASSUME NEW x \in Nat, NEW P \in Nat \ {0}
    PROVE  /\ x = (P * (x \div P)) + (x % P)
           /\ x \div P \in Int
           /\ x % P \in 0 .. P-1
  BY SMT

\* A later lap starts at least P after an earlier one.
LEMMA LapApart ==
    ASSUME NEW P \in Nat \ {0}, NEW a \in Int, NEW b \in Int, a > b
    PROVE  P * a >= P * b + P
<1>1. a - b - 1 \in Nat  OBVIOUS
<1>2. P * (a - b - 1) >= 0  BY <1>1
<1>3. P * (a - b - 1) = P * a - P * b - P  OBVIOUS
<1> QED  BY <1>2, <1>3

\* Lap and slot of a counter are unique.
LEMMA UniqueLap ==
    ASSUME NEW P \in Nat \ {0}, NEW a \in Int, NEW b \in Int,
           NEW r \in 0..P-1, NEW s \in 0..P-1, P * a + r = P * b + s
    PROVE  a = b /\ r = s
<1>0. P * a \in Int /\ P * b \in Int  OBVIOUS
<1>1. ~ (a > b)
  <2>1. SUFFICES ASSUME a > b PROVE FALSE  OBVIOUS
  <2>2. P * a >= P * b + P  BY <2>1, LapApart
  <2> QED  BY <1>0, <2>2
<1>2. ~ (b > a)
  <2>1. SUFFICES ASSUME b > a PROVE FALSE  OBVIOUS
  <2>2. P * b >= P * a + P  BY <2>1, LapApart
  <2> QED  BY <1>0, <2>2
<1>3. a = b  BY <1>1, <1>2
<1> QED  BY <1>0, <1>3

\* One lap later the counter names the same slot.
LEMMA SameSlot ==
    ASSUME NEW x \in Nat, NEW P \in Nat \ {0}
    PROVE  (x + P) % P = x % P
<1> DEFINE q == x \div P
           t == (x + P) \div P
           r == x % P
           s == (x + P) % P
<1>1. x = (P * q) + r /\ q \in Int /\ r \in 0 .. P-1  BY DivMod
<1>2. x + P = (P * t) + s /\ t \in Int /\ s \in 0 .. P-1
  <2>1. x + P \in Nat  OBVIOUS
  <2> QED  BY <2>1, DivMod
<1> HIDE DEF q, t, r, s
<1>3. q + 1 \in Int  BY <1>1
<1>4. P * (q + 1) + r = (P * t) + s
  <2>1. P * q \in Int /\ P * t \in Int  BY <1>1, <1>2
  <2>2. P * (q + 1) = P * q + P  BY <1>1
  <2> QED  BY <1>1, <1>2, <2>1, <2>2
<1>5. r = s  BY <1>1, <1>2, <1>3, <1>4, UniqueLap
<1> QED  BY <1>5 DEF r, s

\* Less than one lap later it names another.
LEMMA OtherSlot ==
    ASSUME NEW x \in Nat, NEW y \in Nat, NEW P \in Nat \ {0}, x < y, y < x + P
    PROVE  y % P # x % P
<1> DEFINE q == x \div P
           t == y \div P
<1>1. x = (P * q) + (x % P) /\ q \in Int /\ x % P \in 0 .. P-1  BY DivMod
<1>2. y = (P * t) + (y % P) /\ t \in Int /\ y % P \in 0 .. P-1  BY DivMod
<1>3. P * q \in Int /\ P * t \in Int  BY <1>1, <1>2
<1> HIDE DEF q, t
<1>4. SUFFICES ASSUME y % P = x % P PROVE FALSE  OBVIOUS
<1>5. P * t > P * q /\ P * t < P * q + P  BY <1>1, <1>2, <1>3, <1>4
<1>6. CASE t > q
  <2>1. P * t >= P * q + P  BY <1>6, <1>1, <1>2, LapApart
  <2> QED  BY <2>1, <1>5, <1>3
<1>7. CASE q > t
  <2>1. P * q >= P * t + P  BY <1>7, <1>1, <1>2, LapApart
  <2> QED  BY <2>1, <1>5, <1>3
<1>8. CASE q = t  BY <1>8, <1>5, <1>3
<1> QED  BY <1>6, <1>7, <1>8, <1>1, <1>2

-----------------------------------------------------------------------------
\* Nothing was counted before a header is accepted, so file_size may be set.
NothingCountedYet == main = "header" => bytes_submitted = 0 /\ bytes_received = 0

TypeInv == TypeOK /\ NothingCountedYet

\* The ring arithmetic of NoReuseBeforeWrite, made inductive.  A slot turns FREE
\* behind write_idx only, as long as nothing failed: every slot from write_idx
\* up to submit_count is in flight, ready or being written.
HeldUntilWritten ==
    ~write_error /\ ~error =>
       \A k \in write_idx .. submit_count - 1 : state[SlotOf(k)] # "FREE"
WindowOfTransfers == active = submit_count - next_complete
ErrorBeforeFree == writer = "giveup" => write_error
RingInv == HeldUntilWritten /\ WindowOfTransfers /\ ErrorBeforeFree /\ NoReuseBeforeWrite

-----------------------------------------------------------------------------
(* Type correctness.                                                       *)

LEMMA SlotInRing ==
    ASSUME NEW k \in Nat
    PROVE  SlotOf(k) \in Slot
  BY DivMod, SizesAssumption DEF SlotOf, Slot

\* What the writer hands to the file is a sequence of units.
LEMMA WrittenUnits ==
    ASSUME TypeOK, NEW s \in Slot
    PROVE  disk \o SubSeq(buf[s], 1, real_bytes[s]) \in Seq(Nat)
<1>1. real_bytes[s] \in Int /\ \A i \in 1 .. real_bytes[s] : buf[s][i] \in Nat
  BY SizesAssumption DEF TypeOK
<1>2. SubSeq(buf[s], 1, real_bytes[s]) \in Seq(Nat)  BY <1>1, SubSeqProperties
<1> QED  BY <1>2, ConcatProperties DEF TypeOK

LEMMA TypeInit == Init => TypeInv
<1> SUFFICES ASSUME Init PROVE TypeInv  OBVIOUS
<1>1. disk \in Seq(Nat)  BY EmptySeq DEF Init
<1>2. buf \in [Slot -> [1..Chunk -> Nat]]  BY DEF Init
<1>3. /\ actual \in [Slot -> 0..Chunk] /\ real_bytes \in [Slot -> 0..Chunk]
      /\ active \in Int /\ active <= MaxInflight
  BY SizesAssumption DEF Init
<1>4. /\ file_size \in Nat /\ bytes_submitted \in 0..file_size
      /\ bytes_received \in 0..file_size
      /\ submit_count \in Nat /\ next_complete \in Nat /\ write_idx \in Nat
      /\ stream \in Nat
  BY DEF Init
<1>5. state \in [Slot -> {"FREE", "IN_FLIGHT", "READY"}] /\ status \in [Slot -> BOOLEAN]
  BY DEF Init
<1>6. TypeOK  BY <1>1, <1>2, <1>3, <1>4, <1>5 DEF Init, TypeOK
<1> QED  BY <1>6 DEF Init, TypeInv, NothingCountedYet

LEMMA TypeStep == TypeInv /\ [Next]_vars => TypeInv'
<1> SUFFICES ASSUME TypeInv, [Next]_vars PROVE TypeInv'  OBVIOUS
<1> USE SizesAssumption DEF TypeInv, TypeOK, NothingCountedYet, slots, counts, flags, outs
<1>1. CASE HeaderFails  BY <1>1 DEF HeaderFails
<1>2. ASSUME NEW kind, NEW size \in FileSizes, SkipSessionFrame(kind) \/ AcceptHeader(kind, size)
      PROVE  TypeInv'
  BY <1>2 DEF SkipSessionFrame, AcceptHeader, vars
<1>3. CASE Submit \/ SubmitFails
  <2>1. SlotOf(submit_count) \in Slot  BY SlotInRing
  <2>2. WantsSubmit  BY <1>3 DEF Submit, SubmitFails
  <2>3. /\ SubmitSize \in 0..Chunk
        /\ bytes_submitted + SubmitSize \in 0..file_size
    BY <2>2 DEF WantsSubmit, SubmitSize, Least
  <2>4. [i \in 1..Chunk |-> 0] \in [1..Chunk -> Nat]  OBVIOUS
  <2>5. active \in Int /\ active + 1 <= MaxInflight  BY <2>2 DEF WantsSubmit
  <2>6. CASE Submit  BY <2>1, <2>3, <2>4, <2>5, <2>6 DEF Submit
  <2>7. CASE SubmitFails  BY <2>1, <2>3, <2>4, <2>7 DEF SubmitFails
  <2> QED  BY <1>3, <2>6, <2>7
<1>4. CASE SubmitSeesWriteError \/ SubmitDone \/ LeaveLoop \/ WaitSeesWriteError \/ SlotArrived
  <2>1. CASE SubmitSeesWriteError  BY <2>1 DEF SubmitSeesWriteError
  <2>2. CASE SubmitDone  BY <2>2 DEF SubmitDone
  <2>3. CASE LeaveLoop  BY <2>3 DEF LeaveLoop
  <2>4. CASE SlotArrived  BY <2>4 DEF SlotArrived
  <2>5. CASE WaitSeesWriteError  BY <2>5 DEF WaitSeesWriteError
  <2> QED  BY <1>4, <2>1, <2>2, <2>3, <2>4, <2>5
<1>5. CASE Account
  <2>1. SlotOf(next_complete) \in Slot  BY SlotInRing
  <2> DEFINE n == Least(actual[SlotOf(next_complete)], file_size - bytes_received)
  <2>2. n \in 0..Chunk /\ bytes_received + n \in 0..file_size  BY <2>1 DEF Least
  <2>3. active - 1 \in Int /\ active - 1 <= MaxInflight  OBVIOUS
  <2>4. /\ real_bytes' = [real_bytes EXCEPT ![SlotOf(next_complete)] = n]
        /\ bytes_received' = bytes_received + n
        /\ active' = active - 1 /\ next_complete' = next_complete + 1 /\ main' = "submit"
        /\ UNCHANGED <<writer, state, status, actual, buf, file_size, bytes_submitted,
                       submit_count, error, flags, write_idx, disk, outs>>
    BY <1>5 DEF Account
  <2> HIDE DEF n
  <2>5. real_bytes' \in [Slot -> 0..Chunk]  BY <2>1, <2>2, <2>4
  <2>6. bytes_received' \in 0..file_size'  BY <2>2, <2>4
  <2> QED  BY <2>3, <2>4, <2>5, <2>6
<1>6. CASE AccountFailure
  <2>1. SlotOf(next_complete) \in Slot  BY SlotInRing
  <2> QED  BY <1>6, <2>1 DEF AccountFailure
<1>7. CASE Finish \/ Drained \/ DrainGivesUp \/ Join
  <2>1. CASE Finish  BY <2>1 DEF Finish
  <2>2. CASE Drained \/ DrainGivesUp  BY <2>2 DEF Drained, DrainGivesUp
  <2>3. CASE Join  BY <2>3 DEF Join, Succeeded
  <2> QED  BY <1>7, <2>1, <2>2, <2>3
<1>8. ASSUME NEW k \in next_complete .. submit_count - 1, NEW n \in 0..Chunk, Complete(k, n)
      PROVE  TypeInv'
  <2>1. k \in Nat /\ SlotOf(k) \in Slot  BY SlotInRing
  <2>2. [i \in 1..Chunk |-> IF i <= n THEN Received(stream + i) ELSE buf[SlotOf(k)][i]]
           \in [1..Chunk -> Nat]
    BY <2>1 DEF Received
  <2> QED  BY <1>8, <2>1, <2>2 DEF Complete
<1>9. ASSUME NEW k \in next_complete .. submit_count - 1, CompleteBadly(k)
      PROVE  TypeInv'
  <2>1. k \in Nat /\ SlotOf(k) \in Slot  BY SlotInRing
  <2> QED  BY <1>9, <2>1 DEF CompleteBadly
<1>10. CASE WriterExits \/ WriterTakes  BY <1>10 DEF WriterExits, WriterTakes
<1>11. CASE WriterWrites
  <2>1. SlotOf(write_idx) \in Slot  BY SlotInRing
  <2>2. disk' \in Seq(Nat)  BY <1>11, <2>1, WrittenUnits DEF WriterWrites
  <2>3. /\ state' \in [Slot -> {"FREE", "IN_FLIGHT", "READY"}]
        /\ write_idx' \in Nat /\ writer' = "await"
        /\ UNCHANGED <<main, status, actual, real_bytes, buf, file_size, counts, error,
                       flags, outs>>
    BY <1>11, <2>1 DEF WriterWrites
  <2> QED  BY <2>2, <2>3
<1>12. CASE WriterFails  BY <1>12 DEF WriterFails
<1>14. CASE WriterGivesUp
  <2>1. SlotOf(write_idx) \in Slot  BY SlotInRing
  <2> QED  BY <1>14, <2>1 DEF WriterGivesUp
<1>13. CASE UNCHANGED vars  BY <1>13 DEF vars
<1> QED
  BY <1>1, <1>2, <1>3, <1>4, <1>5, <1>6, <1>7, <1>8, <1>9, <1>10, <1>11, <1>12, <1>13, <1>14
  DEF Next, Main, Header, Usb, Writer, Returned

\* Type correctness of the receive ring, whatever its sizes: in particular no
\* slot ever claims more than a chunk, no more is submitted or counted than the
\* header announced, and the window is never overfilled.
THEOREM TypeCorrect == Spec => []TypeOK
<1>1. TypeInv => TypeOK  BY DEF TypeInv
<1> QED  BY <1>1, TypeInit, TypeStep, PTL DEF Spec

-----------------------------------------------------------------------------
(* No slot is reused before it is written.                                 *)

LEMMA RingInit == TypeInv /\ Init => RingInv
  BY SizesAssumption
  DEF TypeInv, TypeOK, Init, RingInv, HeldUntilWritten, WindowOfTransfers, ErrorBeforeFree,
      NoReuseBeforeWrite

\* Submitting into a FREE slot: with the writer a whole lap behind, the slot
\* would be its own write_idx, which is not FREE.
LEMMA SubmitKeepsRing ==
    ASSUME TypeInv, RingInv, Submit
    PROVE  RingInv'
<1> USE SizesAssumption DEF TypeInv, TypeOK, RingInv, flags
<1>1. SlotOf(submit_count) \in Slot  BY SlotInRing
<1>2. ~error /\ active < MaxInflight /\ state[SlotOf(submit_count)] = "FREE"
  BY DEF Submit, WantsSubmit, Reusable
<1>3. /\ submit_count' = submit_count + 1 /\ active' = active + 1
      /\ state' = [state EXCEPT ![SlotOf(submit_count)] = "IN_FLIGHT"]
      /\ UNCHANGED <<next_complete, error, write_error, write_idx>>
  BY DEF Submit
<1>4. WindowOfTransfers' /\ ErrorBeforeFree'
  BY <1>3 DEF Submit, WindowOfTransfers, ErrorBeforeFree
<1>5. ~write_error => submit_count < write_idx + Pool
  <2>1. SUFFICES ASSUME ~write_error, submit_count = write_idx + Pool PROVE FALSE
    BY DEF NoReuseBeforeWrite
  <2>2. SlotOf(submit_count) = SlotOf(write_idx)  BY <2>1, SameSlot DEF SlotOf
  <2>3. write_idx \in write_idx .. submit_count - 1  BY <2>1
  <2> QED  BY <1>2, <2>1, <2>2, <2>3 DEF HeldUntilWritten
<1>6. NoReuseBeforeWrite'
  BY <1>2, <1>3, <1>5 DEF NoReuseBeforeWrite, WindowOfTransfers
<1>7. HeldUntilWritten'
  <2>1. SUFFICES ASSUME ~write_error, NEW k \in write_idx .. submit_count
                 PROVE  state'[SlotOf(k)] # "FREE"
    BY <1>2, <1>3 DEF HeldUntilWritten
  <2>2. SlotOf(k) \in Slot  BY SlotInRing
  <2>3. CASE k = submit_count  BY <1>1, <1>3, <2>3
  <2>4. CASE k \in write_idx .. submit_count - 1
    BY <1>1, <1>2, <1>3, <2>1, <2>2, <2>4 DEF HeldUntilWritten
  <2> QED  BY <2>3, <2>4
<1> QED  BY <1>4, <1>6, <1>7

\* The writer frees the slot of write_idx; every slot still to be written is
\* less than a lap ahead, hence another one.
LEMMA WriteKeepsRing ==
    ASSUME TypeInv, RingInv, WriterWrites
    PROVE  RingInv'
<1> USE SizesAssumption DEF TypeInv, TypeOK, RingInv, flags, counts
<1>1. SlotOf(write_idx) \in Slot  BY SlotInRing
<1>2. /\ state' = [state EXCEPT ![SlotOf(write_idx)] = "FREE"]
      /\ write_idx' = write_idx + 1
      /\ UNCHANGED <<submit_count, active, next_complete, error, write_error>>
  BY DEF WriterWrites
<1>3. WindowOfTransfers' /\ ErrorBeforeFree' /\ NoReuseBeforeWrite'
  BY <1>2 DEF WriterWrites, WindowOfTransfers, ErrorBeforeFree, NoReuseBeforeWrite
<1>4. HeldUntilWritten'
  <2>1. SUFFICES ASSUME ~write_error, ~error, NEW k \in write_idx + 1 .. submit_count - 1
                 PROVE  state'[SlotOf(k)] # "FREE"
    BY <1>2 DEF HeldUntilWritten
  <2>2. k \in Nat /\ k > write_idx /\ k < write_idx + Pool
    BY <2>1 DEF NoReuseBeforeWrite
  <2>3. SlotOf(k) # SlotOf(write_idx)  BY <2>2, OtherSlot DEF SlotOf
  <2>4. SlotOf(k) \in Slot  BY <2>2, SlotInRing
  <2>5. state[SlotOf(k)] # "FREE"  BY <2>1 DEF HeldUntilWritten
  <2> QED  BY <1>1, <1>2, <2>3, <2>4, <2>5
<1> QED  BY <1>3, <1>4

\* A completion, good or bad, makes a slot READY, never FREE.
LEMMA CompletionKeepsRing ==
    ASSUME TypeInv, RingInv, NEW k \in next_complete .. submit_count - 1,
           CompleteBadly(k) \/ \E n \in 0..Chunk : Complete(k, n)
    PROVE  RingInv'
<1> USE DEF TypeInv, TypeOK, RingInv, flags, counts, outs
<1>1. SlotOf(k) \in Slot  BY SlotInRing
<1>2. /\ state' = [state EXCEPT ![SlotOf(k)] = "READY"]
      /\ UNCHANGED <<submit_count, active, next_complete, write_idx, error, write_error>>
  BY DEF Complete, CompleteBadly
<1>3. WindowOfTransfers' /\ ErrorBeforeFree' /\ NoReuseBeforeWrite'
  BY <1>2 DEF Complete, CompleteBadly, WindowOfTransfers, ErrorBeforeFree, NoReuseBeforeWrite
<1>4. HeldUntilWritten'
  <2>1. SUFFICES ASSUME ~write_error, ~error, NEW j \in write_idx .. submit_count - 1
                 PROVE  state'[SlotOf(j)] # "FREE"
    BY <1>2 DEF HeldUntilWritten
  <2>2. SlotOf(j) \in Slot  BY SlotInRing
  <2> QED  BY <1>1, <1>2, <2>1, <2>2 DEF HeldUntilWritten
<1> QED  BY <1>3, <1>4

LEMMA RingStep == TypeInv /\ RingInv /\ [Next]_vars => RingInv'
<1> SUFFICES ASSUME TypeInv, RingInv, [Next]_vars PROVE RingInv'  OBVIOUS
<1> USE SizesAssumption
    DEF TypeInv, TypeOK, RingInv, HeldUntilWritten, WindowOfTransfers, ErrorBeforeFree,
        NoReuseBeforeWrite, slots, counts, flags, outs
<1>1. CASE Header
  BY <1>1 DEF Header, HeaderFails, SkipSessionFrame, AcceptHeader, vars
<1>2. CASE Submit  BY <1>2, SubmitKeepsRing
<1>3. CASE SubmitFails \/ SubmitSeesWriteError \/ SubmitDone
  BY <1>3 DEF SubmitFails, SubmitSeesWriteError, SubmitDone
<1>4. CASE LeaveLoop \/ WaitSeesWriteError \/ SlotArrived
  BY <1>4 DEF LeaveLoop, WaitSeesWriteError, SlotArrived
<1>5. CASE Account  BY <1>5 DEF Account
<1>6. CASE AccountFailure  BY <1>6 DEF AccountFailure
<1>7. CASE Finish \/ Drained \/ DrainGivesUp \/ Join
  BY <1>7 DEF Finish, Drained, DrainGivesUp, Join
<1>8. CASE Usb  BY <1>8, CompletionKeepsRing DEF Usb
<1>9. CASE WriterExits \/ WriterTakes  BY <1>9 DEF WriterExits, WriterTakes
<1>10. CASE WriterWrites  BY <1>10, WriteKeepsRing
<1>11. CASE WriterFails \/ WriterGivesUp  BY <1>11 DEF WriterFails, WriterGivesUp
<1>12. CASE UNCHANGED vars  BY <1>12 DEF vars
<1> QED
  BY <1>1, <1>2, <1>3, <1>4, <1>5, <1>6, <1>7, <1>8, <1>9, <1>10, <1>11, <1>12
  DEF Next, Main, Writer, Returned

\* "A slot cannot be reused until the writer marks it FREE", for every pool,
\* window and chunk size, short completions included: the unlocked hand-over of
\* slots between main and writer never lets main lap the writer.
THEOREM NeverReusedBeforeWrite == Spec => []NoReuseBeforeWrite
<1>1. Init => TypeInv /\ RingInv  BY TypeInit, RingInit
<1>2. TypeInv /\ RingInv /\ [Next]_vars => TypeInv' /\ RingInv'  BY TypeStep, RingStep
<1>3. RingInv => NoReuseBeforeWrite  BY DEF RingInv
<1> QED  BY <1>1, <1>2, <1>3, PTL DEF Spec

-----------------------------------------------------------------------------
(* Offsets of the chunks in the file, and the window of transfers.         *)

Off(k) == Chunk * k
Window == next_complete .. submit_count - 1

\* The k-th transfer begins at k whole chunks; what is asked for is the file so far.
Asked == /\ bytes_submitted = Least(Off(submit_count), file_size)
         /\ \A k \in 0 .. submit_count - 1 : Off(k) < file_size

\* What libusb holds is in the window, and no completion counts more than a chunk.
InWindow == \A s \in Slot : state[s] = "IN_FLIGHT" => \E k \in Window : s = SlotOf(k)
Reached == bytes_received <= Off(next_complete)

\* What the control point of main says of the window.
MainPhase ==
    /\ main = "header" => submit_count = 0 /\ next_complete = 0
    /\ main \in {"loop", "account"} /\ ~error /\ next_complete >= submit_count =>
          bytes_submitted = file_size
    /\ next_complete > submit_count => bytes_submitted = file_size
    /\ main = "account" => /\ ~error /\ bytes_received < file_size
                           /\ state[SlotOf(next_complete)] # "IN_FLIGHT"
    /\ main = "finish" => bytes_received >= file_size \/ error \/ write_error

WindowInv == Asked /\ InWindow /\ Reached /\ MainPhase /\ FreedTransfersIdle

\* Chunks follow each other.
LEMMA Offsets ==
    /\ Off(0) = 0
    /\ \A k \in Nat : Off(k) \in Nat /\ Off(k + 1) = Off(k) + Chunk
    /\ \A j, k \in Nat : j < k => Off(j) + Chunk <= Off(k)
    /\ \A j, k \in Nat : j <= k => Off(j) <= Off(k)
<1>1. Chunk \in Nat \ {0}  BY SizesAssumption
<1>2. \A k \in Nat : Off(k) \in Nat /\ Off(k + 1) = Off(k) + Chunk  BY <1>1 DEF Off
<1>3. \A j, k \in Nat : j < k => Off(j) + Chunk <= Off(k)
  BY <1>1, LapApart DEF Off
<1>4. \A j, k \in Nat : j <= k => Off(j) <= Off(k)  BY <1>1, <1>2, <1>3
<1>5. Off(0) = 0  BY <1>1 DEF Off
<1> QED  BY <1>2, <1>3, <1>4, <1>5

\* Transfers less than a lap apart have slots of their own.
LEMMA OwnSlot ==
    ASSUME NEW j \in Nat, NEW k \in Nat, j # k, j < k + Pool, k < j + Pool
    PROVE  SlotOf(j) # SlotOf(k)
<1>1. CASE j < k  BY <1>1, OtherSlot, SizesAssumption DEF SlotOf
<1>2. CASE k < j  BY <1>2, OtherSlot, SizesAssumption DEF SlotOf
<1> QED  BY <1>1, <1>2

\* When all of the file is there, libusb holds nothing.
LEMMA AllArrived ==
    ASSUME TypeInv, WindowInv, bytes_received >= file_size
    PROVE  Idle
<1>1. submit_count \in Nat /\ next_complete \in Nat /\ file_size \in Nat /\ bytes_received \in Nat
  BY DEF TypeInv, TypeOK
<1>2. Off(next_complete) >= file_size
  BY <1>1, Offsets DEF WindowInv, Reached
<1>3. ~(next_complete < submit_count)
  <2>1. SUFFICES ASSUME next_complete < submit_count PROVE FALSE  OBVIOUS
  <2>2. Off(next_complete) < file_size  BY <1>1, <2>1 DEF WindowInv, Asked
  <2> QED  BY <1>1, <1>2, <2>2, Offsets
<1>4. Window = {}  BY <1>1, <1>3 DEF Window
<1> QED  BY <1>4 DEF WindowInv, InWindow, Idle

\* The window at the start.
LEMMA WindowInit == Init => WindowInv
<1>1. Off(0) = 0  BY Offsets
<1> QED
  BY <1>1 DEF Init, WindowInv, Asked, InWindow, Reached, MainPhase, FreedTransfersIdle, Least

\* The steps that leave the ring and its counters alone.
LEMMA QuietWindow ==
    ASSUME TypeInv, RingInv, WindowInv, UNCHANGED <<state, counts>>,
           \/ HeaderFails \/ SubmitSeesWriteError \/ SubmitDone
           \/ LeaveLoop \/ WaitSeesWriteError \/ SlotArrived
           \/ Finish \/ Drained \/ DrainGivesUp \/ Join
           \/ WriterExits \/ WriterTakes \/ WriterFails \/ UNCHANGED vars
    PROVE  WindowInv'
<1> USE DEF TypeInv, TypeOK, WindowInv
<1>1. UNCHANGED <<state, bytes_submitted, bytes_received, active, submit_count, next_complete>>
      /\ file_size' = file_size
  BY DEF counts, HeaderFails, SubmitSeesWriteError, SubmitDone, LeaveLoop, WaitSeesWriteError,
         SlotArrived, Finish, Drained, DrainGivesUp, Join, WriterExits, WriterTakes, WriterFails,
         vars
<1>2. Asked' /\ InWindow' /\ Reached'  BY <1>1 DEF Asked, InWindow, Reached, Window
<1>3. FreedTransfersIdle'
  <2>1. CASE Finish
    <3>1. CASE error \/ write_error  BY <2>1, <3>1 DEF Finish, FreedTransfersIdle
    <3>2. CASE ~error /\ ~write_error
      <4>1. Idle  BY <2>1, <3>2, AllArrived DEF Finish, MainPhase
      <4> QED  BY <1>1, <4>1 DEF FreedTransfersIdle, Idle
    <3> QED  BY <3>1, <3>2
  <2>2. CASE HeaderFails
    <3>1. Window = {}  BY <2>2 DEF HeaderFails, MainPhase, Window
    <3> QED  BY <1>1, <3>1 DEF InWindow, FreedTransfersIdle
  <2>3. CASE Drained  BY <1>1, <2>3 DEF Drained, FreedTransfersIdle, Idle
  <2>4. CASE DrainGivesUp  BY <2>4 DEF DrainGivesUp, FreedTransfersIdle
  <2>5. CASE Join  BY <1>1, <2>5 DEF Join, FreedTransfersIdle
  <2>6. CASE SubmitSeesWriteError \/ SubmitDone \/ LeaveLoop \/ WaitSeesWriteError \/ SlotArrived
    BY <2>6 DEF SubmitSeesWriteError, SubmitDone, LeaveLoop, WaitSeesWriteError, SlotArrived,
                FreedTransfersIdle
  <2>7. CASE WriterExits \/ WriterTakes \/ WriterFails \/ UNCHANGED vars
    BY <1>1, <2>7 DEF WriterExits, WriterTakes, WriterFails, vars, outs, FreedTransfersIdle
  <2> QED  BY <2>1, <2>2, <2>3, <2>4, <2>5, <2>6, <2>7
<1>4. MainPhase'
  <2>1. CASE SubmitDone
    <3>1. ~error /\ next_complete >= submit_count => bytes_submitted = file_size
      BY <2>1, SizesAssumption DEF SubmitDone, WantsSubmit, RingInv, WindowOfTransfers
    <3> QED  BY <1>1, <2>1, <3>1 DEF SubmitDone, MainPhase
  <2>2. CASE SlotArrived  BY <1>1, <2>2 DEF SlotArrived, MainPhase
  <2>3. CASE LeaveLoop  BY <1>1, <2>3 DEF LeaveLoop, MainPhase, flags
  <2>4. CASE \/ HeaderFails \/ SubmitSeesWriteError \/ WaitSeesWriteError
             \/ Finish \/ Drained \/ DrainGivesUp \/ Join
    BY <1>1, <2>4
    DEF HeaderFails, SubmitSeesWriteError, WaitSeesWriteError, Finish, Drained, DrainGivesUp, Join,
        MainPhase
  <2>5. CASE WriterExits \/ WriterTakes \/ WriterFails \/ UNCHANGED vars
    <3>1. main' = main /\ error' = error /\ (write_error => write_error')
      BY <2>5 DEF WriterExits, WriterTakes, WriterFails, vars, flags
    <3> QED  BY <1>1, <3>1 DEF MainPhase
  <2> QED  BY <2>1, <2>2, <2>3, <2>4, <2>5
<1> QED  BY <1>2, <1>3, <1>4

\* A transfer is submitted, or refused.
LEMMA SubmitWindow ==
    ASSUME TypeInv, RingInv, WindowInv, Submit \/ SubmitFails
    PROVE  WindowInv'
<1> USE SizesAssumption DEF TypeInv, TypeOK, WindowInv
<1> DEFINE s == SlotOf(submit_count)
<1>1. s \in Slot  BY SlotInRing
<1>2. main = "submit" /\ ~error /\ bytes_submitted < file_size /\ active < MaxInflight
  BY DEF Submit, SubmitFails, WantsSubmit
<1>3. next_complete <= submit_count  BY <1>2 DEF MainPhase
<1>4. Off(submit_count) \in Nat /\ Off(submit_count + 1) = Off(submit_count) + Chunk
  BY Offsets
<1>5. Off(submit_count) < file_size /\ bytes_submitted = Off(submit_count)
  BY <1>2, <1>4 DEF Asked, Least
<1>6. CASE Submit
  <2>1. /\ state' = [state EXCEPT ![s] = "IN_FLIGHT"] /\ main' = "submit"
        /\ submit_count' = submit_count + 1
        /\ bytes_submitted' = bytes_submitted + SubmitSize
        /\ UNCHANGED <<file_size, next_complete, bytes_received>>
    BY <1>6 DEF Submit
  <2>2. Asked'
    <3>1. bytes_submitted + SubmitSize = Least(Off(submit_count + 1), file_size)
      <4>1. /\ bytes_submitted = Off(submit_count) /\ Off(submit_count) \in Nat
            /\ Off(submit_count + 1) = bytes_submitted + Chunk
            /\ bytes_submitted < file_size /\ file_size \in Nat /\ Chunk \in Nat
        BY <1>4, <1>5
      <4>2. ASSUME NEW a \in Nat, NEW f \in Nat, NEW c \in Nat, a < f
            PROVE  a + Least(f - a, c) = Least(a + c, f)
        BY <4>2 DEF Least
      <4>3. bytes_submitted \in Nat  BY <4>1
      <4> QED  BY <4>1, <4>2, <4>3 DEF SubmitSize
    <3>2. \A k \in 0 .. submit_count : Off(k) < file_size  BY <1>5 DEF Asked
    <3> QED  BY <2>1, <3>1, <3>2 DEF Asked
  <2>3. InWindow'
    <3>1. submit_count \in next_complete .. submit_count  BY <1>3
    <3>2. Window \subseteq next_complete .. submit_count  BY DEF Window
    <3>3. \A r \in Slot : state'[r] = "IN_FLIGHT" =>
              \E k \in next_complete .. submit_count : r = SlotOf(k)
      BY <1>1, <2>1, <3>1, <3>2 DEF InWindow
    <3> QED  BY <2>1, <3>3 DEF InWindow, Window
  <2>4. Reached' /\ FreedTransfersIdle'  BY <2>1 DEF Reached, FreedTransfersIdle
  <2>5. MainPhase'  BY <1>3, <2>1 DEF MainPhase
  <2> QED  BY <2>2, <2>3, <2>4, <2>5
<1>7. CASE SubmitFails
  <2>1. /\ main' = "loop" /\ error'
        /\ UNCHANGED <<state, file_size, bytes_submitted, bytes_received, submit_count,
                       next_complete>>
    BY <1>7 DEF SubmitFails, counts
  <2>2. Asked' /\ InWindow' /\ Reached'  BY <2>1 DEF Asked, InWindow, Reached, Window
  <2>3. FreedTransfersIdle'  BY <2>1 DEF FreedTransfersIdle
  <2>4. MainPhase'  BY <1>3, <2>1 DEF MainPhase
  <2> QED  BY <2>2, <2>3, <2>4
<1> QED  BY <1>6, <1>7

\* A completion is accounted for: its slot has left libusb, the window moves on.
LEMMA AccountWindow ==
    ASSUME TypeInv, RingInv, WindowInv, Account
    PROVE  WindowInv'
<1> USE SizesAssumption DEF TypeInv, TypeOK, WindowInv
<1> DEFINE s == SlotOf(next_complete)
           n == Least(actual[s], file_size - bytes_received)
<1>1. s \in Slot /\ actual[s] \in 0..Chunk  BY SlotInRing
<1>2. n \in 0..Chunk  BY <1>1 DEF Least
<1>3. /\ main = "account" /\ main' = "submit" /\ next_complete' = next_complete + 1
      /\ bytes_received' = bytes_received + n
      /\ UNCHANGED <<state, file_size, bytes_submitted, submit_count, error>>
  BY DEF Account
<1> HIDE DEF n
<1>4. Off(next_complete) \in Nat /\ Off(next_complete + 1) = Off(next_complete) + Chunk
  BY Offsets
<1>5. Asked'  BY <1>3 DEF Asked
<1>6. InWindow'
  <2>1. ASSUME NEW r \in Slot, state[r] = "IN_FLIGHT"
        PROVE  \E k \in next_complete + 1 .. submit_count - 1 : r = SlotOf(k)
    <3>1. PICK k \in Window : r = SlotOf(k)  BY <2>1 DEF InWindow
    <3>2. k # next_complete  BY <1>3, <2>1, <3>1 DEF MainPhase
    <3> QED  BY <3>1, <3>2 DEF Window
  <2> QED  BY <1>3, <2>1 DEF InWindow, Window
<1>7. Reached'  BY <1>2, <1>3, <1>4 DEF Reached
<1>8. FreedTransfersIdle'  BY <1>3 DEF FreedTransfersIdle
<1>9. MainPhase'  BY <1>3 DEF MainPhase
<1> QED  BY <1>5, <1>6, <1>7, <1>8, <1>9

\* A slot leaves libusb or is freed, on whichever thread.
LEMMA SlotWindow ==
    ASSUME TypeInv, WindowInv, NEW s \in Slot, NEW v \in {"READY", "FREE"},
           state' = [state EXCEPT ![s] = v],
           UNCHANGED <<file_size, bytes_submitted, bytes_received, submit_count, next_complete>>,
           (UNCHANGED <<main, error, write_error, gave_up>>) \/ (main' = "finish" /\ error')
    PROVE  WindowInv'
<1> USE DEF TypeInv, TypeOK, WindowInv
<1>1. Asked' /\ Reached'  BY DEF Asked, Reached
<1>2. \A r \in Slot : state'[r] = "IN_FLIGHT" => state[r] = "IN_FLIGHT"  OBVIOUS
<1>3. InWindow'  BY <1>2 DEF InWindow, Window
<1>4. FreedTransfersIdle'  BY <1>2 DEF FreedTransfersIdle
<1>5. SlotOf(next_complete) \in Slot  BY SlotInRing
<1>6. MainPhase'  BY <1>2, <1>5 DEF MainPhase
<1> QED  BY <1>1, <1>3, <1>4, <1>6

\* The window, step by step.
LEMMA WindowStep == TypeInv /\ RingInv /\ WindowInv /\ [Next]_vars => WindowInv'
<1> SUFFICES ASSUME TypeInv, RingInv, WindowInv, [Next]_vars PROVE WindowInv'  OBVIOUS
<1>1. CASE \/ HeaderFails \/ SubmitSeesWriteError \/ SubmitDone
           \/ LeaveLoop \/ WaitSeesWriteError \/ SlotArrived
           \/ Finish \/ Drained \/ DrainGivesUp \/ Join
           \/ WriterExits \/ WriterTakes \/ WriterFails \/ UNCHANGED vars
  <2>1. UNCHANGED <<state, counts>>
    BY <1>1
    DEF HeaderFails, SubmitSeesWriteError, SubmitDone, LeaveLoop, WaitSeesWriteError, SlotArrived,
        Finish, Drained, DrainGivesUp, Join, WriterExits, WriterTakes, WriterFails, vars, slots
  <2> QED  BY <1>1, <2>1, QuietWindow
<1>2. ASSUME NEW kind, NEW size \in FileSizes, AcceptHeader(kind, size) PROVE WindowInv'
  <2>1. /\ main = "header" /\ main' = "submit" /\ UNCHANGED <<state, counts>>
        /\ file_size' = size /\ size \in Nat
    BY <1>2, SizesAssumption DEF AcceptHeader, slots
  <2>2. submit_count = 0 /\ next_complete = 0 /\ bytes_submitted = 0 /\ bytes_received = 0
    BY <2>1 DEF WindowInv, MainPhase, TypeInv, NothingCountedYet
  <2>3. Off(0) = 0  BY Offsets
  <2> QED
    BY <2>1, <2>2, <2>3
    DEF WindowInv, Asked, InWindow, Reached, MainPhase, FreedTransfersIdle, Window, counts, Least
<1>3. ASSUME NEW kind, SkipSessionFrame(kind) PROVE WindowInv'
  BY <1>3, <1>1 DEF SkipSessionFrame
<1>4. CASE Submit \/ SubmitFails  BY <1>4, SubmitWindow
<1>5. CASE Account  BY <1>5, AccountWindow
<1>6. CASE AccountFailure
  <2>1. SlotOf(next_complete) \in Slot  BY SlotInRing DEF TypeInv, TypeOK
  <2> QED  BY <1>6, <2>1, SlotWindow DEF AccountFailure, counts
<1>7. ASSUME NEW k \in next_complete .. submit_count - 1,
             CompleteBadly(k) \/ \E n \in 0..Chunk : Complete(k, n)
      PROVE  WindowInv'
  <2>1. SlotOf(k) \in Slot  BY SlotInRing DEF TypeInv, TypeOK
  <2> QED  BY <1>7, <2>1, SlotWindow DEF CompleteBadly, Complete, counts, flags, outs
<1>8. CASE WriterWrites \/ WriterGivesUp
  <2>1. SlotOf(write_idx) \in Slot  BY SlotInRing DEF TypeInv, TypeOK
  <2> QED  BY <1>8, <2>1, SlotWindow DEF WriterWrites, WriterGivesUp, counts, flags, outs
<1>9. CASE Header  BY <1>1, <1>2, <1>3, <1>9 DEF Header
<1>10. CASE Usb  BY <1>7, <1>10 DEF Usb
<1>11. CASE Writer  BY <1>1, <1>8, <1>11 DEF Writer
<1>12. CASE Main  BY <1>1, <1>4, <1>5, <1>6, <1>9, <1>12 DEF Main
<1> QED  BY <1>1, <1>10, <1>11, <1>12 DEF Next, Returned

\* No libusb_transfer is freed while libusb holds it, whatever the sizes, and with short
\* completions too, unless the drain of a wedged device gave up.
THEOREM FreedOnlyWhenIdle == Spec => []FreedTransfersIdle
<1>1. Init => TypeInv /\ RingInv /\ WindowInv  BY TypeInit, RingInit, WindowInit
<1>2. TypeInv /\ RingInv /\ WindowInv /\ [Next]_vars => TypeInv' /\ RingInv' /\ WindowInv'
  BY TypeStep, RingStep, WindowStep
<1>3. WindowInv => FreedTransfersIdle  BY DEF WindowInv
<1> QED  BY <1>1, <1>2, <1>3, PTL DEF Spec

-----------------------------------------------------------------------------
(* The writer.                                                             *)

\* Only what is ahead of the writer is in flight or ready.
Behind == /\ write_idx <= submit_count
          /\ \A s \in Slot : state[s] # "FREE" =>
                \E k \in write_idx .. submit_count - 1 : s = SlotOf(k)

\* What the writer is at, and why it stopped.
WriterPhase ==
    /\ writer \in {"write", "giveup"} =>
          write_idx < submit_count /\ (state[SlotOf(write_idx)] = "READY" \/ error)
    /\ writer = "exit" => write_error \/ recv_aborted \/ (usb_done /\ write_idx >= submit_count)
    /\ recv_aborted => error \/ write_error
    /\ usb_done => main \in {"join", "done"}
    /\ main = "header" => writer = "none" /\ write_idx = 0 /\ stream = 0 /\ disk = << >>
    /\ main = "done" => writer \in {"none", "exit"}
    /\ main # "done" => ~ok

WriterInv == Behind /\ WriterPhase

\* The steps of main that leave the ring alone.
QuietMain == \/ HeaderFails \/ SubmitSeesWriteError \/ SubmitDone
             \/ LeaveLoop \/ WaitSeesWriteError \/ SlotArrived
             \/ Finish \/ Drained \/ DrainGivesUp \/ Join

\* The writer's invariant under the steps of main.
LEMMA MainWriter ==
    ASSUME TypeInv, RingInv, WindowInv, WriterInv,
           \/ QuietMain \/ Submit \/ SubmitFails \/ Account \/ AccountFailure
           \/ \E kind, size : AcceptHeader(kind, size)
    PROVE  WriterInv'
<1> USE DEF TypeInv, TypeOK, WriterInv
<1>1. UNCHANGED <<write_idx, stream, disk, write_error>>
  BY DEF QuietMain, HeaderFails, SubmitSeesWriteError, SubmitDone, LeaveLoop, WaitSeesWriteError,
         SlotArrived, Finish, Drained, DrainGivesUp, Join, Submit, SubmitFails, Account,
         AccountFailure, AcceptHeader, flags, outs
<1>2. CASE QuietMain
  <2>1. UNCHANGED <<writer, state, submit_count>>
    BY <1>2 DEF QuietMain, HeaderFails, SubmitSeesWriteError, SubmitDone, LeaveLoop,
                WaitSeesWriteError, SlotArrived, Finish, Drained, DrainGivesUp, Join, slots, counts
  <2>2. Behind'  BY <1>1, <2>1 DEF Behind
  <2>3. WriterPhase'
    <3>1. CASE Finish  BY <1>1, <2>1, <3>1 DEF Finish, WriterPhase, outs
    <3>4. CASE Drained \/ DrainGivesUp
      BY <1>1, <2>1, <3>4 DEF Drained, DrainGivesUp, WriterPhase, outs
    <3>5. CASE Join  BY <1>1, <2>1, <3>5 DEF Join, WriterPhase, flags
    <3>2. CASE HeaderFails  BY <1>1, <2>1, <3>2 DEF HeaderFails, WriterPhase, flags, outs
    <3>3. CASE \/ SubmitSeesWriteError \/ SubmitDone \/ LeaveLoop \/ WaitSeesWriteError
               \/ SlotArrived
      BY <1>1, <2>1, <3>3
      DEF SubmitSeesWriteError, SubmitDone, LeaveLoop, WaitSeesWriteError, SlotArrived,
          WriterPhase, flags, outs
    <3> QED  BY <1>2, <3>1, <3>2, <3>3, <3>4, <3>5 DEF QuietMain
  <2> QED  BY <2>2, <2>3
<1>3. CASE Submit
  <2>1. SlotOf(submit_count) \in Slot /\ SlotOf(write_idx) \in Slot  BY SlotInRing
  <2>2. /\ main = "submit" /\ main' = "submit" /\ ~error /\ state[SlotOf(submit_count)] = "FREE"
        /\ state' = [state EXCEPT ![SlotOf(submit_count)] = "IN_FLIGHT"]
        /\ submit_count' = submit_count + 1
        /\ UNCHANGED <<writer, error, recv_aborted, usb_done, ok>>
    BY <1>3 DEF Submit, WantsSubmit, Reusable, flags, outs
  <2>3. Behind'
    <3>1. ASSUME NEW s \in Slot, state'[s] # "FREE"
          PROVE  \E k \in write_idx .. submit_count : s = SlotOf(k)
      <4>1. CASE s = SlotOf(submit_count)  BY <4>1 DEF Behind
      <4>2. CASE s # SlotOf(submit_count)
        <5>1. PICK k \in write_idx .. submit_count - 1 : s = SlotOf(k)
          BY <2>2, <3>1, <4>2 DEF Behind
        <5> QED  BY <5>1
      <4> QED  BY <4>1, <4>2
    <3> QED  BY <1>1, <2>2, <3>1 DEF Behind
  <2>4. WriterPhase'  BY <1>1, <2>1, <2>2 DEF WriterPhase
  <2> QED  BY <2>3, <2>4
<1>4. CASE SubmitFails \/ Account
  <2>1. /\ UNCHANGED <<writer, state, submit_count, recv_aborted, usb_done, ok>>
        /\ main \in {"submit", "account"} /\ main' \in {"submit", "loop"} /\ (error => error')
    BY <1>4 DEF SubmitFails, Account, counts, flags, outs
  <2>2. Behind'  BY <1>1, <2>1 DEF Behind
  <2>3. WriterPhase'  BY <1>1, <2>1 DEF WriterPhase
  <2> QED  BY <2>2, <2>3
<1>5. CASE AccountFailure
  <2>1. SlotOf(next_complete) \in Slot  BY SlotInRing
  <2>2. /\ state' = [state EXCEPT ![SlotOf(next_complete)] = "FREE"]
        /\ main = "account" /\ main' = "finish" /\ error'
        /\ UNCHANGED <<writer, submit_count, recv_aborted, usb_done, ok>>
    BY <1>5 DEF AccountFailure, counts, flags, outs
  <2>3. Behind'  BY <1>1, <2>1, <2>2 DEF Behind
  <2>4. WriterPhase'  BY <1>1, <2>2 DEF WriterPhase
  <2> QED  BY <2>3, <2>4
<1>6. ASSUME NEW kind, NEW size, AcceptHeader(kind, size) PROVE WriterInv'
  <2>1. /\ main = "header" /\ main' = "submit" /\ writer' = "await"
        /\ UNCHANGED <<state, submit_count, error, recv_aborted, usb_done, ok>>
    BY <1>6 DEF AcceptHeader, slots, counts, flags, outs
  <2>2. Behind'  BY <1>1, <2>1 DEF Behind
  <2>3. WriterPhase'  BY <1>1, <2>1 DEF WriterPhase
  <2> QED  BY <2>2, <2>3
<1> QED  BY <1>2, <1>3, <1>4, <1>5, <1>6

\* The writer's invariant under completions and its own steps.
LEMMA OtherWriter ==
    ASSUME TypeInv, RingInv, WindowInv, WriterInv,
           \/ Usb \/ Writer
    PROVE  WriterInv'
<1> USE DEF TypeInv, TypeOK, WriterInv
<1>1. SlotOf(write_idx) \in Slot  BY SlotInRing
<1>2. ASSUME NEW k \in next_complete .. submit_count - 1,
             CompleteBadly(k) \/ \E n \in 0..Chunk : Complete(k, n)
      PROVE  WriterInv'
  <2>1. SlotOf(k) \in Slot  BY SlotInRing
  <2>2. /\ state' = [state EXCEPT ![SlotOf(k)] = "READY"] /\ state[SlotOf(k)] = "IN_FLIGHT"
        /\ main \in {"loop", "drain"} /\ main' = main
        /\ UNCHANGED <<writer, submit_count, error, recv_aborted, usb_done, write_error, write_idx,
                       disk, ok>>
    BY <1>2 DEF CompleteBadly, Complete, InFlight, HandlingEvents, counts, flags, outs
  <2>3. Behind'  BY <2>1, <2>2 DEF Behind
  <2>4. WriterPhase'  BY <1>1, <2>1, <2>2 DEF WriterPhase
  <2> QED  BY <2>3, <2>4
<1>3. CASE WriterExits \/ WriterTakes \/ WriterFails
  <2>1. /\ UNCHANGED <<main, state, submit_count, error, recv_aborted, usb_done, write_idx, stream,
                       disk, ok>>
        /\ (write_error => write_error') /\ writer \in {"await", "write"}
    BY <1>3 DEF WriterExits, WriterTakes, WriterFails, slots, counts, flags, outs
  <2>2. Behind'  BY <2>1 DEF Behind
  <2>6. SlotOf(write_idx)' = SlotOf(write_idx)  BY <2>1 DEF SlotOf
  <2>3. CASE WriterExits
    <3>1. /\ writer = "await" /\ writer' = "exit" /\ write_error' = write_error
          /\ recv_aborted \/ (usb_done /\ write_idx >= submit_count)
      BY <2>3 DEF WriterExits, NothingToCome, flags
    <3> QED  BY <2>1, <2>2, <3>1 DEF WriterPhase
  <2>4. CASE WriterTakes
    <3>1. state[SlotOf(write_idx)] = "READY"  BY <2>4 DEF WriterTakes
    <3>2. write_idx < submit_count
      <4>1. PICK k \in write_idx .. submit_count - 1 : SlotOf(write_idx) = SlotOf(k)
        BY <1>1, <3>1 DEF Behind
      <4> QED  BY <4>1
    <3> QED  BY <2>1, <2>4, <2>2, <3>1, <3>2 DEF WriterTakes, WriterPhase, flags
  <2>5. CASE WriterFails
    <3>1. writer = "write" /\ writer' = "giveup" /\ write_error'  BY <2>5 DEF WriterFails
    <3> QED  BY <2>1, <2>2, <2>6, <3>1 DEF WriterPhase
  <2> QED  BY <1>3, <2>2, <2>3, <2>4, <2>5
<1>4. CASE WriterWrites
  <2>1. /\ state' = [state EXCEPT ![SlotOf(write_idx)] = "FREE"]
        /\ writer = "write" /\ writer' = "await" /\ write_idx' = write_idx + 1
        /\ UNCHANGED <<main, submit_count, error, recv_aborted, usb_done, write_error, stream, ok>>
    BY <1>4 DEF WriterWrites, counts, flags, outs
  <2>2. write_idx < submit_count /\ main \notin {"header", "done"}  BY <2>1 DEF WriterPhase
  <2>3. Behind'
    <3>1. ASSUME NEW s \in Slot, state'[s] # "FREE"
          PROVE  \E k \in write_idx + 1 .. submit_count - 1 : s = SlotOf(k)
      <4>1. s # SlotOf(write_idx) /\ state[s] # "FREE"  BY <1>1, <2>1, <3>1
      <4>2. PICK k \in write_idx .. submit_count - 1 : s = SlotOf(k)  BY <4>1 DEF Behind
      <4>3. k # write_idx  BY <4>1, <4>2
      <4> QED  BY <4>2, <4>3
    <3> QED  BY <2>1, <2>2, <3>1 DEF Behind
  <2>4. WriterPhase'  BY <2>1, <2>2 DEF WriterPhase
  <2> QED  BY <2>3, <2>4
<1>5. CASE WriterGivesUp
  <2>1. /\ state' = [state EXCEPT ![SlotOf(write_idx)] = "FREE"]
        /\ writer = "giveup" /\ writer' = "exit"
        /\ UNCHANGED <<main, submit_count, error, recv_aborted, usb_done, write_error, write_idx,
                       stream, disk, ok>>
    BY <1>5 DEF WriterGivesUp, counts, flags, outs
  <2>2. write_error  BY <2>1 DEF RingInv, ErrorBeforeFree
  <2>3. Behind'  BY <1>1, <2>1 DEF Behind
  <2>4. WriterPhase'  BY <2>1, <2>2 DEF WriterPhase
  <2> QED  BY <2>3, <2>4
<1> QED  BY <1>2, <1>3, <1>4, <1>5 DEF Usb, Writer

\* The writer's invariant, step by step.
LEMMA WriterStep == TypeInv /\ RingInv /\ WindowInv /\ WriterInv /\ [Next]_vars => WriterInv'
<1> SUFFICES ASSUME TypeInv, RingInv, WindowInv, WriterInv, [Next]_vars PROVE WriterInv'
  OBVIOUS
<1>1. CASE Usb \/ Writer
  <2>1. Usb \/ Writer  BY <1>1
  <2> QED  BY <2>1, OtherWriter
<1>2. CASE \/ QuietMain \/ Submit \/ SubmitFails \/ Account \/ AccountFailure
           \/ \E kind, size : AcceptHeader(kind, size)
  BY <1>2, MainWriter
<1>3. CASE UNCHANGED vars
  BY <1>3 DEF vars, slots, counts, flags, outs, WriterInv, Behind, WriterPhase
<1>6. ASSUME NEW kind, NEW size, SkipSessionFrame(kind) \/ AcceptHeader(kind, size)
      PROVE  WriterInv'
  <2>1. CASE SkipSessionFrame(kind)  BY <1>3, <2>1 DEF SkipSessionFrame
  <2>2. CASE AcceptHeader(kind, size)
    <3>1. \E k, n : AcceptHeader(k, n)  BY <2>2
    <3> QED  BY <1>2, <3>1
  <2> QED  BY <1>6, <2>1, <2>2
<1>4. CASE Header
  <2>1. CASE HeaderFails  BY <1>2, <2>1 DEF QuietMain
  <2> QED  BY <1>4, <1>6, <2>1 DEF Header
<1>5. CASE Main  BY <1>2, <1>4, <1>5 DEF Main, QuietMain
<1> QED  BY <1>1, <1>3, <1>5 DEF Next, Returned

\* The writer at the start.
LEMMA WriterInit == Init => WriterInv
  BY DEF Init, WriterInv, Behind, WriterPhase

-----------------------------------------------------------------------------
(* What is counted, when no transfer ends early.                           *)

SizeOf(k) == Least(file_size - Off(k), Chunk)

\* The transfers of the window up to the k-th have all ended, and none badly.
Settled(k) == \A j \in next_complete..k : state[SlotOf(j)] # "IN_FLIGHT" /\ status[SlotOf(j)]

\* What main has counted are the chunks before next_complete.
Counted == /\ next_complete <= submit_count
           /\ bytes_received = Least(Off(next_complete), file_size)

\* Until a failure is seen: every transfer asks for its own piece of the file; those that
\* have settled brought it, and the next one in flight begins where the fabric stands; and
\* nothing overtakes the first transfer in flight except failures.
Asks == ~error => \A k \in Window : real_bytes[SlotOf(k)] = SizeOf(k)
Arrives == ~error => \A k \in Window : Settled(k) =>
              actual[SlotOf(k)] \in {Chunk, SizeOf(k)} /\ stream >= Off(k) + SizeOf(k)
Streams == ~error => \A k \in next_complete .. submit_count :
              Settled(k - 1) /\ (k = submit_count \/ state[SlotOf(k)] = "IN_FLIGHT") =>
                 IF Off(k) < file_size THEN stream = Off(k) ELSE stream >= file_size
FirstFirst == ~error => \A j, k \in Window :
                 j < k /\ state[SlotOf(j)] = "IN_FLIGHT" /\ state[SlotOf(k)] # "IN_FLIGHT" =>
                    ~status[SlotOf(k)]

CountInv == Counted /\ Asks /\ Arrives /\ Streams /\ FirstFirst

\* A transfer that was submitted begins inside the file and asks for what is left, or a chunk.
LEMMA PieceOfFile ==
    ASSUME TypeInv, WindowInv, NEW k \in Nat, k < submit_count
    PROVE  /\ k \in Nat /\ Off(k) \in Nat /\ Off(k) < file_size /\ file_size \in Nat
           /\ SizeOf(k) \in 1..Chunk
           /\ Off(k + 1) = Off(k) + Chunk
           /\ SizeOf(k) = Least(file_size - Off(k), Chunk)
           /\ Off(k) + SizeOf(k) = Least(Off(k + 1), file_size)
<1>1. k \in Nat /\ k \in 0 .. submit_count - 1 /\ file_size \in Nat
  BY DEF TypeInv, TypeOK
<1>2. Off(k) \in Nat /\ Off(k + 1) = Off(k) + Chunk  BY <1>1, Offsets
<1>3. Off(k) < file_size  BY <1>1 DEF WindowInv, Asked
<1>4. ASSUME NEW a \in Nat, NEW f \in Nat, NEW c \in Nat \ {0}, a < f
      PROVE  Least(f - a, c) \in 1..c /\ a + Least(f - a, c) = Least(a + c, f)
  BY <1>4 DEF Least
<1>5. SizeOf(k) \in 1..Chunk /\ Off(k) + SizeOf(k) = Least(Off(k) + Chunk, file_size)
  BY <1>1, <1>2, <1>3, <1>4, SizesAssumption DEF SizeOf
<1> QED  BY <1>1, <1>2, <1>3, <1>5 DEF SizeOf

\* The slots of the window are distinct.
LEMMA WindowSlots ==
    ASSUME TypeInv, RingInv
    PROVE  /\ \A k \in Window : k \in Nat /\ k < submit_count /\ SlotOf(k) \in Slot
           /\ \A j, k \in Window : j # k => SlotOf(j) # SlotOf(k)
<1>1. submit_count \in Nat /\ next_complete \in Nat /\ submit_count <= next_complete + Pool
      /\ Pool \in Nat
  BY SizesAssumption DEF TypeInv, TypeOK, RingInv, NoReuseBeforeWrite
<1>2. \A k \in Window : k \in Nat /\ k < submit_count /\ SlotOf(k) \in Slot
  BY <1>1, SlotInRing DEF Window
<1>3. ASSUME NEW j \in Window, NEW k \in Window, j # k PROVE SlotOf(j) # SlotOf(k)
  <2>1. j \in Nat /\ k \in Nat /\ j < k + Pool /\ k < j + Pool  BY <1>1 DEF Window
  <2> QED  BY <1>3, <2>1, OwnSlot
<1> QED  BY <1>2, <1>3

\* Steps that leave libusb's side of the ring and the counters alone.
LEMMA QuietCount ==
    ASSUME TypeInv, RingInv, CountInv, error => error',
           UNCHANGED <<status, actual, real_bytes, counts, stream, file_size>>,
           \A s \in Slot : state'[s] = "IN_FLIGHT" <=> state[s] = "IN_FLIGHT"
    PROVE  CountInv'
<1>1. /\ UNCHANGED <<status, actual, real_bytes, bytes_received, submit_count, next_complete,
                     stream, file_size>>
      /\ next_complete \in Nat /\ submit_count \in Nat
  BY DEF counts, TypeInv, TypeOK
<1>2. Window' = Window  BY <1>1 DEF Window
<1>3. Counted' /\ Asks'  BY <1>1, <1>2 DEF CountInv, Counted, Asks, SizeOf
<1>4. ASSUME NEW k PROVE Settled(k)' <=> Settled(k)
  <2>1. \A j \in next_complete..k : SlotOf(j) \in Slot  BY <1>1, SlotInRing
  <2> QED  BY <1>1, <2>1 DEF Settled
<1>5. Arrives'  BY <1>1, <1>2, <1>4 DEF CountInv, Arrives, SizeOf
<1>6. Streams'
  <2>1. \A k \in next_complete .. submit_count : SlotOf(k) \in Slot  BY <1>1, SlotInRing
  <2> QED  BY <1>1, <1>4, <2>1 DEF CountInv, Streams
<1>7. FirstFirst'
  <2>1. \A k \in Window : SlotOf(k) \in Slot  BY WindowSlots
  <2> QED  BY <1>1, <1>2, <2>1 DEF CountInv, FirstFirst
<1> QED  BY <1>3, <1>5, <1>6, <1>7 DEF CountInv

\* Once main has seen a failure, only what it has counted matters.
LEMMA FailedCount ==
    ASSUME TypeInv, CountInv, error', UNCHANGED <<counts, file_size>>
    PROVE  CountInv'
<1>1. UNCHANGED <<bytes_received, submit_count, next_complete, file_size>>  BY DEF counts
<1>2. Counted'  BY <1>1 DEF CountInv, Counted
<1> QED  BY <1>2 DEF CountInv, Asks, Arrives, Streams, FirstFirst

\* One slot changes, that of the k-th transfer: what is settled before it stays so.
LEMMA SettledBefore ==
    ASSUME TypeInv, RingInv, NEW k \in Window, NEW v, NEW b,
           state' = [state EXCEPT ![SlotOf(k)] = v],
           status' = [status EXCEPT ![SlotOf(k)] = b],
           UNCHANGED <<next_complete, submit_count>>
    PROVE  /\ \A i \in Int : i < k => (Settled(i)' <=> Settled(i))
           /\ \A i \in Window : i > k => SlotOf(i) \in Slot /\ SlotOf(i) # SlotOf(k)
                                         /\ state'[SlotOf(i)] = state[SlotOf(i)]
                                         /\ status'[SlotOf(i)] = status[SlotOf(i)]
           /\ \A i \in Window : i < k => SlotOf(i) \in Slot /\ SlotOf(i) # SlotOf(k)
                                         /\ state'[SlotOf(i)] = state[SlotOf(i)]
                                         /\ status'[SlotOf(i)] = status[SlotOf(i)]
           /\ state'[SlotOf(k)] = v /\ status'[SlotOf(k)] = b
<1>1. /\ \A i \in Window : i \in Nat /\ SlotOf(i) \in Slot
      /\ \A i, j \in Window : i # j => SlotOf(i) # SlotOf(j)
  BY WindowSlots
<1>2. state \in [Slot -> {"FREE", "IN_FLIGHT", "READY"}] /\ status \in [Slot -> BOOLEAN]
      /\ next_complete \in Nat /\ submit_count \in Nat
  BY DEF TypeInv, TypeOK
<1>3. ASSUME NEW i \in Window, i # k
      PROVE  /\ SlotOf(i) \in Slot /\ SlotOf(i) # SlotOf(k)
             /\ state'[SlotOf(i)] = state[SlotOf(i)] /\ status'[SlotOf(i)] = status[SlotOf(i)]
  BY <1>1, <1>2, <1>3
<1>4. ASSUME NEW i \in Int, i < k PROVE Settled(i)' <=> Settled(i)
  <2>1. \A j \in next_complete..i : j \in Window /\ j # k  BY <1>2, <1>4 DEF Window
  <2>2. \A j \in next_complete..i : state'[SlotOf(j)] = state[SlotOf(j)]
                                    /\ status'[SlotOf(j)] = status[SlotOf(j)]
    BY <1>3, <2>1
  <2> QED  BY <2>2 DEF Settled
<1>5. state'[SlotOf(k)] = v /\ status'[SlotOf(k)] = b  BY <1>1, <1>2
<1>6. \A i \in Window : i > k \/ i < k => i # k  BY <1>1
<1> QED  BY <1>3, <1>4, <1>5, <1>6

\* A transfer is submitted behind the window: it has a slot of its own, and nothing else
\* settles or stops being settled.
LEMMA SubmitSettled ==
    ASSUME TypeInv, RingInv, WindowInv, CountInv, Submit
    PROVE  /\ next_complete <= submit_count
           /\ \A k \in Window : SlotOf(k) # SlotOf(submit_count)
           /\ \A k \in Int : k < submit_count => (Settled(k)' <=> Settled(k))
           /\ \A k \in Int : k >= submit_count => ~Settled(k)'
<1> USE DEF TypeInv, TypeOK
<1> DEFINE s == SlotOf(submit_count)
<1>1. /\ active < MaxInflight
      /\ state' = [state EXCEPT ![s] = "IN_FLIGHT"]
      /\ status' = [status EXCEPT ![s] = TRUE]
      /\ submit_count' = submit_count + 1
      /\ UNCHANGED next_complete
  BY DEF Submit, WantsSubmit
<1>2. s \in Slot /\ next_complete \in Nat /\ submit_count \in Nat
  BY SlotInRing
<1>3. next_complete <= submit_count /\ submit_count < next_complete + Pool
  BY <1>1, <1>2, SizesAssumption DEF CountInv, Counted, RingInv, WindowOfTransfers
<1> HIDE DEF s
<1>5. \A k \in Window : /\ k \in Nat /\ SlotOf(k) \in Slot /\ k < submit_count
                        /\ SlotOf(k) # s
  <2>1. ASSUME NEW k \in Window PROVE k \in Nat /\ k < submit_count /\ submit_count < k + Pool
    BY <1>2, <1>3, SizesAssumption DEF Window
  <2>2. ASSUME NEW k \in Window PROVE SlotOf(k) # s
    <3>1. k # submit_count /\ k < submit_count + Pool  BY <1>2, <2>1, SizesAssumption
    <3> QED  BY <1>2, <2>1, <3>1, OwnSlot DEF s
  <2> QED  BY <2>1, <2>2, WindowSlots
<1>6. state'[s] = "IN_FLIGHT"  BY <1>1, <1>2
<1>7. ASSUME NEW k \in Window
      PROVE  state'[SlotOf(k)] = state[SlotOf(k)] /\ status'[SlotOf(k)] = status[SlotOf(k)]
  BY <1>1, <1>2, <1>5
<1>8. ASSUME NEW k \in Int, k < submit_count PROVE Settled(k)' <=> Settled(k)
  <2>1. \A j \in next_complete..k : j \in Window  BY <1>2, <1>8 DEF Window
  <2> QED  BY <1>1, <1>7, <2>1 DEF Settled
<1>9. ASSUME NEW k \in Int, k >= submit_count PROVE ~Settled(k)'
  <2>1. submit_count \in next_complete..k  BY <1>2, <1>3, <1>9
  <2>2. state'[SlotOf(submit_count)] = "IN_FLIGHT"  BY <1>6 DEF s
  <2>3. \E j \in next_complete'..k : state'[SlotOf(j)] = "IN_FLIGHT"  BY <1>1, <2>1, <2>2
  <2> QED  BY <2>3 DEF Settled
<1> QED  BY <1>3, <1>5, <1>8, <1>9 DEF s

\* The books when a transfer is submitted.
LEMMA SubmitCount ==
    ASSUME TypeInv, RingInv, WindowInv, CountInv, Submit
    PROVE  CountInv'
<1> USE DEF TypeInv, TypeOK
<1> DEFINE s == SlotOf(submit_count)
<1>1. /\ main = "submit" /\ ~error /\ active < MaxInflight /\ bytes_submitted < file_size
      /\ state' = [state EXCEPT ![s] = "IN_FLIGHT"]
      /\ status' = [status EXCEPT ![s] = TRUE]
      /\ real_bytes' = [real_bytes EXCEPT ![s] = SubmitSize]
      /\ submit_count' = submit_count + 1
      /\ UNCHANGED <<actual, file_size, bytes_received, next_complete, error, stream>>
  BY DEF Submit, WantsSubmit, outs
<1>2. s \in Slot /\ next_complete \in Nat /\ submit_count \in Nat /\ file_size \in Nat
  BY SlotInRing
<1>3. next_complete <= submit_count /\ submit_count < next_complete + Pool
  BY <1>1, <1>2, SizesAssumption DEF CountInv, Counted, RingInv, WindowOfTransfers
<1>4. Window' = next_complete .. submit_count /\ submit_count \in Window'
      /\ \A k \in Window' : k = submit_count \/ k \in Window
  BY <1>1, <1>2, <1>3 DEF Window
<1> HIDE DEF s
<1>5. \A k \in Window : k \in Nat /\ SlotOf(k) \in Slot /\ k < submit_count /\ SlotOf(k) # s
  BY WindowSlots, SubmitSettled DEF s
<1>6. state'[s] = "IN_FLIGHT" /\ status'[s] = TRUE /\ real_bytes'[s] = SubmitSize
  BY <1>1, <1>2
<1>7. ASSUME NEW k \in Window
      PROVE  /\ state'[SlotOf(k)] = state[SlotOf(k)] /\ status'[SlotOf(k)] = status[SlotOf(k)]
             /\ real_bytes'[SlotOf(k)] = real_bytes[SlotOf(k)]
  BY <1>1, <1>2, <1>5
<1>8. \A k \in Int : k < submit_count => (Settled(k)' <=> Settled(k))  BY SubmitSettled
<1>9. \A k \in Int : k >= submit_count => ~Settled(k)'  BY SubmitSettled
<1>10. Counted'  BY <1>1, <1>2, <1>3 DEF CountInv, Counted
<1>11. \A k \in Nat : SizeOf(k)' = SizeOf(k)  BY <1>1 DEF SizeOf
<1>12. SubmitSize = SizeOf(submit_count)
  <2>1. bytes_submitted = Off(submit_count)
    <3>1. Off(submit_count) \in Nat  BY <1>2, Offsets
    <3> QED  BY <1>1, <1>2, <3>1 DEF WindowInv, Asked, Least
  <2> QED  BY <2>1 DEF SubmitSize, SizeOf
<1>13. Asks'
  <2>1. ASSUME NEW k \in Window' PROVE real_bytes'[SlotOf(k)] = SizeOf(k)
    <3>1. CASE k = submit_count  BY <1>6, <1>12, <3>1 DEF s
    <3>2. CASE k \in Window  BY <1>1, <1>7, <3>2 DEF CountInv, Asks
    <3> QED  BY <1>4, <3>1, <3>2
  <2>2. \A k \in Window' : k \in Nat  BY <1>2, <1>4, <1>5
  <2> QED  BY <1>11, <2>1, <2>2 DEF Asks
<1>14. Arrives'
  <2>1. ASSUME NEW k \in Window', Settled(k)'
        PROVE  actual'[SlotOf(k)] \in {Chunk, SizeOf(k)} /\ stream' >= Off(k) + SizeOf(k)
    <3>1. k # submit_count  BY <1>2, <1>9, <2>1
    <3>2. k \in Window /\ k \in Int /\ k < submit_count  BY <1>4, <1>5, <3>1
    <3>3. Settled(k)  BY <1>8, <2>1, <3>2
    <3> QED  BY <1>1, <3>2, <3>3 DEF CountInv, Arrives
  <2>2. \A k \in Window' : k \in Nat  BY <1>2, <1>4, <1>5
  <2> QED  BY <1>11, <2>1, <2>2 DEF Arrives
<1>15. Streams'
  <2>1. ASSUME NEW k \in next_complete .. submit_count + 1, Settled(k - 1)',
               k = submit_count + 1 \/ state'[SlotOf(k)] = "IN_FLIGHT"
        PROVE  IF Off(k) < file_size THEN stream = Off(k) ELSE stream >= file_size
    <3>1. k \in Int /\ k - 1 \in Int /\ ~(k - 1 >= submit_count)  BY <1>2, <1>9, <2>1
    <3>2. k \in next_complete .. submit_count  BY <1>2, <2>1, <3>1
    <3>3. Settled(k - 1)  BY <1>2, <1>8, <2>1, <3>1
    <3>4. k = submit_count \/ state[SlotOf(k)] = "IN_FLIGHT"
      <4>1. CASE k # submit_count
        <5>1. k \in Window  BY <1>2, <3>2, <4>1 DEF Window
        <5> QED  BY <1>2, <1>7, <2>1, <3>2, <5>1
      <4> QED  BY <4>1
    <3> QED  BY <1>1, <3>2, <3>3, <3>4 DEF CountInv, Streams
  <2> QED  BY <1>1, <2>1 DEF Streams
<1>16. FirstFirst'
  <2>1. ASSUME NEW j \in Window', NEW k \in Window', j < k, state'[SlotOf(j)] = "IN_FLIGHT",
               state'[SlotOf(k)] # "IN_FLIGHT"
        PROVE  ~status'[SlotOf(k)]
    <3>1. k # submit_count  BY <1>6, <2>1 DEF s
    <3>2. k \in Window  BY <1>4, <3>1
    <3>3. j # submit_count  BY <1>2, <1>5, <2>1, <3>2
    <3>4. j \in Window  BY <1>4, <3>3
    <3> QED  BY <1>1, <1>7, <2>1, <3>2, <3>4 DEF CountInv, FirstFirst
  <2> QED  BY <1>1, <2>1 DEF FirstFirst
<1> QED  BY <1>10, <1>13, <1>14, <1>15, <1>16 DEF CountInv

\* main accounts for the first transfer of the window: it brought what it asked for, so
\* real_bytes is corrected to what it was.
LEMMA AccountExact ==
    ASSUME TypeInv, RingInv, WindowInv, CountInv, Account
    PROVE  /\ next_complete \in Window
           /\ UNCHANGED real_bytes
           /\ bytes_received' = Least(Off(next_complete + 1), file_size)
           /\ bytes_received' > bytes_received
           /\ bytes_received' <= stream
<1> USE DEF TypeInv, TypeOK
<1> DEFINE s == SlotOf(next_complete)
           n == Least(actual[s], file_size - bytes_received)
<1>1. s \in Slot /\ next_complete \in Nat /\ submit_count \in Nat /\ file_size \in Nat
      /\ bytes_received \in Nat /\ actual[s] \in 0..Chunk /\ real_bytes[s] \in 0..Chunk
  <2>1. next_complete \in Nat  OBVIOUS
  <2>2. s \in Slot  BY <2>1, SlotInRing
  <2> HIDE DEF s
  <2>3. actual[s] \in 0..Chunk /\ real_bytes[s] \in 0..Chunk  BY <2>2
  <2> QED  BY <2>1, <2>2, <2>3
<1>2. /\ main = "account" /\ status[s] /\ bytes_received' = bytes_received + n
      /\ real_bytes' = [real_bytes EXCEPT ![s] = n]
  BY DEF Account
<1>3. ~error /\ bytes_received < file_size /\ state[s] # "IN_FLIGHT"
  BY <1>2 DEF WindowInv, MainPhase
<1>4. next_complete \in Window
  <2>1. SUFFICES ASSUME next_complete = submit_count PROVE FALSE
    BY <1>1 DEF Window, CountInv, Counted
  <2>2. bytes_submitted = file_size  BY <1>1, <1>2, <1>3, <2>1 DEF WindowInv, MainPhase
  <2>3. bytes_received = bytes_submitted
    BY <2>1 DEF WindowInv, Asked, CountInv, Counted
  <2> QED  BY <1>1, <1>3, <2>2, <2>3
<1>5. Settled(next_complete)
  <2>1. \A j \in next_complete .. next_complete : j = next_complete  BY <1>1
  <2> QED  BY <1>2, <1>3, <2>1 DEF Settled
<1>6. /\ real_bytes[s] = SizeOf(next_complete)
      /\ actual[s] \in {Chunk, SizeOf(next_complete)}
      /\ stream >= Off(next_complete) + SizeOf(next_complete)
  BY <1>3, <1>4, <1>5 DEF CountInv, Asks, Arrives
<1>7. /\ Off(next_complete) \in Nat /\ Off(next_complete) < file_size
      /\ SizeOf(next_complete) \in 1..Chunk
      /\ SizeOf(next_complete) = Least(file_size - Off(next_complete), Chunk)
      /\ Off(next_complete) + SizeOf(next_complete) = Least(Off(next_complete + 1), file_size)
  BY <1>4, WindowSlots, PieceOfFile
<1>8. bytes_received = Off(next_complete)
  BY <1>1, <1>7 DEF CountInv, Counted, Least
<1>9. n = SizeOf(next_complete)
  <2>1. ASSUME NEW d \in Nat, NEW c \in Nat, NEW m, m = c \/ m = Least(d, c)
        PROVE  Least(m, d) = Least(d, c)
    BY <2>1 DEF Least
  <2>2. n = Least(actual[s], file_size - Off(next_complete))  BY <1>8
  <2>3. actual[s] = Chunk \/ actual[s] = Least(file_size - Off(next_complete), Chunk)
    BY <1>6, <1>7
  <2>4. Chunk \in Nat  BY SizesAssumption
  <2>5. /\ Off(next_complete) \in Nat /\ file_size \in Nat /\ Off(next_complete) < file_size
        /\ SizeOf(next_complete) = Least(file_size - Off(next_complete), Chunk)
    BY <1>1, <1>7
  <2> HIDE DEF n, s
  <2>6. file_size - Off(next_complete) \in Nat  BY <2>5
  <2>7. n = Least(file_size - Off(next_complete), Chunk)  BY <2>1, <2>2, <2>3, <2>4, <2>6
  <2> QED  BY <2>5, <2>7
<1> HIDE DEF n, s
<1>10. real_bytes' = real_bytes  BY <1>1, <1>2, <1>6, <1>9
<1>11. bytes_received' = Off(next_complete) + SizeOf(next_complete)  BY <1>2, <1>8, <1>9
<1> QED  BY <1>1, <1>4, <1>6, <1>7, <1>8, <1>10, <1>11

\* It had settled, so what is settled behind it stays so.
LEMMA AccountSettled ==
    ASSUME TypeInv, RingInv, WindowInv, CountInv, Account
    PROVE  \A k \in Int : Settled(k)' <=> Settled(k)
<1>1. /\ next_complete' = next_complete + 1 /\ UNCHANGED <<state, status>>
      /\ main = "account" /\ status[SlotOf(next_complete)] /\ next_complete \in Nat
  BY DEF Account, TypeInv, TypeOK
<1>2. state[SlotOf(next_complete)] # "IN_FLIGHT"  BY <1>1 DEF WindowInv, MainPhase
<1>3. ASSUME NEW k \in Int PROVE Settled(k)' <=> Settled(k)
  <2>1. \A j \in next_complete..k : j = next_complete \/ j \in next_complete + 1 .. k
    BY <1>1
  <2>2. \A j \in next_complete + 1 .. k : j \in next_complete..k  BY <1>1
  <2> QED  BY <1>1, <1>2, <2>1, <2>2 DEF Settled
<1> QED  BY <1>3

\* The books when a transfer is accounted for.
LEMMA AccountCount ==
    ASSUME TypeInv, RingInv, WindowInv, CountInv, Account
    PROVE  CountInv'
<1> USE DEF TypeInv, TypeOK
<1>1. /\ next_complete' = next_complete + 1
      /\ UNCHANGED <<state, status, actual, real_bytes, file_size, submit_count, error, stream>>
      /\ main = "account" /\ status[SlotOf(next_complete)]
  BY AccountExact DEF Account, outs
<1>2. /\ next_complete \in Window /\ next_complete \in Nat /\ submit_count \in Nat
      /\ ~error /\ state[SlotOf(next_complete)] # "IN_FLIGHT"
  BY <1>1, AccountExact DEF WindowInv, MainPhase
<1>3. next_complete + 1 <= submit_count /\ Window' = next_complete + 1 .. submit_count - 1
      /\ \A k \in Window' : k \in Window /\ k \in Nat
  BY <1>1, <1>2 DEF Window
<1>4. Counted'
  <2>1. bytes_received' = Least(Off(next_complete + 1), file_size)  BY AccountExact
  <2> QED  BY <1>1, <1>3, <2>1 DEF Counted
<1>5. \A k \in Int : Settled(k)' <=> Settled(k)  BY AccountSettled
<1>6. Asks'  BY <1>1, <1>3 DEF CountInv, Asks, SizeOf
<1>7. Arrives'
  <2>1. \A k \in Window' : k \in Int /\ k >= next_complete  BY <1>2, <1>3
  <2> QED  BY <1>1, <1>2, <1>3, <1>5, <2>1 DEF CountInv, Arrives, SizeOf
<1>8. Streams'
  <2>1. ASSUME NEW k \in next_complete + 1 .. submit_count, Settled(k - 1)',
               k = submit_count \/ state[SlotOf(k)] = "IN_FLIGHT"
        PROVE  IF Off(k) < file_size THEN stream = Off(k) ELSE stream >= file_size
    <3>1. k - 1 \in Int /\ k - 1 >= next_complete /\ k \in next_complete .. submit_count
      BY <1>2
    <3>2. Settled(k - 1)  BY <1>5, <2>1, <3>1
    <3> QED  BY <1>2, <2>1, <3>1, <3>2 DEF CountInv, Streams
  <2> QED  BY <1>1, <2>1 DEF Streams
<1>9. FirstFirst'  BY <1>1, <1>2, <1>3 DEF CountInv, FirstFirst
<1> QED  BY <1>4, <1>6, <1>7, <1>8, <1>9 DEF CountInv

\* A transfer completes: if all before it have settled, it brings its own piece of the file.
LEMMA CompletionBrings ==
    ASSUME TypeInv, RingInv, WindowInv, CountInv, ~ShortReads, ~error,
           NEW k \in Window, NEW n \in Lengths, Settled(k - 1), state[SlotOf(k)] = "IN_FLIGHT"
    PROVE  /\ stream = Off(k) /\ n \in {Chunk, SizeOf(k)} /\ n \in Nat
           /\ stream + n >= Off(k) + SizeOf(k)
           /\ IF Off(k + 1) < file_size THEN stream + n = Off(k + 1)
                                        ELSE stream + n >= file_size
<1>1. /\ k \in Nat /\ Off(k) \in Nat /\ Off(k) < file_size /\ file_size \in Nat
      /\ SizeOf(k) \in 1..Chunk /\ Off(k + 1) = Off(k) + Chunk
      /\ SizeOf(k) = Least(file_size - Off(k), Chunk)
  BY WindowSlots, PieceOfFile
<1>2. k \in next_complete .. submit_count  BY DEF Window, TypeInv, TypeOK
<1>3. stream = Off(k)  BY <1>1, <1>2 DEF CountInv, Streams
<1>4. n \in {Chunk, SizeOf(k)}  BY <1>1, <1>3 DEF Lengths
<1>5. Chunk \in Nat \ {0}  BY SizesAssumption
<1>6. ASSUME NEW a \in Nat, NEW f \in Nat, NEW c \in Nat \ {0}, NEW z, a < f,
             z = Least(f - a, c), NEW m \in {c, z}
      PROVE  /\ m \in Nat /\ a + m >= a + z
             /\ IF a + c < f THEN a + m = a + c ELSE a + m >= f
  BY <1>6 DEF Least
<1>7. /\ n \in Nat /\ Off(k) + n >= Off(k) + SizeOf(k)
      /\ IF Off(k) + Chunk < file_size THEN Off(k) + n = Off(k) + Chunk ELSE Off(k) + n >= file_size
  BY <1>1, <1>4, <1>5, <1>6
<1> QED  BY <1>1, <1>3, <1>4, <1>7

\* What has settled before it stays settled; behind it only failures have ended.
LEMMA CompleteSettled ==
    ASSUME TypeInv, RingInv, WindowInv, CountInv, ~error, NEW k \in Window,
           NEW n \in 0..Chunk, Complete(k, n)
    PROVE  /\ \A i \in Int : i < k => (Settled(i)' <=> Settled(i))
           /\ Settled(k)' => Settled(k - 1)
           /\ \A i \in Window : i > k => ~Settled(i)'
<1> USE DEF TypeInv, TypeOK
<1>1. /\ state[SlotOf(k)] = "IN_FLIGHT"
      /\ state' = [state EXCEPT ![SlotOf(k)] = "READY"]
      /\ status' = [status EXCEPT ![SlotOf(k)] = TRUE]
      /\ UNCHANGED <<next_complete, submit_count>>
  BY DEF Complete, InFlight, counts, Window
<1>2. /\ \A i \in Int : i < k => (Settled(i)' <=> Settled(i))
      /\ \A i \in Window : i > k => state'[SlotOf(i)] = state[SlotOf(i)]
                                    /\ status'[SlotOf(i)] = status[SlotOf(i)]
      /\ \A i \in Window : i < k => state'[SlotOf(i)] = state[SlotOf(i)]
                                    /\ status'[SlotOf(i)] = status[SlotOf(i)]
  BY <1>1, SettledBefore
<1>3. next_complete \in Nat /\ submit_count \in Nat /\ k \in Nat
      /\ \A i \in Window : i \in Nat
  BY WindowSlots
<1>4. ASSUME NEW i \in Window, i > k PROVE ~Settled(i)'
  <2>1. i \in next_complete'..i  BY <1>1, <1>3 DEF Window
  <2>2. CASE state[SlotOf(i)] = "IN_FLIGHT"
    BY <1>2, <1>4, <2>1, <2>2 DEF Settled
  <2>3. CASE state[SlotOf(i)] # "IN_FLIGHT"
    <3>1. ~status[SlotOf(i)]  BY <1>1, <1>4, <2>3 DEF CountInv, FirstFirst
    <3> QED  BY <1>2, <1>4, <2>1, <3>1 DEF Settled
  <2> QED  BY <2>2, <2>3
<1>5. Settled(k)' => Settled(k - 1)
  <2>1. \A j \in next_complete .. k - 1 : j \in next_complete'..k /\ j \in Window /\ j < k
    BY <1>1, <1>3 DEF Window
  <2> QED  BY <1>2, <2>1 DEF Settled
<1> QED  BY <1>2, <1>4, <1>5

\* The books when a transfer completes.
LEMMA CompleteCount ==
    ASSUME TypeInv, RingInv, WindowInv, CountInv, ~ShortReads, NEW k \in Window,
           NEW n \in 0..Chunk, Complete(k, n)
    PROVE  CountInv'
<1> USE DEF TypeInv, TypeOK
<1>1. /\ state[SlotOf(k)] = "IN_FLIGHT" /\ n \in Lengths
      /\ \A j \in Window : state[SlotOf(j)] = "IN_FLIGHT" => k <= j
      /\ state' = [state EXCEPT ![SlotOf(k)] = "READY"]
      /\ status' = [status EXCEPT ![SlotOf(k)] = TRUE]
      /\ actual' = [actual EXCEPT ![SlotOf(k)] = n]
      /\ stream' = stream + n
      /\ UNCHANGED <<real_bytes, bytes_received, next_complete, submit_count, error, file_size>>
      /\ UNCHANGED <<counts>>
  BY DEF Complete, InFlight, counts, Window
<1>2. CASE error  BY <1>1, <1>2, FailedCount
<1>3. CASE ~error
  <2>1. /\ \A i \in Int : i < k => (Settled(i)' <=> Settled(i))
        /\ \A i \in Window : i > k => SlotOf(i) \in Slot /\ SlotOf(i) # SlotOf(k)
                                      /\ state'[SlotOf(i)] = state[SlotOf(i)]
                                      /\ status'[SlotOf(i)] = status[SlotOf(i)]
        /\ \A i \in Window : i < k => SlotOf(i) \in Slot /\ SlotOf(i) # SlotOf(k)
                                      /\ state'[SlotOf(i)] = state[SlotOf(i)]
                                      /\ status'[SlotOf(i)] = status[SlotOf(i)]
        /\ state'[SlotOf(k)] = "READY" /\ status'[SlotOf(k)] = TRUE
    BY <1>1, SettledBefore
  <2>2. /\ next_complete \in Nat /\ submit_count \in Nat /\ n \in Nat /\ stream \in Nat
        /\ \A i \in Window : i \in Nat /\ SlotOf(i) \in Slot
    BY WindowSlots
  <2>3. Window' = Window  BY <1>1 DEF Window
  <2>4. Counted' /\ Asks'  BY <1>1, <2>3 DEF CountInv, Counted, Asks, SizeOf
  <2>5. \A i : SizeOf(i)' = SizeOf(i)  BY <1>1 DEF SizeOf
  <2>6. \A i \in Window : i > k => ~Settled(i)'  BY <1>3, CompleteSettled
  <2>7. Settled(k)' => Settled(k - 1)  BY <1>3, CompleteSettled
  <2>8. k - 1 \in Int /\ k - 1 < k /\ k \in Int  BY <2>2
  <2>9. Arrives'
    <3>1. ASSUME NEW i \in Window, Settled(i)'
          PROVE  actual'[SlotOf(i)] \in {Chunk, SizeOf(i)} /\ stream' >= Off(i) + SizeOf(i)
      <4>1. CASE i = k
        <5>1. Settled(k - 1)  BY <2>7, <3>1, <4>1
        <5>2. n \in {Chunk, SizeOf(k)} /\ stream + n >= Off(k) + SizeOf(k)
          BY <1>1, <1>3, <5>1, CompletionBrings
        <5>3. actual'[SlotOf(k)] = n  BY <1>1, <2>2
        <5> QED  BY <1>1, <4>1, <5>2, <5>3
      <4>2. CASE i < k
        <5>1. Settled(i)  BY <2>1, <2>2, <3>1, <4>2
        <5>2. actual[SlotOf(i)] \in {Chunk, SizeOf(i)} /\ stream >= Off(i) + SizeOf(i)
          BY <1>3, <5>1 DEF CountInv, Arrives
        <5>3. Off(i) \in Nat /\ SizeOf(i) \in Nat  BY WindowSlots, PieceOfFile
        <5>4. actual'[SlotOf(i)] = actual[SlotOf(i)]  BY <1>1, <2>1, <2>2, <4>2
        <5> QED  BY <1>1, <2>2, <5>2, <5>3, <5>4
      <4>3. ~(i > k)  BY <2>6, <3>1
      <4> QED  BY <2>2, <4>1, <4>2, <4>3
    <3> QED  BY <1>3, <2>3, <2>5, <3>1 DEF Arrives
  <2>10. Streams'
    <3>1. ASSUME NEW i \in next_complete .. submit_count, Settled(i - 1)',
                 i = submit_count \/ state'[SlotOf(i)] = "IN_FLIGHT"
          PROVE  IF Off(i) < file_size THEN stream' = Off(i) ELSE stream' >= file_size
      <4>1. k < submit_count /\ k >= next_complete  BY <2>2 DEF Window
      <4>2. ~(i < k)
        <5>1. SUFFICES ASSUME i < k PROVE FALSE  OBVIOUS
        <5>2. i \in Window /\ i # submit_count  BY <2>2, <4>1, <5>1 DEF Window
        <5>4. state'[SlotOf(i)] = state[SlotOf(i)]  BY <2>1, <5>1, <5>2
        <5>5. state'[SlotOf(i)] = "IN_FLIGHT"  BY <3>1, <5>2
        <5>3. state[SlotOf(i)] = "IN_FLIGHT"  BY <5>4, <5>5
        <5> QED  BY <1>1, <2>2, <5>1, <5>2, <5>3
      <4>3. i # k  BY <2>1, <3>1, <4>1
      <4>4. ~(i - 1 > k)
        <5>1. SUFFICES ASSUME i - 1 > k PROVE FALSE  OBVIOUS
        <5>2. i - 1 \in Window  BY <2>2, <4>1, <5>1 DEF Window
        <5> QED  BY <2>6, <3>1, <5>1, <5>2
      <4>5. i = k + 1 /\ i - 1 = k  BY <2>2, <4>2, <4>3, <4>4
      <4>6. Settled(k - 1)  BY <2>7, <3>1, <4>5
      <4> QED  BY <1>1, <1>3, <4>5, <4>6, CompletionBrings
    <3> QED  BY <1>1, <3>1 DEF Streams
  <2>11. FirstFirst'
    <3>1. ASSUME NEW i \in Window, NEW j \in Window, i < j, state'[SlotOf(i)] = "IN_FLIGHT",
                 state'[SlotOf(j)] # "IN_FLIGHT"
          PROVE  ~status'[SlotOf(j)]
      <4>1. i # k  BY <2>1, <3>1
      <4>4. i < k \/ i > k  BY <2>2, <4>1
      <4>5. state'[SlotOf(i)] = state[SlotOf(i)]  BY <2>1, <4>4
      <4>2. state[SlotOf(i)] = "IN_FLIGHT"  BY <3>1, <4>5
      <4>3. i > k /\ j > k  BY <1>1, <2>2, <3>1, <4>1, <4>2
      <4> QED  BY <1>3, <2>1, <3>1, <4>2, <4>3 DEF CountInv, FirstFirst
    <3> QED  BY <2>3, <3>1 DEF FirstFirst
  <2> QED  BY <2>4, <2>9, <2>10, <2>11 DEF CountInv
<1> QED  BY <1>2, <1>3

\* A transfer ends badly: nothing at or behind it is settled any more.
LEMMA BadlyCount ==
    ASSUME TypeInv, RingInv, WindowInv, CountInv, NEW k \in Window, CompleteBadly(k)
    PROVE  CountInv'
<1> USE DEF TypeInv, TypeOK
<1>1. /\ state[SlotOf(k)] = "IN_FLIGHT"
      /\ state' = [state EXCEPT ![SlotOf(k)] = "READY"]
      /\ status' = [status EXCEPT ![SlotOf(k)] = FALSE]
      /\ actual' = [actual EXCEPT ![SlotOf(k)] = 0]
      /\ UNCHANGED <<real_bytes, bytes_received, next_complete, submit_count, error, file_size,
                     stream>>
  BY DEF CompleteBadly, InFlight, counts, outs, Window
<1>2. /\ \A i \in Int : i < k => (Settled(i)' <=> Settled(i))
      /\ \A i \in Window : i > k => SlotOf(i) \in Slot /\ SlotOf(i) # SlotOf(k)
                                    /\ state'[SlotOf(i)] = state[SlotOf(i)]
                                    /\ status'[SlotOf(i)] = status[SlotOf(i)]
      /\ \A i \in Window : i < k => SlotOf(i) \in Slot /\ SlotOf(i) # SlotOf(k)
                                    /\ state'[SlotOf(i)] = state[SlotOf(i)]
                                    /\ status'[SlotOf(i)] = status[SlotOf(i)]
      /\ state'[SlotOf(k)] = "READY" /\ status'[SlotOf(k)] = FALSE
  BY <1>1, SettledBefore
<1>3. /\ next_complete \in Nat /\ submit_count \in Nat
      /\ k < submit_count /\ k >= next_complete /\ k \in Nat
      /\ \A i \in Window : i \in Nat /\ SlotOf(i) \in Slot
  BY WindowSlots DEF Window
<1>4. Window' = Window  BY <1>1 DEF Window
<1>5. Counted' /\ Asks'  BY <1>1, <1>4 DEF CountInv, Counted, Asks, SizeOf
<1>6. ASSUME NEW i \in Int, i >= k PROVE ~Settled(i)'
  <2>1. k \in next_complete'..i  BY <1>1, <1>3, <1>6
  <2> QED  BY <1>2, <2>1 DEF Settled
<1>7. Arrives'
  <2>1. ASSUME NEW i \in Window, Settled(i)', ~error
        PROVE  actual'[SlotOf(i)] \in {Chunk, SizeOf(i)} /\ stream >= Off(i) + SizeOf(i)
    <3>1. i \in Int /\ i < k  BY <1>3, <1>6, <2>1
    <3>2. Settled(i)  BY <1>2, <2>1, <3>1
    <3>3. actual'[SlotOf(i)] = actual[SlotOf(i)]  BY <1>1, <1>2, <1>3, <3>1
    <3> QED  BY <2>1, <3>2, <3>3 DEF CountInv, Arrives
  <2> QED  BY <1>1, <1>4, <2>1 DEF Arrives, SizeOf
<1>8. Streams'
  <2>1. ASSUME NEW i \in next_complete .. submit_count, Settled(i - 1)', ~error,
               i = submit_count \/ state'[SlotOf(i)] = "IN_FLIGHT"
        PROVE  IF Off(i) < file_size THEN stream = Off(i) ELSE stream >= file_size
    <3>1. i - 1 \in Int /\ i - 1 < k  BY <1>3, <1>6, <2>1
    <3>2. Settled(i - 1)  BY <1>2, <2>1, <3>1
    <3>3. i # k  BY <1>2, <1>3, <2>1
    <3>4. i < k  BY <1>3, <3>1, <3>3
    <3>5. i \in Window /\ i # submit_count  BY <1>3, <3>4 DEF Window
    <3>6. state[SlotOf(i)] = "IN_FLIGHT"  BY <1>2, <2>1, <3>4, <3>5
    <3> QED  BY <2>1, <3>2, <3>6 DEF CountInv, Streams
  <2> QED  BY <1>1, <2>1 DEF Streams
<1>9. FirstFirst'
  <2>1. ASSUME NEW i \in Window, NEW j \in Window, i < j, state'[SlotOf(i)] = "IN_FLIGHT",
               state'[SlotOf(j)] # "IN_FLIGHT", ~error
        PROVE  ~status'[SlotOf(j)]
    <3>1. i # k  BY <1>2, <2>1
    <3>2. i < k \/ i > k  BY <1>3, <3>1
    <3>3. state[SlotOf(i)] = "IN_FLIGHT"  BY <1>2, <2>1, <3>2
    <3>4. CASE j # k
      <4>1. j < k \/ j > k  BY <1>3, <3>4
      <4>2. state[SlotOf(j)] # "IN_FLIGHT" /\ status'[SlotOf(j)] = status[SlotOf(j)]
        BY <1>2, <2>1, <4>1
      <4> QED  BY <2>1, <3>3, <4>2 DEF CountInv, FirstFirst
    <3>5. CASE j = k  BY <1>2, <3>5
    <3> QED  BY <3>4, <3>5
  <2> QED  BY <1>1, <1>4, <2>1 DEF FirstFirst
<1> QED  BY <1>5, <1>7, <1>8, <1>9 DEF CountInv

\* The books at the start, and when the header is there.
LEMMA EmptyCount ==
    ASSUME submit_count' = 0, next_complete' = 0, bytes_received' = 0, stream' = 0,
           file_size' \in Nat
    PROVE  CountInv'
<1>1. Off(0) = 0  BY Offsets
<1>2. Window' = {}  BY DEF Window
<1>3. Counted'  BY <1>1 DEF Counted, Least
<1>4. Streams'
  <2>1. \A k \in 0..0 : k = 0  OBVIOUS
  <2> QED  BY <1>1, <2>1 DEF Streams
<1> QED  BY <1>2, <1>3, <1>4 DEF CountInv, Asks, Arrives, FirstFirst

LEMMA CountInit == Init => CountInv
<1>1. Off(0) = 0  BY Offsets
<1>2. Init => Window = {}  BY DEF Init, Window
<1>3. Init => Counted  BY <1>1 DEF Init, Counted, Least
<1>4. \A k \in 0..0 : k = 0  OBVIOUS
<1>5. Init => Streams  BY <1>1, <1>4 DEF Init, Streams
<1> QED  BY <1>2, <1>3, <1>5 DEF CountInv, Asks, Arrives, FirstFirst

\* What is counted, step by step.
LEMMA CountStep ==
    ASSUME ~ShortReads, TypeInv, RingInv, WindowInv, WriterInv, CountInv, [Next]_vars
    PROVE  CountInv'
<1>1. ASSUME error => error', UNCHANGED <<state, status, actual, real_bytes, counts, stream,
                                          file_size>>
      PROVE  CountInv'
  BY <1>1, QuietCount
<1>2. CASE QuietMain
  <2>1. /\ error => error'
        /\ UNCHANGED <<state, status, actual, real_bytes, counts, stream, file_size>>
    BY <1>2 DEF QuietMain, HeaderFails, SubmitSeesWriteError, SubmitDone, LeaveLoop,
                WaitSeesWriteError, SlotArrived, Finish, Drained, DrainGivesUp, Join, slots, outs
  <2> QED  BY <1>1, <2>1
<1>3. CASE WriterExits \/ WriterTakes \/ WriterFails \/ UNCHANGED vars
  <2>1. /\ error => error'
        /\ UNCHANGED <<state, status, actual, real_bytes, counts, stream, file_size>>
    BY <1>3 DEF WriterExits, WriterTakes, WriterFails, vars, slots, outs
  <2> QED  BY <1>1, <2>1
<1>4. CASE WriterWrites \/ WriterGivesUp
  <2>1. /\ state' = [state EXCEPT ![SlotOf(write_idx)] = "FREE"] /\ (error => error')
        /\ UNCHANGED <<error, status, actual, real_bytes, counts, stream, file_size>>
        /\ writer \in {"write", "giveup"}
    BY <1>4 DEF WriterWrites, WriterGivesUp, outs
  <2>2. SlotOf(write_idx) \in Slot  BY SlotInRing DEF TypeInv, TypeOK
  <2>3. CASE error  BY <2>1, <2>3, FailedCount
  <2>4. CASE ~error
    <3>1. state[SlotOf(write_idx)] = "READY"  BY <2>1, <2>4 DEF WriterInv, WriterPhase
    <3>2. \A s \in Slot : state'[s] = "IN_FLIGHT" <=> state[s] = "IN_FLIGHT"
      BY <2>1, <2>2, <3>1 DEF TypeInv, TypeOK
    <3> QED  BY <2>1, <3>2, QuietCount
  <2> QED  BY <2>3, <2>4
<1>5. ASSUME NEW kind, NEW size \in FileSizes, SkipSessionFrame(kind) \/ AcceptHeader(kind, size)
      PROVE  CountInv'
  <2>1. CASE SkipSessionFrame(kind)  BY <1>3, <2>1 DEF SkipSessionFrame
  <2>2. CASE AcceptHeader(kind, size)
    <3>1. /\ main = "header" /\ file_size' = size /\ size \in Nat
          /\ UNCHANGED <<submit_count, next_complete, bytes_received, stream>>
      BY <2>2, SizesAssumption DEF AcceptHeader, counts, outs
    <3>2. submit_count = 0 /\ next_complete = 0 /\ bytes_received = 0 /\ stream = 0
      BY <3>1 DEF WindowInv, MainPhase, TypeInv, NothingCountedYet, WriterInv, WriterPhase
    <3> QED  BY <3>1, <3>2, EmptyCount
  <2> QED  BY <1>5, <2>1, <2>2
<1>6. CASE Header
  <2>1. CASE HeaderFails  BY <1>2, <2>1 DEF QuietMain
  <2> QED  BY <1>5, <1>6, <2>1 DEF Header
<1>7. CASE Submit  BY <1>7, SubmitCount
<1>8. CASE SubmitFails \/ AccountFailure
  <2>1. error' /\ UNCHANGED <<counts, file_size>>  BY <1>8 DEF SubmitFails, AccountFailure
  <2> QED  BY <2>1, FailedCount
<1>9. CASE Account  BY <1>9, AccountCount
<1>10. ASSUME NEW k \in next_complete .. submit_count - 1,
              CompleteBadly(k) \/ \E n \in 0..Chunk : Complete(k, n)
       PROVE  CountInv'
  <2>1. k \in Window  BY DEF Window
  <2>2. CASE CompleteBadly(k)  BY <2>1, <2>2, BadlyCount
  <2>3. ASSUME NEW n \in 0..Chunk, Complete(k, n) PROVE CountInv'
    BY <2>1, <2>3, CompleteCount
  <2> QED  BY <1>10, <2>2, <2>3
<1>11. CASE Usb  BY <1>10, <1>11 DEF Usb
<1>12. CASE Writer  BY <1>3, <1>4, <1>12 DEF Writer
<1>13. CASE Main  BY <1>2, <1>6, <1>7, <1>8, <1>9, <1>13 DEF Main, QuietMain
<1> QED  BY <1>3, <1>11, <1>12, <1>13 DEF Next, Returned

\* What the ring keeps when no transfer ends early.
ExactInv == TypeInv /\ RingInv /\ WindowInv /\ WriterInv /\ CountInv

LEMMA ExactInit == Init => ExactInv
  BY TypeInit, RingInit, WindowInit, WriterInit, CountInit DEF ExactInv

LEMMA ExactStep == ASSUME ~ShortReads PROVE ExactInv /\ [Next]_vars => ExactInv'
  BY TypeStep, RingStep, WindowStep, WriterStep, CountStep DEF ExactInv

\* Each slot in flight has a transfer of the window to itself.
LEMMA BooksFollow == ASSUME ExactInv PROVE BooksBalance
<1> DEFINE T == {s \in Slot : state[s] = "IN_FLIGHT"}
           f == [s \in T |-> CHOOSE k \in Window : s = SlotOf(k)]
<1>1. /\ submit_count \in Nat /\ next_complete \in Nat /\ file_size \in Nat
      /\ active <= MaxInflight /\ active = submit_count - next_complete
      /\ next_complete <= submit_count
      /\ bytes_received = Least(Off(next_complete), file_size)
      /\ bytes_submitted = Least(Off(submit_count), file_size)
  BY DEF ExactInv, TypeInv, TypeOK, RingInv, WindowOfTransfers, CountInv, Counted, WindowInv, Asked
<1>2. \A s \in T : f[s] \in Window /\ s = SlotOf(f[s])
  BY DEF ExactInv, WindowInv, InWindow
<1>3. f \in Injection(T, Window)
  <2>1. f \in [T -> Window]  BY <1>2
  <2>2. ASSUME NEW r \in T, NEW s \in T, f[r] = f[s] PROVE r = s  BY <1>2, <2>2
  <2> HIDE DEF f
  <2> QED  BY <2>1, <2>2 DEF Injection, IsInjective
<1>4. IsFiniteSet(Window) /\ Cardinality(Window) = submit_count - next_complete
  <2>1. IsFiniteSet(Window)
        /\ Cardinality(Window) = IF next_complete > submit_count - 1 THEN 0
                                 ELSE submit_count - 1 - next_complete + 1
    <3>1. next_complete \in Int /\ submit_count - 1 \in Int  BY <1>1
    <3> QED  BY <3>1, FS_Interval DEF Window
  <2> QED  BY <1>1, <2>1
<1>5. Cardinality(T) <= Cardinality(Window)  BY <1>3, <1>4, FS_Injection
<1>6. IsFiniteSet(T)  BY <1>3, <1>4, FS_Injection
<1>7. Cardinality(T) \in Nat  BY <1>6, FS_CardinalityType
<1>8. Cardinality(T) <= MaxInflight  BY <1>1, <1>4, <1>5, <1>7, SizesAssumption
<1>9. bytes_received <= bytes_submitted
  <2>1. Off(next_complete) \in Nat /\ Off(submit_count) \in Nat
        /\ Off(next_complete) <= Off(submit_count)
    BY <1>1, Offsets
  <2> QED  BY <1>1, <2>1 DEF Least
<1> HIDE DEF T
<1> QED  BY <1>1, <1>8, <1>9 DEF BooksBalance, T

\* main's books agree with libusb's as long as no transfer ends early: it accounts only for
\* transfers it submitted and never has more of them with libusb than the budget allows.
THEOREM BooksAlwaysBalance == ASSUME ~ShortReads PROVE Spec => []BooksBalance
<1>1. ExactInv => BooksBalance  BY BooksFollow
<1> QED  BY <1>1, ExactInit, ExactStep, PTL DEF Spec

\* The writer may read real_bytes before or after main corrects it: when no transfer ends
\* early, the correction changes nothing.
THEOREM CorrectionChangesNothing == ASSUME ~ShortReads PROVE Spec => CorrectionIsNoop
<1>1. ASSUME ExactInv, [Next]_vars, main = "account" PROVE real_bytes' = real_bytes
  <2>1. CASE Account  BY <1>1, <2>1, AccountExact DEF ExactInv
  <2>2. CASE Main /\ ~Account
    <3>1. ~Header  BY <1>1 DEF Header, HeaderFails, SkipSessionFrame, AcceptHeader
    <3>2. ~(Submit \/ SubmitFails \/ SubmitSeesWriteError \/ SubmitDone)
      BY <1>1 DEF Submit, SubmitFails, SubmitSeesWriteError, SubmitDone
    <3>3. ~(LeaveLoop \/ WaitSeesWriteError \/ SlotArrived \/ Finish \/ Drained
            \/ DrainGivesUp \/ Join)
      BY <1>1 DEF LeaveLoop, WaitSeesWriteError, SlotArrived, Finish, Drained, DrainGivesUp, Join
    <3>4. AccountFailure  BY <2>2, <3>1, <3>2, <3>3 DEF Main
    <3> QED  BY <3>4 DEF AccountFailure
  <2>3. CASE Usb  BY <2>3 DEF Usb, CompleteBadly, Complete
  <2>4. CASE Writer
    BY <2>4 DEF Writer, WriterExits, WriterTakes, WriterWrites, WriterFails, WriterGivesUp, slots
  <2>5. CASE UNCHANGED vars  BY <2>5 DEF vars, slots
  <2> QED  BY <1>1, <2>1, <2>2, <2>3, <2>4, <2>5 DEF Next, Returned
<1>2. ExactInv /\ [Next]_vars => [main = "account" => real_bytes' = real_bytes]_vars  BY <1>1
<1> QED  BY <1>2, ExactInit, ExactStep, PTL DEF Spec, CorrectionIsNoop

-----------------------------------------------------------------------------
(* What is written.                                                        *)

\* n units of the file from unit a on.
Units(a, n) == [i \in 1..n |-> a + i]

\* Until something fails, a settled slot that is still to be written holds its own piece of
\* the file, and the pieces before write_idx are on the disk.
Holds == ~error /\ ~write_error =>
            \A k \in write_idx .. submit_count - 1 : Settled(k) =>
               /\ real_bytes[SlotOf(k)] = SizeOf(k)
               /\ \A i \in 1 .. SizeOf(k) : buf[SlotOf(k)][i] = Off(k) + i
Written == ~error /\ ~write_error /\ Settled(write_idx - 1) =>
              disk = Units(0, Least(Off(write_idx), file_size))

DataInv == Holds /\ Written

\* Units of the file, as a sequence.
LEMMA UnitsOfFile ==
    ASSUME NEW a \in Nat, NEW n \in Nat
    PROVE  /\ Units(a, n) \in Seq(Nat) /\ Len(Units(a, n)) = n
           /\ \A i \in 1..n : Units(a, n)[i] = a + i
<1>1. Units(a, n) \in [1..n -> Nat]  BY DEF Units
<1>2. Units(a, n) \in Seq(Nat) /\ Len(Units(a, n)) = n  BY <1>1
<1>3. \A i \in 1..n : Units(a, n)[i] = a + i  BY DEF Units
<1> QED  BY <1>2, <1>3

\* A piece that begins where the disk ends makes it longer by that piece.
LEMMA PieceJoins ==
    ASSUME NEW a \in Nat, NEW n \in Nat, NEW b, NEW c \in Nat, n <= c, b \in [1..c -> Nat],
           \A i \in 1..n : b[i] = a + i
    PROVE  Units(0, a) \o SubSeq(b, 1, n) = Units(0, a + n)
<1> DEFINE s == Units(0, a)
           t == SubSeq(b, 1, n)
           u == Units(0, a + n)
<1>1. s \in Seq(Nat) /\ Len(s) = a /\ \A i \in 1..a : s[i] = 0 + i  BY UnitsOfFile
<1>2. t \in Seq(Nat) /\ Len(t) = n /\ \A i \in 1..n : t[i] = a + i
  <2>1. \A i \in 1..n : b[i] \in Nat  OBVIOUS
  <2>2. t \in Seq(Nat)  BY <2>1, SubSeqProperties
  <2>3. Len(t) = n /\ \A i \in 1..n : t[i] = b[i]  OBVIOUS
  <2> HIDE DEF t
  <2> QED  BY <2>2, <2>3
<1>3. u \in Seq(Nat) /\ Len(u) = a + n /\ \A i \in 1 .. a + n : u[i] = 0 + i
  <2>1. a + n \in Nat  OBVIOUS
  <2> QED  BY <2>1, UnitsOfFile
<1> HIDE DEF s, t, u
<1>4. s \o t \in Seq(Nat) /\ Len(s \o t) = a + n
      /\ \A i \in 1 .. a + n : (s \o t)[i] = IF i <= a THEN s[i] ELSE t[i - a]
  <2>1. /\ s \o t \in Seq(Nat) /\ Len(s \o t) = Len(s) + Len(t)
        /\ \A i \in 1 .. Len(s) + Len(t) : (s \o t)[i] = IF i <= Len(s) THEN s[i]
                                                         ELSE t[i - Len(s)]
    BY <1>1, <1>2, ConcatProperties
  <2> QED  BY <1>1, <1>2, <2>1
<1>5. \A i \in 1 .. a + n : (s \o t)[i] = u[i]
  <2>1. SUFFICES ASSUME NEW i \in 1 .. a + n PROVE (s \o t)[i] = u[i]  OBVIOUS
  <2>2. CASE i <= a
    <3>1. i \in 1..a  BY <2>2
    <3> QED  BY <1>1, <1>3, <1>4, <2>2, <3>1
  <2>3. CASE i > a
    <3>1. i - a \in 1..n /\ ~(i <= a)  BY <2>3
    <3>2. t[i - a] = a + (i - a)  BY <1>2, <3>1
    <3>3. a + (i - a) = i /\ 0 + i = i  OBVIOUS
    <3>4. (s \o t)[i] = i  BY <1>4, <3>1, <3>2, <3>3
    <3>5. u[i] = i  BY <1>3, <3>3
    <3> QED  BY <3>4, <3>5
  <2>4. i <= a \/ i > a  OBVIOUS
  <2> QED  BY <2>2, <2>3, <2>4
<1>6. s \o t = u  BY <1>3, <1>4, <1>5, SeqEqual
<1> QED  BY <1>6 DEF s, t, u

\* Slots still to be written are distinct, and the slots in flight are among them.
LEMMA UnwrittenSlots ==
    ASSUME TypeInv, RingInv, WriterInv, ~write_error
    PROVE  /\ write_idx \in Nat /\ write_idx <= submit_count
           /\ \A k \in write_idx .. submit_count - 1 : k \in Nat /\ SlotOf(k) \in Slot
           /\ \A j, k \in write_idx .. submit_count - 1 : j # k => SlotOf(j) # SlotOf(k)
           /\ \A k \in Window : state[SlotOf(k)] = "IN_FLIGHT" => k >= write_idx
<1>1. /\ submit_count \in Nat /\ next_complete \in Nat /\ write_idx \in Nat /\ Pool \in Nat
      /\ submit_count <= next_complete + Pool /\ submit_count <= write_idx + Pool
  BY SizesAssumption DEF TypeInv, TypeOK, RingInv, NoReuseBeforeWrite
<1>2. \A k \in write_idx .. submit_count - 1 : k \in Nat /\ SlotOf(k) \in Slot
  BY <1>1, SlotInRing
<1>3. ASSUME NEW j \in write_idx .. submit_count - 1, NEW k \in write_idx .. submit_count - 1,
             j # k
      PROVE  SlotOf(j) # SlotOf(k)
  <2>1. j \in Nat /\ k \in Nat /\ j < k + Pool /\ k < j + Pool  BY <1>1
  <2> QED  BY <1>3, <2>1, OwnSlot
<1>4. ASSUME NEW k \in Window, state[SlotOf(k)] = "IN_FLIGHT" PROVE k >= write_idx
  <2>1. k \in Nat /\ k < submit_count /\ k >= next_complete /\ SlotOf(k) \in Slot
    BY <1>1, WindowSlots DEF Window
  <2>2. PICK j \in write_idx .. submit_count - 1 : SlotOf(k) = SlotOf(j)
    BY <1>4, <2>1 DEF WriterInv, Behind
  <2>3. j = k
    <3>1. SUFFICES ASSUME j # k PROVE FALSE  OBVIOUS
    <3>2. j \in Nat /\ j < k + Pool /\ k < j + Pool  BY <1>1, <2>1
    <3> QED  BY <2>1, <2>2, <3>1, <3>2, OwnSlot
  <2> QED  BY <2>3
<1> QED  BY <1>1, <1>2, <1>3, <1>4 DEF WriterInv, Behind

\* Steps that touch neither libusb's side of the ring nor the data.
LEMMA QuietData ==
    ASSUME TypeInv, DataInv, error => error', write_error => write_error',
           UNCHANGED <<status, real_bytes, buf, submit_count, next_complete, file_size, write_idx,
                       disk>>,
           \A s \in Slot : state'[s] = "IN_FLIGHT" <=> state[s] = "IN_FLIGHT"
    PROVE  DataInv'
<1>1. next_complete \in Nat  BY DEF TypeInv, TypeOK
<1>2. ASSUME NEW k PROVE Settled(k)' <=> Settled(k)
  <2>1. \A j \in next_complete..k : SlotOf(j) \in Slot  BY <1>1, SlotInRing
  <2> QED  BY <2>1 DEF Settled
<1>3. Holds'  BY <1>2 DEF DataInv, Holds, SizeOf
<1>4. Settled(write_idx - 1)' <=> Settled(write_idx - 1)
  <2>1. (write_idx - 1)' = write_idx - 1  OBVIOUS
  <2>2. \A j \in next_complete .. write_idx - 1 : SlotOf(j) \in Slot  BY <1>1, SlotInRing
  <2> QED  BY <2>1, <2>2 DEF Settled
<1>5. Written'  BY <1>4 DEF DataInv, Written
<1> QED  BY <1>3, <1>5 DEF DataInv

\* After a failure nothing is said of the data.
LEMMA FailedData == ASSUME error' \/ write_error' PROVE DataInv'
  BY DEF DataInv, Holds, Written

\* A transfer is submitted into a slot that is written already.
LEMMA SubmitData ==
    ASSUME TypeInv, RingInv, WindowInv, WriterInv, CountInv, DataInv, Submit
    PROVE  DataInv'
<1> USE DEF TypeInv, TypeOK
<1>1. SUFFICES ASSUME ~write_error' PROVE DataInv'  BY FailedData
<1> DEFINE s == SlotOf(submit_count)
<1>2. /\ ~error /\ ~write_error /\ submit_count' = submit_count + 1
      /\ real_bytes' = [real_bytes EXCEPT ![s] = SubmitSize]
      /\ \A r \in Slot : r # s => buf'[r] = buf[r]
      /\ UNCHANGED <<file_size, write_idx, disk>>
  BY <1>1 DEF Submit, WantsSubmit, flags
<1>3. /\ submit_count \in Nat /\ write_idx \in Nat /\ s \in Slot /\ write_idx <= submit_count
      /\ \A k \in write_idx .. submit_count - 1 : k \in Nat /\ SlotOf(k) \in Slot
  BY <1>2, SlotInRing, UnwrittenSlots
<1>4. submit_count + 1 <= write_idx + Pool
  <2>1. RingInv'  BY SubmitKeepsRing
  <2> QED  BY <1>1, <1>2, <2>1 DEF RingInv, NoReuseBeforeWrite
<1>5. /\ \A k \in Int : k < submit_count => (Settled(k)' <=> Settled(k))
      /\ \A k \in Int : k >= submit_count => ~Settled(k)'
  BY SubmitSettled
<1>6. Holds'
  <2>1. ASSUME NEW k \in write_idx .. submit_count, Settled(k)'
        PROVE  /\ real_bytes'[SlotOf(k)] = SizeOf(k)
               /\ \A i \in 1 .. SizeOf(k) : buf'[SlotOf(k)][i] = Off(k) + i
    <3>1. k \in write_idx .. submit_count - 1 /\ k \in Nat /\ k < submit_count
      BY <1>3, <1>5, <2>1
    <3>2. Settled(k)  BY <1>5, <2>1, <3>1
    <3>3. SlotOf(k) # s
      <4>1. k # submit_count /\ k < submit_count + Pool /\ submit_count < k + Pool
        BY <1>3, <1>4, <3>1, SizesAssumption
      <4> QED  BY <1>3, <3>1, <4>1, OwnSlot
    <3>4. /\ real_bytes[SlotOf(k)] = SizeOf(k)
          /\ \A i \in 1 .. SizeOf(k) : buf[SlotOf(k)][i] = Off(k) + i
      BY <1>2, <3>1, <3>2 DEF DataInv, Holds
    <3>5. real_bytes'[SlotOf(k)] = real_bytes[SlotOf(k)] /\ buf'[SlotOf(k)] = buf[SlotOf(k)]
      BY <1>2, <1>3, <3>1, <3>3
    <3> QED  BY <3>4, <3>5
  <2> QED  BY <1>2, <2>1 DEF Holds, SizeOf
<1>7. Written'
  <2>1. Settled(write_idx - 1)' => Settled(write_idx - 1)
    <3>1. write_idx - 1 \in Int /\ write_idx - 1 < submit_count  BY <1>3
    <3>2. ASSUME NEW k, k = write_idx - 1, Settled(write_idx - 1)' PROVE Settled(k)'
      BY <1>2, <3>2 DEF Settled
    <3> QED  BY <1>5, <3>1, <3>2
  <2> QED  BY <1>2, <2>1 DEF DataInv, Written
<1> QED  BY <1>6, <1>7 DEF DataInv

\* Main accounts for a transfer; what the writer holds of it does not change.
LEMMA AccountData ==
    ASSUME TypeInv, RingInv, WindowInv, WriterInv, CountInv, DataInv, Account
    PROVE  DataInv'
<1>1. UNCHANGED <<real_bytes, buf, submit_count, file_size, write_idx, disk, error, write_error>>
  BY AccountExact DEF Account, flags
<1>2. \A k \in Int : Settled(k)' <=> Settled(k)  BY AccountSettled
<1>3. write_idx \in Nat /\ \A k \in write_idx .. submit_count - 1 : k \in Int
  BY DEF TypeInv, TypeOK
<1>4. Holds'  BY <1>1, <1>2, <1>3 DEF DataInv, Holds, SizeOf
<1>5. Settled(write_idx - 1)' => Settled(write_idx - 1)
  <2>1. write_idx - 1 \in Int  BY <1>3
  <2>2. ASSUME NEW k, k = write_idx - 1, Settled(write_idx - 1)' PROVE Settled(k)'
    BY <1>1, <2>2 DEF Settled
  <2> QED  BY <1>2, <2>1, <2>2
<1>6. Written'  BY <1>1, <1>5 DEF DataInv, Written
<1> QED  BY <1>4, <1>6 DEF DataInv

\* A completion fills its slot with its own piece of the file.
LEMMA CompleteData ==
    ASSUME TypeInv, RingInv, WindowInv, WriterInv, CountInv, DataInv, ~ShortReads,
           NEW k \in Window, NEW n \in 0..Chunk, Complete(k, n)
    PROVE  DataInv'
<1> USE DEF TypeInv, TypeOK
<1>1. SUFFICES ASSUME ~error', ~write_error' PROVE DataInv'  BY FailedData
<1>2. /\ ~error /\ ~write_error /\ state[SlotOf(k)] = "IN_FLIGHT" /\ n \in Lengths
      /\ buf' = [buf EXCEPT ![SlotOf(k)] =
                    [i \in 1..Chunk |-> IF i <= n THEN Received(stream + i)
                                                  ELSE buf[SlotOf(k)][i]]]
      /\ UNCHANGED <<real_bytes, submit_count, next_complete, file_size, write_idx, disk>>
  BY <1>1 DEF Complete, InFlight, counts, flags, Window
<1>3. /\ k \in Nat /\ k < submit_count /\ SlotOf(k) \in Slot /\ k >= write_idx
      /\ write_idx \in Nat /\ submit_count \in Nat /\ next_complete \in Nat
      /\ \A i \in write_idx .. submit_count - 1 : i \in Nat /\ SlotOf(i) \in Slot
      /\ \A i, j \in write_idx .. submit_count - 1 : i # j => SlotOf(i) # SlotOf(j)
  BY <1>2, WindowSlots, UnwrittenSlots
<1>4. /\ \A i \in Int : i < k => (Settled(i)' <=> Settled(i))
      /\ Settled(k)' => Settled(k - 1)
      /\ \A i \in Window : i > k => ~Settled(i)'
  BY <1>2, CompleteSettled
<1>5. Settled(k)' => \A i \in 1 .. SizeOf(k) : buf'[SlotOf(k)][i] = Off(k) + i
  <2>1. SUFFICES ASSUME Settled(k)', NEW i \in 1 .. SizeOf(k)
                 PROVE  buf'[SlotOf(k)][i] = Off(k) + i
    OBVIOUS
  <2>2. /\ stream = Off(k) /\ n \in {Chunk, SizeOf(k)}
    BY <1>2, <1>4, <2>1, CompletionBrings
  <2>3. /\ Off(k) \in Nat /\ file_size \in Nat /\ Off(k) < file_size /\ SizeOf(k) \in 1..Chunk
        /\ SizeOf(k) = Least(file_size - Off(k), Chunk)
    BY <1>3, PieceOfFile
  <2>4. Chunk \in Nat  BY SizesAssumption
  <2>5. i \in 1..Chunk /\ i <= n /\ Off(k) + i <= file_size
    BY <2>2, <2>3, <2>4 DEF Least
  <2>6. buf'[SlotOf(k)] = [j \in 1..Chunk |-> IF j <= n THEN Received(stream + j)
                                                         ELSE buf[SlotOf(k)][j]]
    BY <1>2, <1>3
  <2> QED  BY <2>2, <2>5, <2>6 DEF Received
<1>6. Holds'
  <2>1. ASSUME NEW i \in write_idx .. submit_count - 1, Settled(i)'
        PROVE  /\ real_bytes[SlotOf(i)] = SizeOf(i)
               /\ \A j \in 1 .. SizeOf(i) : buf'[SlotOf(i)][j] = Off(i) + j
    <3>1. CASE i = k
      <4>1. real_bytes[SlotOf(k)] = SizeOf(k)  BY <1>2 DEF CountInv, Asks
      <4> QED  BY <1>5, <2>1, <3>1, <4>1
    <3>2. CASE i < k
      <4>1. Settled(i)  BY <1>3, <1>4, <2>1, <3>2
      <4>2. SlotOf(i) # SlotOf(k)
        <5>1. k \in write_idx .. submit_count - 1 /\ i # k  BY <1>3, <3>2
        <5> QED  BY <1>3, <5>1
      <4>3. buf'[SlotOf(i)] = buf[SlotOf(i)]  BY <1>2, <1>3, <4>2
      <4> QED  BY <1>2, <4>1, <4>3 DEF DataInv, Holds
    <3>3. CASE i > k
      <4>1. i \in Window  BY <1>3, <3>3 DEF Window
      <4> QED  BY <1>4, <2>1, <3>3, <4>1
    <3> QED  BY <1>3, <3>1, <3>2, <3>3
  <2> QED  BY <1>2, <2>1 DEF Holds, SizeOf
<1>7. Written'
  <2>1. Settled(write_idx - 1)' => Settled(write_idx - 1)
    <3>1. write_idx - 1 \in Int /\ write_idx - 1 < k  BY <1>3
    <3>2. ASSUME NEW i, i = write_idx - 1, Settled(write_idx - 1)' PROVE Settled(i)'
      BY <1>2, <3>2 DEF Settled
    <3> QED  BY <1>4, <3>1, <3>2
  <2> QED  BY <1>2, <2>1 DEF DataInv, Written
<1> QED  BY <1>6, <1>7 DEF DataInv

\* A transfer that ends badly settles nothing.
LEMMA BadlyData ==
    ASSUME TypeInv, RingInv, WindowInv, WriterInv, CountInv, DataInv, NEW k \in Window,
           CompleteBadly(k)
    PROVE  DataInv'
<1> USE DEF TypeInv, TypeOK
<1>1. SUFFICES ASSUME ~error', ~write_error' PROVE DataInv'  BY FailedData
<1>2. /\ ~error /\ ~write_error /\ state[SlotOf(k)] = "IN_FLIGHT"
      /\ state' = [state EXCEPT ![SlotOf(k)] = "READY"]
      /\ status' = [status EXCEPT ![SlotOf(k)] = FALSE]
      /\ UNCHANGED <<real_bytes, buf, submit_count, next_complete, file_size, write_idx, disk>>
  BY <1>1 DEF CompleteBadly, InFlight, counts, flags, Window
<1>3. /\ k \in Nat /\ k < submit_count /\ k >= write_idx /\ k >= next_complete
      /\ write_idx \in Nat /\ submit_count \in Nat /\ next_complete \in Nat
      /\ \A i \in write_idx .. submit_count - 1 : i \in Nat
  BY <1>2, WindowSlots, UnwrittenSlots DEF Window
<1>4. \A i \in Int : i < k => (Settled(i)' <=> Settled(i))  BY <1>2, SettledBefore
<1>5. ASSUME NEW i \in Int, i >= k PROVE ~Settled(i)'
  <2>1. k \in next_complete'..i  BY <1>2, <1>3, <1>5
  <2>2. SlotOf(k) \in Slot  BY WindowSlots
  <2>3. status'[SlotOf(k)] = FALSE  BY <1>2, <2>2
  <2> QED  BY <2>1, <2>3 DEF Settled
<1>6. Holds'
  <2>1. ASSUME NEW i \in write_idx .. submit_count - 1, Settled(i)' PROVE Settled(i)
    <3>1. i \in Int /\ i < k  BY <1>3, <1>5, <2>1
    <3> QED  BY <1>4, <2>1, <3>1
  <2> QED  BY <1>2, <2>1 DEF DataInv, Holds, SizeOf
<1>7. Written'
  <2>1. Settled(write_idx - 1)' => Settled(write_idx - 1)
    <3>1. write_idx - 1 \in Int /\ write_idx - 1 < k  BY <1>3
    <3>2. ASSUME NEW i, i = write_idx - 1, Settled(write_idx - 1)' PROVE Settled(i)'
      BY <1>2, <3>2 DEF Settled
    <3> QED  BY <1>4, <3>1, <3>2
  <2> QED  BY <1>2, <2>1 DEF DataInv, Written
<1> QED  BY <1>6, <1>7 DEF DataInv

\* The writer adds the piece of write_idx to the disk.
LEMMA WriteData ==
    ASSUME TypeInv, RingInv, WindowInv, WriterInv, CountInv, DataInv, WriterWrites
    PROVE  DataInv'
<1> USE DEF TypeInv, TypeOK
<1>1. SUFFICES ASSUME ~error', ~write_error' PROVE DataInv'  BY FailedData
<1> DEFINE s == SlotOf(write_idx)
<1>2. /\ ~error /\ ~write_error /\ writer = "write"
      /\ disk' = disk \o SubSeq(buf[s], 1, real_bytes[s])
      /\ state' = [state EXCEPT ![s] = "FREE"]
      /\ write_idx' = write_idx + 1
      /\ UNCHANGED <<status, real_bytes, buf, submit_count, next_complete, file_size>>
  BY <1>1 DEF WriterWrites, counts, flags
<1>3. write_idx < submit_count /\ state[s] = "READY"  BY <1>2 DEF WriterInv, WriterPhase
<1>4. s \in Slot /\ write_idx \in Nat /\ submit_count \in Nat /\ next_complete \in Nat
  BY SlotInRing
<1>5. ASSUME NEW k PROVE Settled(k)' <=> Settled(k)
  <2>1. \A j \in next_complete..k : SlotOf(j) \in Slot  BY <1>4, SlotInRing
  <2>2. \A r \in Slot : state'[r] = "IN_FLIGHT" <=> state[r] = "IN_FLIGHT"  BY <1>2, <1>3, <1>4
  <2> QED  BY <1>2, <2>1, <2>2 DEF Settled
<1>6. Holds'
  <2>1. \A k \in write_idx + 1 .. submit_count - 1 : k \in write_idx .. submit_count - 1
    BY <1>4
  <2> QED  BY <1>2, <1>5, <2>1 DEF DataInv, Holds, SizeOf
<1>7. Written'
  <2>1. SUFFICES ASSUME Settled(write_idx - 1)'
                 PROVE  disk' = Units(0, Least(Off(write_idx + 1), file_size))
    BY <1>2 DEF Written
  <2>2. Settled(write_idx)
    <3>1. write_idx' - 1 = write_idx  BY <1>2, <1>4
    <3>2. ASSUME NEW k, k = write_idx PROVE Settled(k)'
      BY <2>1, <3>1, <3>2 DEF Settled
    <3> QED  BY <1>5, <3>2
  <2>3. Settled(write_idx - 1)
    <3>1. \A j \in next_complete .. write_idx - 1 : j \in next_complete..write_idx  BY <1>4
    <3> QED  BY <2>2, <3>1 DEF Settled
  <2>4. /\ Off(write_idx) \in Nat /\ Off(write_idx) < file_size /\ file_size \in Nat
        /\ SizeOf(write_idx) \in 1..Chunk
        /\ Off(write_idx) + SizeOf(write_idx) = Least(Off(write_idx + 1), file_size)
    BY <1>3, <1>4, PieceOfFile
  <2>5. disk = Units(0, Off(write_idx))
    BY <1>2, <2>3, <2>4 DEF DataInv, Written, Least
  <2>6. /\ real_bytes[s] = SizeOf(write_idx)
        /\ \A i \in 1 .. SizeOf(write_idx) : buf[s][i] = Off(write_idx) + i
    <3>1. write_idx \in write_idx .. submit_count - 1  BY <1>3, <1>4
    <3> QED  BY <1>2, <2>2, <3>1 DEF DataInv, Holds
  <2>7. Chunk \in Nat /\ buf[s] \in [1..Chunk -> Nat] /\ SizeOf(write_idx) \in Nat
        /\ SizeOf(write_idx) <= Chunk
    BY <1>4, <2>4, SizesAssumption
  <2>8. Units(0, Off(write_idx)) \o SubSeq(buf[s], 1, SizeOf(write_idx))
           = Units(0, Off(write_idx) + SizeOf(write_idx))
    BY <2>4, <2>6, <2>7, PieceJoins
  <2> QED  BY <1>2, <2>4, <2>5, <2>6, <2>8
<1> QED  BY <1>6, <1>7 DEF DataInv

\* The data at the start, and when the header is there.
LEMMA EmptyData ==
    ASSUME submit_count' = 0, write_idx' = 0, disk' = << >>, file_size' \in Nat
    PROVE  DataInv'
<1>1. Off(0) = 0  BY Offsets
<1>2. Units(0, 0) = << >>  BY DEF Units
<1> QED  BY <1>1, <1>2 DEF DataInv, Holds, Written, Least

LEMMA DataInit == Init => DataInv
<1>1. Off(0) = 0  BY Offsets
<1>2. Units(0, 0) = << >>  BY DEF Units
<1> QED  BY <1>1, <1>2 DEF Init, DataInv, Holds, Written, Least

\* The data, step by step.
LEMMA DataStep ==
    ASSUME ~ShortReads, ExactInv, DataInv, [Next]_vars
    PROVE  DataInv'
<1> USE DEF ExactInv
<1>1. ASSUME error => error', write_error => write_error',
             UNCHANGED <<state, status, real_bytes, buf, submit_count, next_complete, file_size,
                         write_idx, disk>>
      PROVE  DataInv'
  BY <1>1, QuietData
<1>2. CASE QuietMain
  <2>1. /\ (error => error') /\ UNCHANGED write_error
        /\ UNCHANGED <<state, status, real_bytes, buf, submit_count, next_complete, file_size,
                       write_idx, disk>>
    BY <1>2 DEF QuietMain, HeaderFails, SubmitSeesWriteError, SubmitDone, LeaveLoop,
                WaitSeesWriteError, SlotArrived, Finish, Drained, DrainGivesUp, Join, slots, counts,
                flags
  <2> QED  BY <1>1, <2>1
<1>3. CASE WriterExits \/ WriterTakes \/ WriterFails \/ UNCHANGED vars
  <2>1. /\ (error => error') /\ (write_error => write_error')
        /\ UNCHANGED <<state, status, real_bytes, buf, submit_count, next_complete, file_size,
                       write_idx, disk>>
    BY <1>3 DEF WriterExits, WriterTakes, WriterFails, vars, slots, counts, flags
  <2> QED  BY <1>1, <2>1
<1>4. CASE WriterGivesUp
  <2>1. write_error'
    BY <1>4 DEF WriterGivesUp, flags, RingInv, ErrorBeforeFree
  <2> QED  BY <2>1, FailedData
<1>5. ASSUME NEW kind, NEW size \in FileSizes, SkipSessionFrame(kind) \/ AcceptHeader(kind, size)
      PROVE  DataInv'
  <2>1. CASE SkipSessionFrame(kind)  BY <1>3, <2>1 DEF SkipSessionFrame
  <2>2. CASE AcceptHeader(kind, size)
    <3>1. /\ main = "header" /\ file_size' = size /\ size \in Nat
          /\ UNCHANGED <<submit_count, write_idx, disk>>
      BY <2>2, SizesAssumption DEF AcceptHeader, counts
    <3>2. submit_count = 0 /\ write_idx = 0 /\ disk = << >>
      BY <3>1 DEF WindowInv, MainPhase, WriterInv, WriterPhase
    <3> QED  BY <3>1, <3>2, EmptyData
  <2> QED  BY <1>5, <2>1, <2>2
<1>6. CASE Header
  <2>1. CASE HeaderFails  BY <1>2, <2>1 DEF QuietMain
  <2> QED  BY <1>5, <1>6, <2>1 DEF Header
<1>7. CASE Submit  BY <1>7, SubmitData
<1>8. CASE SubmitFails \/ AccountFailure
  <2>1. error'  BY <1>8 DEF SubmitFails, AccountFailure
  <2> QED  BY <2>1, FailedData
<1>9. CASE Account  BY <1>9, AccountData
<1>10. ASSUME NEW k \in next_complete .. submit_count - 1,
              CompleteBadly(k) \/ \E n \in 0..Chunk : Complete(k, n)
       PROVE  DataInv'
  <2>1. k \in Window  BY DEF Window
  <2>2. CASE CompleteBadly(k)  BY <2>1, <2>2, BadlyData
  <2>3. ASSUME NEW n \in 0..Chunk, Complete(k, n) PROVE DataInv'
    BY <2>1, <2>3, CompleteData
  <2> QED  BY <1>10, <2>2, <2>3
<1>11. CASE Usb  BY <1>10, <1>11 DEF Usb
<1>12. CASE WriterWrites  BY <1>12, WriteData
<1>13. CASE Writer  BY <1>3, <1>4, <1>12, <1>13 DEF Writer
<1>14. CASE Main  BY <1>2, <1>6, <1>7, <1>8, <1>9, <1>14 DEF Main, QuietMain
<1> QED  BY <1>3, <1>11, <1>13, <1>14 DEF Next, Returned

-----------------------------------------------------------------------------
(* A receive is a FileTransfer.                                            *)

\* Some of the steps change nothing that the transfer speaks of.
LEMMA TransferStutter ==
    ASSUME UNCHANGED <<file_size, stream, disk, bytes_received, ok>>,
           main = main' \/ (main # "done" /\ main' # "done")
    PROVE  UNCHANGED Transfer!vars
  BY DEF Transfer!vars

\* What is on the disk stays there, and what is written comes behind it.
LEMMA Appended ==
    ASSUME NEW s \in Seq(Nat), NEW t \in Seq(Nat)
    PROVE  Transfer!IsPrefix(s, s \o t) /\ Transfer!IsPrefix(s, s)
<1>1. s \o t \in Seq(Nat) /\ Len(s \o t) = Len(s) + Len(t)
      /\ \A i \in 1 .. Len(s) + Len(t) : (s \o t)[i] = IF i <= Len(s) THEN s[i] ELSE t[i - Len(s)]
  BY ConcatProperties
<1>2. Len(s) \in Nat /\ Len(t) \in Nat  BY LenProperties
<1> QED  BY <1>1, <1>2 DEF Transfer!IsPrefix

\* A successful end: everything was submitted, counted and written.
LEMMA SuccessIsComplete ==
    ASSUME ExactInv, DataInv, main = "join", writer = "exit", Succeeded
    PROVE  disk = Transfer!File(file_size)
<1> USE DEF ExactInv, TypeInv, TypeOK
<1>1. ~error /\ ~write_error /\ bytes_received = file_size  BY DEF Succeeded
<1>2. write_idx = submit_count
  BY <1>1 DEF WriterInv, WriterPhase, Behind
<1>3. next_complete \in Nat /\ submit_count \in Nat /\ file_size \in Nat
      /\ next_complete <= submit_count /\ bytes_received = Least(Off(next_complete), file_size)
  BY DEF CountInv, Counted
<1>4. Off(next_complete) \in Nat /\ Off(next_complete) >= file_size
  <2>1. Off(next_complete) \in Nat  BY <1>3, Offsets
  <2> QED  BY <1>1, <1>3, <2>1 DEF Least
<1>5. next_complete = submit_count
  <2>1. SUFFICES ASSUME next_complete < submit_count PROVE FALSE  BY <1>3
  <2>2. next_complete \in 0 .. submit_count - 1  BY <1>3, <2>1
  <2>3. Off(next_complete) < file_size  BY <2>2 DEF WindowInv, Asked
  <2> QED  BY <1>3, <1>4, <2>3
<1>6. Settled(write_idx - 1)
  <2>1. next_complete .. write_idx - 1 = {}  BY <1>2, <1>3, <1>5
  <2> QED  BY <2>1 DEF Settled
<1>7. disk = Units(0, file_size)
  <2>1. Least(Off(write_idx), file_size) = file_size  BY <1>1, <1>2, <1>3, <1>5
  <2> QED  BY <1>1, <1>6, <2>1 DEF DataInv, Written
<1>8. \A i \in 1..file_size : 0 + i = i  BY <1>3
<1> QED  BY <1>7, <1>8 DEF Units, Transfer!File

\* Each step is a step of the transfer or changes nothing it speaks of.
LEMMA StepImplements ==
    ASSUME ~ShortReads, ExactInv, DataInv, [Next]_vars
    PROVE  [Transfer!Next]_Transfer!vars
<1> USE DEF ExactInv
<1>1. disk \in Seq(Nat) /\ stream \in Nat /\ file_size \in Nat /\ (main # "done" => ~ok)
  BY DEF TypeInv, TypeOK, WriterInv, WriterPhase
<1>2. CASE HeaderFails
  <2>1. main = "header" /\ main' = "done" /\ UNCHANGED <<file_size, stream, disk, bytes_received, ok>>
    BY <1>2 DEF HeaderFails, counts, outs
  <2>2. Transfer!Fail  BY <1>1, <2>1 DEF Transfer!Fail, Transfer!Running
  <2> QED  BY <2>2 DEF Transfer!Next
<1>3. ASSUME NEW kind, NEW size \in FileSizes, SkipSessionFrame(kind) \/ AcceptHeader(kind, size)
      PROVE  [Transfer!Next]_Transfer!vars
  <2>1. CASE SkipSessionFrame(kind)
    <3>1. UNCHANGED <<file_size, stream, disk, bytes_received, ok>> /\ main' = main
      BY <2>1 DEF SkipSessionFrame, vars, counts, outs
    <3> QED  BY <3>1, TransferStutter
  <2>2. CASE AcceptHeader(kind, size)
    <3>1. /\ main = "header" /\ main' = "submit" /\ file_size' \in FileSizes
          /\ UNCHANGED <<stream, disk, bytes_received, ok>>
      BY <2>2 DEF AcceptHeader, counts, outs
    <3>2. stream = 0  BY <3>1 DEF WriterInv, WriterPhase
    <3>3. Transfer!Learn  BY <3>1, <3>2 DEF Transfer!Learn, Transfer!Running
    <3> QED  BY <3>3 DEF Transfer!Next
  <2> QED  BY <1>3, <2>1, <2>2
<1>4. CASE \/ Submit \/ SubmitFails \/ SubmitSeesWriteError \/ SubmitDone \/ LeaveLoop
           \/ WaitSeesWriteError \/ SlotArrived \/ AccountFailure \/ Finish \/ Drained
           \/ DrainGivesUp
  <2>1. /\ UNCHANGED <<file_size, stream, disk, bytes_received, ok>>
        /\ main # "done" /\ main' # "done"
    BY <1>4 DEF Submit, SubmitFails, SubmitSeesWriteError, SubmitDone, LeaveLoop,
                WaitSeesWriteError, SlotArrived, AccountFailure, Finish, Drained, DrainGivesUp,
                counts, outs
  <2> QED  BY <2>1, TransferStutter
<1>5. CASE Account
  <2>1. /\ main # "done" /\ main' # "done" /\ UNCHANGED <<file_size, stream, disk, ok>>
    BY <1>5 DEF Account, outs
  <2>2. bytes_received' > bytes_received /\ bytes_received' <= stream  BY <1>5, AccountExact
  <2>3. Transfer!Count  BY <2>1, <2>2 DEF Transfer!Count, Transfer!Running
  <2> QED  BY <2>3 DEF Transfer!Next
<1>6. CASE Join
  <2>1. /\ main = "join" /\ writer = "exit" /\ main' = "done" /\ ok' = Succeeded
        /\ UNCHANGED <<file_size, stream, disk, bytes_received>>
    BY <1>6 DEF Join, counts
  <2>2. CASE Succeeded
    <3>1. disk = Transfer!File(file_size)  BY <2>1, <2>2, SuccessIsComplete
    <3>2. bytes_received = file_size  BY <2>2 DEF Succeeded
    <3>3. Transfer!Succeed
      BY <2>1, <2>2, <3>1, <3>2 DEF Transfer!Succeed, Transfer!Running
    <3> QED  BY <3>3 DEF Transfer!Next
  <2>3. CASE ~Succeeded
    <3>1. Transfer!Fail  BY <2>1, <2>3 DEF Transfer!Fail, Transfer!Running
    <3> QED  BY <3>1 DEF Transfer!Next
  <2> QED  BY <2>2, <2>3
<1>7. ASSUME NEW k \in next_complete .. submit_count - 1,
             CompleteBadly(k) \/ \E n \in 0..Chunk : Complete(k, n)
      PROVE  [Transfer!Next]_Transfer!vars
  <2>1. CASE CompleteBadly(k)
    <3>1. UNCHANGED <<file_size, stream, disk, bytes_received, ok>> /\ main' = main
      BY <2>1 DEF CompleteBadly, counts, outs
    <3> QED  BY <3>1, TransferStutter
  <2>2. ASSUME NEW n \in 0..Chunk, Complete(k, n) PROVE [Transfer!Next]_Transfer!vars
    <3>1. /\ main # "done" /\ main' = main /\ stream' = stream + n
          /\ UNCHANGED <<file_size, disk, bytes_received, ok>>
      BY <2>2 DEF Complete, HandlingEvents, counts
    <3>2. stream' >= stream  BY <1>1, <3>1, SizesAssumption
    <3>3. Transfer!IsPrefix(disk, disk')  BY <1>1, <3>1, Appended
    <3>4. Transfer!Move  BY <3>1, <3>2, <3>3 DEF Transfer!Move, Transfer!Running
    <3> QED  BY <3>4 DEF Transfer!Next
  <2> QED  BY <1>7, <2>1, <2>2
<1>8. CASE WriterExits \/ WriterTakes \/ WriterFails \/ WriterGivesUp \/ UNCHANGED vars
  <2>1. UNCHANGED <<file_size, stream, disk, bytes_received, ok>> /\ main' = main
    BY <1>8 DEF WriterExits, WriterTakes, WriterFails, WriterGivesUp, vars, counts, outs
  <2> QED  BY <2>1, TransferStutter
<1>9. CASE WriterWrites
  <2> DEFINE t == SubSeq(buf[SlotOf(write_idx)], 1, real_bytes[SlotOf(write_idx)])
  <2>1. /\ writer = "write" /\ main' = main /\ disk' = disk \o t
        /\ UNCHANGED <<file_size, stream, bytes_received, ok>>
    BY <1>9 DEF WriterWrites, counts, outs
  <2>2. main # "done"  BY <2>1 DEF WriterInv, WriterPhase
  <2>3. t \in Seq(Nat)
    <3>1. SlotOf(write_idx) \in Slot  BY SlotInRing DEF TypeInv, TypeOK
    <3>2. /\ real_bytes[SlotOf(write_idx)] \in Int
          /\ \A i \in 1 .. real_bytes[SlotOf(write_idx)] : buf[SlotOf(write_idx)][i] \in Nat
      BY <3>1, SizesAssumption DEF TypeInv, TypeOK
    <3> QED  BY <3>2, SubSeqProperties
  <2> HIDE DEF t
  <2>4. Transfer!IsPrefix(disk, disk')  BY <1>1, <2>1, <2>3, Appended
  <2>5. Transfer!Move  BY <1>1, <2>1, <2>2, <2>4 DEF Transfer!Move, Transfer!Running
  <2> QED  BY <2>5 DEF Transfer!Next
<1>10. CASE Header  BY <1>2, <1>3, <1>10 DEF Header
<1>11. CASE Usb  BY <1>7, <1>11 DEF Usb
<1>12. CASE Writer  BY <1>8, <1>9, <1>12 DEF Writer
<1>13. CASE Main  BY <1>4, <1>5, <1>6, <1>10, <1>13 DEF Main
<1> QED  BY <1>8, <1>11, <1>12, <1>13 DEF Next, Returned

\* receive_file_core is a FileTransfer when no transfer ends early: however main, libusb and
\* the writer interleave, a success has handed exactly the announced file, in order, to the
\* output, progress never passes the fabric, and nothing is written after the call returns.
THEOREM ReceiveImplementsTransfer == ASSUME ~ShortReads PROVE Spec => ImplementsTransfer
<1>1. Init => Transfer!Init  BY DEF Init, Transfer!Init
<1>2. ExactInv /\ DataInv /\ [Next]_vars =>
         ExactInv' /\ DataInv' /\ [Transfer!Next]_Transfer!vars
  BY ExactStep, DataStep, StepImplements
<1> QED
  BY <1>1, <1>2, ExactInit, DataInit, PTL DEF Spec, ImplementsTransfer, Transfer!Spec
=============================================================================
