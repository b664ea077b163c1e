------------------------ MODULE CrossConnectProofs ------------------------
(***************************************************************************)
(* Proofs about the loopback engine (CrossConnect), for files of any size, *)
(* any number of attempts to open a port and any of the failures: whatever *)
(* the three threads do to each other's buffers, a success has the whole   *)
(* file in the copy (FileTransfer); until main laps the writer, the flags  *)
(* of a slot, which are all that the threads have, keep them off the       *)
(* buffers of a transfer; and without a lap the copy is the file, unless   *)
(* something failed or a transfer was short.                               *)
(***************************************************************************)
EXTENDS CrossConnect, SequenceTheorems, TLAPS

\* What a thread knows of the flags of the slot it is at.
InTransfer == {"busy", "moving", "moved", "post", "last"}
ReaderKnows == pc["reader"] = "busy" => ~filled[at["reader"]]
MainKnows == pc["main"] \in InTransfer => filled[at["main"]] /\ ~usb_done[at["main"]]
WriterKnows == pc["writer"] \in {"busy", "count", "post"} =>
                  filled[at["writer"]] /\ usb_done[at["writer"]]
DoneIsFilled == \A s \in Slot : usb_done[s] => filled[s]
Knows == ReaderKnows /\ MainKnows /\ WriterKnows /\ DoneIsFilled

\* A reader that is past the head of its loop has more to read.
MoreToRead == pc["reader"] \in {"wait", "asleep", "busy"} => bytes_read < file_size

Inv == TypeOK /\ MoreToRead /\ (laps = 0 => Knows)

\* Torn and read data are contents of a buffer, alone or over older ones.
LEMMA Contents ==
    /\ Torn \in [1..Chunk -> Nat]
    /\ \A n \in Nat : [i \in 1..Chunk |-> n + i] \in [1..Chunk -> Nat]
    /\ \A buf, new \in [1..Chunk -> Nat], n \in Nat : Over(buf, n, new) \in [1..Chunk -> Nat]
  BY SizesAssumption DEF Torn, Over

\* What the reader asks for is there, and fits into a slot.
LEMMA ToRead ==
    ASSUME TypeOK
    PROVE  /\ to_read \in 0..Chunk /\ bytes_read + to_read \in 0..file_size
           /\ bytes_read < file_size => to_read > 0
  BY SizesAssumption DEF TypeOK, to_read

\* Wake-ups aside, a step moves only its own thread.
LEMMA Wakes ==
    ASSUME pc \in [Thread -> Point], NEW t \in Thread, NEW l \in Point, NEW s \in Slot,
           Goto(t, l) \/ NotifyAll(t, l, s)
    PROVE  /\ pc' \in [Thread -> Point] /\ pc'[t] = l
           /\ \A u \in Thread : u # t => pc'[u] = pc[u] \/ (pc[u] = "asleep" /\ pc'[u] = "wait")
  BY DEF Goto, NotifyAll, Point

LEMMA Moved ==
    ASSUME pc \in [Thread -> Point], NEW t \in Thread, NEW l, Goto(t, l)
    PROVE  pc'[t] = l /\ \A u \in Thread : u # t => pc'[u] = pc[u]
  BY DEF Goto

LEMMA Flipped ==
    ASSUME TypeOK, NEW t \in Thread, Flip(t)
    PROVE  /\ at' \in [Thread -> Slot] /\ at'[t] = 1 - at[t]
           /\ \A u \in Thread : u # t => at'[u] = at[u]
<1>1. at \in [Thread -> Slot] /\ at' = [at EXCEPT ![t] = 1 - @]  BY DEF TypeOK, Flip
<1>2. 1 - at[t] \in Slot  BY <1>1 DEF Slot
<1> QED  BY <1>1, <1>2

LEMMA InvInit == Init => Inv
<1> SUFFICES ASSUME Init PROVE Inv  OBVIOUS
<1>1. out_file \in Seq(Nat) /\ attempt \in 0..MaxOpenAttempts - 1 /\ laps \in 0..MaxLaps
  BY EmptySeq, BoundsAssumption DEF Init
<1>2. pc \in [Thread -> {"devices", "unborn"}] /\ at \in [Thread -> Slot]
  BY DEF Init, Thread, Slot
<1>3. /\ tx_buf \in [Slot -> [1..Chunk -> Nat]] /\ rx_buf \in [Slot -> [1..Chunk -> Nat]]
      /\ tx_bytes \in [Slot -> 0..Chunk] /\ rx_bytes \in [Slot -> 0..Chunk]
      /\ len \in 0..Chunk /\ rx_actual \in 0..len
  BY Contents, SizesAssumption DEF Init
<1>4. /\ filled = [s \in Slot |-> FALSE] /\ usb_done = [s \in Slot |-> FALSE]
      /\ eof = [s \in Slot |-> FALSE]
      /\ file_size \in FileSizes /\ bytes_read \in 0..file_size
  BY SizesAssumption DEF Init
<1>5. pc \in [Thread -> Point]  BY <1>2 DEF Point
<1>6. TypeOK  BY <1>1, <1>2, <1>3, <1>4, <1>5 DEF Init, TypeOK
<1>7. \A t \in Thread : pc[t] \in {"devices", "unborn"}  BY <1>2
<1>8. {"reader", "main", "writer"} = Thread  BY DEF Thread
<1> QED  BY <1>4, <1>6, <1>7, <1>8
      DEF Inv, MoreToRead, Knows, ReaderKnows, MainKnows, WriterKnows, DoneIsFilled, InTransfer

-----------------------------------------------------------------------------
\* A step of control alone, after which no thread is newly in a slot.
LEMMA ControlKeeps ==
    ASSUME Inv, UNCHANGED slots, UNCHANGED file_size, pc' \in [Thread -> Point],
           ok' \in BOOLEAN, handles' \subseteq Port, recv_path' \in BOOLEAN,
           attempt' \in 0..MaxOpenAttempts - 1,
           pc'["reader"] \in {"wait", "asleep", "busy"} => bytes_read < file_size,
           pc'["reader"] = "busy" => pc["reader"] = "busy",
           pc'["main"] \in InTransfer => pc["main"] \in InTransfer,
           pc'["writer"] \in {"busy", "count", "post"} =>
                pc["writer"] \in {"busy", "count", "post"}
    PROVE  Inv'
<1>1. TypeOK'
  BY DEF Inv, TypeOK, slots, bufs, marks, call, sums, past
<1>2. MoreToRead'  BY DEF MoreToRead, slots, sums
<1>3. Knows => Knows'
  BY DEF Knows, ReaderKnows, MainKnows, WriterKnows, DoneIsFilled, slots, marks
<1> QED  BY <1>1, <1>2, <1>3 DEF Inv, slots, past

\* Before the threads nothing but main moves; a header makes them start.
LEMMA PrologueKeeps ==
    ASSUME Inv, Prologue
    PROVE  Inv' /\ UNCHANGED slots
<1>1. /\ pc \in [Thread -> Point] /\ ok \in BOOLEAN /\ handles \subseteq Port
      /\ recv_path \in BOOLEAN /\ attempt \in 0..MaxOpenAttempts - 1
      /\ 0 \in 0..MaxOpenAttempts - 1 /\ MoreToRead
  BY BoundsAssumption DEF Inv, TypeOK
<1>2. ASSUME NEW l \in Point \ (InTransfer \cup {"wait", "asleep", "count"}), Goto("main", l),
             handles' \subseteq Port, recv_path' \in BOOLEAN,
             attempt' \in 0..MaxOpenAttempts - 1, UNCHANGED <<file_size, slots, ok>>
      PROVE  Inv'
  <2>1. pc' = [t \in Thread |-> IF t = "main" THEN l ELSE pc[t]]
    BY <1>1, <1>2 DEF Goto
  <2>2. /\ pc' \in [Thread -> Point] /\ pc'["reader"] = pc["reader"] /\ pc'["main"] = l
        /\ pc'["writer"] = pc["writer"]
    BY <1>1, <2>1 DEF Thread
  <2> QED  BY <1>1, <1>2, <2>2, ControlKeeps DEF MoreToRead
<1>3. {"devices", "send_port", "recv_port", "header", "refused"}
          \subseteq Point \ (InTransfer \cup {"wait", "asleep", "count"})
  BY DEF Point, Port, InTransfer
<1>4. CASE TwoDevices  BY <1>1, <1>2, <1>3, <1>4 DEF TwoDevices
<1>5. CASE TooFewDevices  BY <1>1, <1>2, <1>3, <1>5 DEF TooFewDevices, ports
<1>6. ASSUME NEW p \in Port, PortOpens(p) \/ PortBusy(p) \/ PortFails(p)
      PROVE  Inv' /\ UNCHANGED slots
  <2>1. CASE PortBusy(p)
    <3>1. attempt' \in 0..MaxOpenAttempts - 1  BY <1>1, <2>1, BoundsAssumption DEF PortBusy
    <3> QED  BY <1>1, <2>1, <3>1, ControlKeeps DEF PortBusy, MoreToRead
  <2>2. CASE Opened /\ handles' \subseteq Port  BY <1>1, <1>2, <1>3, <2>2 DEF Opened
  <2> QED  BY <1>1, <1>6, <2>1, <2>2 DEF PortOpens, PortFails, Opened
<1>7. CASE HeaderCrosses
  <2>1. pc' \in [Thread -> Point] /\ \A t \in Thread : pc'[t] = "head"
    BY <1>7 DEF HeaderCrosses, Point
  <2>2. UNCHANGED <<ports, slots, ok>>  BY <1>7 DEF HeaderCrosses
  <2> QED  BY <1>1, <2>1, <2>2, ControlKeeps DEF ports, Thread, InTransfer
<1>8. CASE HeaderFails  BY <1>1, <1>2, <1>3, <1>8 DEF HeaderFails, Close
<1> QED  BY <1>4, <1>5, <1>6, <1>7, <1>8, <1>1 DEF Prologue, OpenPort, TwoDevices,
            TooFewDevices, HeaderCrosses, HeaderFails

LEMMA EndKeeps ==
    ASSUME Inv, JoinAll \/ Compare
    PROVE  Inv' /\ UNCHANGED slots
<1> USE DEF Point, Thread, InTransfer
<1>1. /\ UNCHANGED slots /\ UNCHANGED file_size /\ ok' \in BOOLEAN /\ recv_path' \in BOOLEAN
      /\ handles' \subseteq Port /\ attempt' \in 0..MaxOpenAttempts - 1
  BY DEF Inv, TypeOK, JoinAll, Compare, Succeeded, files_equal, Close
<1>2. PICK l \in {"compare", "returned"} : Goto("main", l)
  BY DEF JoinAll, Compare
<1>3. pc' = [t \in Thread |-> IF t = "main" THEN l ELSE pc[t]]
  BY <1>2 DEF Goto, Inv, TypeOK
<1> QED  BY <1>1, <1>2, <1>3, ControlKeeps DEF Inv, TypeOK, MoreToRead

\* The head of a loop, a wait that is not over, and the steps of main and the writer
\* that change nothing but their own control point.
LEMMA ThreadKeeps ==
    ASSUME Inv,
           \/ \E t \in Thread : LoopHead(t) \/ Sleep(t)
           \/ MainTransferHangs \/ MainLooks
    PROVE  Inv'
<1> USE DEF Point, Thread, InTransfer
<1>1. /\ UNCHANGED <<ports, slots, ok>> /\ pc \in [Thread -> Point]
      /\ ok \in BOOLEAN /\ handles \subseteq Port /\ recv_path \in BOOLEAN
      /\ attempt \in 0..MaxOpenAttempts - 1 /\ MoreToRead
  BY DEF LoopHead, Sleep, MainTransferHangs, MainLooks, Inv, TypeOK
<1>2. CASE \E t \in Thread : LoopHead(t) \/ Sleep(t)
  <2>1. PICK t \in Thread, l \in {"wait", "asleep", "exit"} :
          /\ Goto(t, l) /\ (LoopHead(t) \/ Sleep(t))
    BY <1>2 DEF LoopHead, Sleep
  <2>2. pc' = [u \in Thread |-> IF u = t THEN l ELSE pc[u]]
    BY <1>1, <2>1 DEF Goto
  <2>3. t = "reader" /\ l # "exit" => bytes_read < file_size
    <3>1. CASE Sleep(t)  BY <1>1, <3>1 DEF Sleep, MoreToRead
    <3>2. CASE LoopHead(t)  BY <1>1, <2>2, <3>2 DEF LoopHead, Continues, Goto
    <3> QED  BY <2>1, <3>1, <3>2
  <2> QED  BY <1>1, <2>2, <2>3, ControlKeeps DEF ports, MoreToRead
<1>3. CASE MainTransferHangs \/ MainLooks
  <2>1. PICK l \in {"polling", "post", "last"} :
          /\ Goto("main", l) /\ pc["main"] \in InTransfer
    BY <1>3 DEF MainTransferHangs, MainLooks
  <2>2. pc' = [u \in Thread |-> IF u = "main" THEN l ELSE pc[u]]
    BY <1>1, <2>1 DEF Goto
  <2> QED  BY <1>1, <2>1, <2>2, ControlKeeps DEF ports, MoreToRead
<1> QED  BY <1>2, <1>3

\* The reader is alone with a slot that is not filled, and hands it on filled.
LEMMA ReaderKeeps ==
    ASSUME Inv, ReaderStarts \/ ReaderFills \/ ReaderFails
    PROVE  Inv'
<1> DEFINE s == at["reader"]
<1>1. /\ TypeOK /\ MoreToRead /\ s \in Slot /\ {"reader", "main", "writer"} = Thread
      /\ pc \in [Thread -> Point] /\ tx_buf \in [Slot -> [1..Chunk -> Nat]]
  BY DEF Inv, TypeOK, Thread
<1>2. /\ to_read \in 0..Chunk /\ to_read \in Nat /\ bytes_read + to_read \in 0..file_size
      /\ bytes_read \in Nat
  BY <1>1, ToRead DEF TypeOK
<1> HIDE DEF s
<1>3. CASE ReaderStarts
  <2>1. /\ UNCHANGED <<ports, at, rx_buf, tx_bytes, rx_bytes, marks, transfer_error, call, sums,
                       out_file, ok, past>>
        /\ tx_buf' = [tx_buf EXCEPT ![s] = Over(@, to_read, Torn)]
        /\ Goto("reader", "busy") /\ pc["reader"] = "wait" /\ ~filled[s]
    BY <1>3 DEF ReaderStarts, Go, MayGo, ReaderMayGo, Leaves, s
  <2>2. tx_buf' \in [Slot -> [1..Chunk -> Nat]]
    BY <1>1, <1>2, <2>1, Contents
  <2>3. pc' \in [Thread -> Point] /\ pc'["reader"] = "busy"
        /\ pc'["main"] = pc["main"] /\ pc'["writer"] = pc["writer"]
    BY <1>1, <2>1 DEF Goto, Point
  <2>4. TypeOK'  BY <1>1, <2>1, <2>2, <2>3 DEF TypeOK, ports, marks, call, sums, past
  <2>5. MoreToRead'  BY <1>1, <2>1 DEF MoreToRead, sums, ports
  <2>6. Knows => Knows'
    BY <2>1, <2>3 DEF Knows, ReaderKnows, MainKnows, WriterKnows, DoneIsFilled, marks, s
  <2> QED  BY <2>1, <2>4, <2>5, <2>6 DEF Inv, past
<1>4. CASE ReaderFills
  <2>1. /\ UNCHANGED <<ports, rx_buf, rx_bytes, transfer_error, call, bytes_written,
                       total_bytes_done, out_file, ok, past>>
        /\ bytes_read' = bytes_read + to_read
        /\ tx_buf' = [tx_buf EXCEPT ![s] = Over(@, to_read, [i \in 1..Chunk |-> bytes_read + i])]
        /\ tx_bytes' = [tx_bytes EXCEPT ![s] = to_read]
        /\ filled' = [filled EXCEPT ![s] = TRUE] /\ usb_done' = [usb_done EXCEPT ![s] = FALSE]
        /\ eof' = [eof EXCEPT ![s] = bytes_read + to_read >= file_size]
        /\ pc["reader"] = "busy" /\ NotifyAll("reader", "head", s) /\ Flip("reader")
    BY <1>4 DEF ReaderFills, s
  <2>2. tx_buf' \in [Slot -> [1..Chunk -> Nat]]
    BY <1>1, <1>2, <2>1, Contents
  <2>3. /\ at' \in [Thread -> Slot] /\ at'["main"] = at["main"] /\ at'["writer"] = at["writer"]
    BY <1>1, <2>1, Flipped
  <2>4. /\ pc' \in [Thread -> Point] /\ pc'["reader"] = "head"
        /\ \A u \in {"main", "writer"} :
              pc'[u] = pc[u] \/ (pc[u] = "asleep" /\ pc'[u] = "wait")
    <3>1. "head" \in Point  BY DEF Point
    <3>2. NotifyAll("reader", "head", s)  BY <2>1
    <3> QED  BY <1>1, <3>1, <3>2, Wakes
  <2>5. TypeOK'
    <3>1. /\ tx_bytes' \in [Slot -> 0..Chunk] /\ filled' \in [Slot -> BOOLEAN]
          /\ usb_done' \in [Slot -> BOOLEAN] /\ eof' \in [Slot -> BOOLEAN]
          /\ bytes_read' \in 0..file_size
      BY <1>1, <1>2, <2>1 DEF TypeOK
    <3> QED  BY <1>1, <2>1, <2>2, <2>3, <2>4, <3>1 DEF TypeOK, ports, call, past
  <2>6. MoreToRead'  BY <2>4 DEF MoreToRead
  <2>7. ASSUME Knows PROVE Knows'
    <3>1. ~filled[s] /\ ~usb_done[s]
      BY <1>1, <2>1, <2>7 DEF Knows, ReaderKnows, DoneIsFilled, s
    <3>2. \A z \in Slot : /\ z = s => filled'[z] /\ ~usb_done'[z]
                          /\ z # s => filled'[z] = filled[z] /\ usb_done'[z] = usb_done[z]
      BY <1>1, <2>1 DEF TypeOK
    <3>3. at["main"] \in Slot /\ at["writer"] \in Slot  BY <1>1 DEF TypeOK
    <3>4. MainKnows'
      <4>1. pc'["main"] \in InTransfer => pc["main"] \in InTransfer
        BY <2>4 DEF InTransfer
      <4> QED  BY <2>3, <2>7, <3>1, <3>2, <3>3, <4>1 DEF Knows, MainKnows
    <3>5. WriterKnows'
      <4>1. pc'["writer"] \in {"busy", "count", "post"} => pc["writer"] \in {"busy", "count", "post"}
        BY <2>4
      <4> QED  BY <2>3, <2>7, <3>1, <3>2, <3>3, <4>1 DEF Knows, WriterKnows
    <3> QED  BY <2>4, <2>7, <3>2, <3>4, <3>5 DEF Knows, ReaderKnows, DoneIsFilled
  <2> QED  BY <2>1, <2>5, <2>6, <2>7 DEF Inv, past
<1>5. CASE ReaderFails
  <2>1. /\ UNCHANGED <<ports, at, bufs, marks, call, sums, out_file, ok, past>>
        /\ transfer_error' = TRUE /\ Goto("reader", "exit")
    BY <1>5 DEF ReaderFails
  <2>2. pc' \in [Thread -> Point] /\ pc'["reader"] = "exit"
        /\ pc'["main"] = pc["main"] /\ pc'["writer"] = pc["writer"]
    BY <1>1, <2>1 DEF Goto, Point
  <2>3. TypeOK'  BY <1>1, <2>1, <2>2 DEF TypeOK, ports, bufs, marks, call, sums, past
  <2>4. Knows => Knows'
    BY <2>1, <2>2 DEF Knows, ReaderKnows, MainKnows, WriterKnows, DoneIsFilled, marks
  <2> QED  BY <2>1, <2>2, <2>3, <2>4 DEF Inv, MoreToRead, past
<1> QED  BY <1>3, <1>4, <1>5

\* Steps of main alone: only a lap takes it into a slot that is already done.
LEMMA MainKeeps ==
    ASSUME Inv, MainStarts \/ MainSubmits \/ MainTransfers
    PROVE  Inv'
<1> DEFINE s == at["main"]
<1>1. /\ TypeOK /\ MoreToRead /\ s \in Slot /\ {"reader", "main", "writer"} = Thread
      /\ pc \in [Thread -> Point] /\ rx_buf \in [Slot -> [1..Chunk -> Nat]]
      /\ tx_buf \in [Slot -> [1..Chunk -> Nat]] /\ laps \in Nat
      /\ tx_bytes[s] \in 0..Chunk /\ tx_bytes[s] \in Nat /\ len \in 0..Chunk /\ len \in Nat
  <2>1. TypeOK /\ MoreToRead /\ Chunk \in Nat /\ MaxLaps \in Nat
    BY SizesAssumption, BoundsAssumption DEF Inv
  <2>2. s \in Slot  BY <2>1 DEF TypeOK, Thread
  <2>3. tx_bytes[s] \in 0..Chunk  BY <2>1, <2>2 DEF TypeOK
  <2>4. laps \in 0..MaxLaps /\ len \in 0..Chunk  BY <2>1 DEF TypeOK
  <2>5. \A n : n \in 0..MaxLaps \/ n \in 0..Chunk => n \in Nat  BY <2>1
  <2>6. /\ pc \in [Thread -> Point] /\ rx_buf \in [Slot -> [1..Chunk -> Nat]]
        /\ tx_buf \in [Slot -> [1..Chunk -> Nat]]
    BY <2>1 DEF TypeOK
  <2>7. {"reader", "main", "writer"} = Thread  BY DEF Thread
  <2> QED  BY <2>1, <2>2, <2>3, <2>4, <2>5, <2>6, <2>7
<1> HIDE DEF s
<1>2. /\ UNCHANGED <<ports, at, tx_buf, tx_bytes, rx_bytes, marks, transfer_error, sums,
                     out_file, ok>>
      /\ \E l \in {"exit", "busy", "moving", "moved"} : Goto("main", l)
  BY DEF MainStarts, Go, MainSubmits, MainTransfers, bufs
<1>3. pc' \in [Thread -> Point] /\ pc'["reader"] = pc["reader"] /\ pc'["writer"] = pc["writer"]
  BY <1>1, <1>2 DEF Goto, Point
<1>4. /\ rx_buf' \in [Slot -> [1..Chunk -> Nat]]
      /\ len' \in 0..Chunk /\ rx_actual' \in 0..len' /\ short' \in BOOLEAN
      /\ laps' \in 0..MaxLaps
  <2>1. CASE MainStarts
    <3>1. laps' \in 0..MaxLaps
      BY <1>1, <2>1, BoundsAssumption DEF MainStarts, TypeOK
    <3> QED  BY <1>1, <2>1, <3>1 DEF MainStarts, TypeOK, bufs, call
  <2>2. CASE MainSubmits
    <3>1. /\ rx_buf' = [rx_buf EXCEPT ![s] = Over(@, tx_bytes[s], Torn)]
          /\ len' = tx_bytes[s] /\ rx_actual' = 0 /\ UNCHANGED past
      BY <2>2 DEF MainSubmits, s
    <3>2. 0 \in 0..tx_bytes[s]  BY <1>1
    <3>3. rx_buf' \in [Slot -> [1..Chunk -> Nat]]  BY <1>1, <3>1, Contents
    <3> QED  BY <1>1, <3>1, <3>2, <3>3 DEF TypeOK, past
  <2>3. CASE MainTransfers
    <3>1. /\ rx_buf' = [rx_buf EXCEPT ![s] = Over(@, rx_actual', tx_buf[s])]
          /\ len' = len /\ rx_actual' \in Received
          /\ laps' = laps /\ short' = (short \/ rx_actual' < len)
      BY <2>3 DEF MainTransfers, s
    <3>2. rx_actual' \in 0..len /\ rx_actual' \in Nat
      BY <1>1, <3>1 DEF Received
    <3>3. short' \in BOOLEAN  BY <1>1, <3>1 DEF TypeOK
    <3> QED  BY <1>1, <3>1, <3>2, <3>3, Contents DEF TypeOK
  <2> QED  BY <2>1, <2>2, <2>3
<1>5. TypeOK'  BY <1>1, <1>2, <1>3, <1>4 DEF TypeOK, ports, marks, sums
<1>6. MoreToRead'  BY <1>1, <1>2, <1>3 DEF MoreToRead, ports, sums
<1>7. ASSUME Inv, laps' = 0 PROVE Knows'
  <2>1. laps = 0 /\ (pc'["main"] \in InTransfer => filled[s] /\ ~usb_done[s])
    <3>1. CASE MainStarts
      BY <1>1, <1>7, <3>1 DEF MainStarts, Go, MayGo, MainMayGo, Leaves, Goto, InTransfer, s
    <3>2. CASE MainSubmits \/ MainTransfers
      BY <1>1, <1>7, <3>2 DEF MainSubmits, MainTransfers, Inv, Knows, MainKnows, past, InTransfer, s
    <3> QED  BY <3>1, <3>2
  <2> QED  BY <1>2, <1>3, <1>7, <2>1 DEF Inv, Knows, ReaderKnows, MainKnows, WriterKnows,
               DoneIsFilled, marks, s
<1> QED  BY <1>5, <1>6, <1>7 DEF Inv

\* main marks its slot as done: filled already, and of no thread but the writer's.
LEMMA MainPostKeeps ==
    ASSUME Inv, MainTransferFails \/ MainPosts
    PROVE  Inv'
<1> DEFINE s == at["main"]
<1>1. /\ TypeOK /\ MoreToRead /\ s \in Slot /\ {"reader", "main", "writer"} = Thread
      /\ pc \in [Thread -> Point]
  BY DEF Inv, TypeOK, Thread
<1> HIDE DEF s
<1>2. /\ UNCHANGED <<ports, tx_buf, rx_buf, tx_bytes, filled, eof, len, bytes_read,
                     bytes_written, out_file, ok, past>>
      /\ usb_done' = [usb_done EXCEPT ![s] = TRUE]
      /\ pc["main"] \in InTransfer
      /\ \E l \in {"head", "exit"} : NotifyAll("main", l, s)
  BY DEF MainTransferFails, MainPosts, InTransfer, bufs, call, sums, s
<1>3. /\ pc' \in [Thread -> Point] /\ pc'["main"] \in {"head", "exit"}
      /\ \A u \in {"reader", "writer"} :
            pc'[u] = pc[u] \/ (pc[u] = "asleep" /\ pc'[u] = "wait")
  <2>1. {"head", "exit"} \subseteq Point  BY DEF Point
  <2> QED  BY <1>1, <1>2, <2>1, Wakes
<1>4. /\ at' \in [Thread -> Slot]
      /\ at'["reader"] = at["reader"] /\ at'["writer"] = at["writer"]
  <2>1. at' = at \/ Flip("main")  BY DEF MainTransferFails, MainPosts
  <2>2. at \in [Thread -> Slot]  BY <1>1 DEF TypeOK
  <2> QED  BY <1>1, <2>1, <2>2, Flipped
<1>5. /\ transfer_error' \in BOOLEAN /\ usb_done' \in [Slot -> BOOLEAN]
      /\ rx_bytes' \in [Slot -> 0..Chunk] /\ rx_actual' \in 0..len
      /\ total_bytes_done' \in Nat
  <2>1. /\ usb_done' \in [Slot -> BOOLEAN] /\ rx_actual \in 0..Chunk /\ 0 \in 0..len
        /\ rx_actual \in Nat
    <3>1. usb_done \in [Slot -> BOOLEAN] /\ len \in 0..Chunk /\ rx_actual \in 0..len
      BY <1>1 DEF TypeOK
    <3>2. usb_done' \in [Slot -> BOOLEAN]  BY <1>1, <1>2, <3>1
    <3>3. Chunk \in Nat  BY SizesAssumption
    <3> QED  BY <3>1, <3>2, <3>3
  <2>2. CASE MainTransferFails  BY <1>1, <2>1, <2>2 DEF MainTransferFails, TypeOK, bufs, call, sums
  <2>3. CASE MainPosts
    <3>1. /\ rx_bytes' = [rx_bytes EXCEPT ![s] = rx_actual] /\ rx_actual' = 0
          /\ total_bytes_done' = total_bytes_done + rx_actual
          /\ transfer_error' = transfer_error
      BY <2>3 DEF MainPosts, s
    <3> QED  BY <1>1, <2>1, <3>1 DEF TypeOK
  <2> QED  BY <2>2, <2>3
<1>6. TypeOK'  BY <1>1, <1>2, <1>3, <1>4, <1>5 DEF TypeOK, ports, past
<1>7. MoreToRead'  BY <1>1, <1>2, <1>3 DEF MoreToRead, ports
<1>8. ASSUME Knows PROVE Knows'
  <2>1. filled[s]  BY <1>2, <1>8 DEF Knows, MainKnows, s
  <2>2. \A z \in Slot : /\ z = s => usb_done'[z]
                        /\ z # s => usb_done'[z] = usb_done[z]
    BY <1>1, <1>2 DEF TypeOK
  <2>3. at["writer"] \in Slot  BY <1>1 DEF TypeOK
  <2> QED  BY <1>2, <1>3, <1>4, <1>8, <2>1, <2>2, <2>3
           DEF Knows, ReaderKnows, MainKnows, WriterKnows, DoneIsFilled, InTransfer
<1> QED  BY <1>2, <1>6, <1>7, <1>8 DEF Inv, past

\* The writer takes a slot that is done, and gives it back, which main cannot be using.
LEMMA WriterKeeps ==
    ASSUME Inv, WriterStarts \/ WriterWrites \/ WriterFails \/ WriterCounts \/ WriterFrees
    PROVE  Inv'
<1> DEFINE s == at["writer"]
<1>1. /\ TypeOK /\ MoreToRead /\ s \in Slot /\ {"reader", "main", "writer"} = Thread
      /\ pc \in [Thread -> Point] /\ rx_bytes[s] \in 0..Chunk /\ rx_bytes[s] \in Nat
      /\ rx_buf[s] \in [1..Chunk -> Nat] /\ bytes_written \in Nat /\ out_file \in Seq(Nat)
      /\ Chunk \in Nat
  <2>1. TypeOK /\ MoreToRead /\ Chunk \in Nat  BY SizesAssumption DEF Inv
  <2>2. s \in Slot  BY <2>1 DEF TypeOK, Thread
  <2>3. rx_bytes[s] \in 0..Chunk /\ rx_buf[s] \in [1..Chunk -> Nat]  BY <2>1, <2>2 DEF TypeOK
  <2>4. /\ pc \in [Thread -> Point] /\ bytes_written \in Nat /\ out_file \in Seq(Nat)
    BY <2>1 DEF TypeOK
  <2>5. {"reader", "main", "writer"} = Thread  BY DEF Thread
  <2>6. rx_bytes[s] \in Nat  BY <2>1, <2>3
  <2> QED  BY <2>1, <2>2, <2>3, <2>4, <2>5, <2>6
<1> HIDE DEF s
<1>2. CASE WriterStarts \/ WriterWrites \/ WriterFails \/ WriterCounts
  <2>1. /\ UNCHANGED <<ports, at, bufs, marks, call, bytes_read, total_bytes_done, ok, past>>
        /\ \E l \in {"exit", "busy", "count", "post"} : Goto("writer", l)
    BY <1>2 DEF WriterStarts, Go, WriterWrites, WriterFails, WriterCounts, slots, sums
  <2>2. pc' \in [Thread -> Point] /\ pc'["reader"] = pc["reader"] /\ pc'["main"] = pc["main"]
    BY <1>1, <2>1 DEF Goto, Point
  <2>3. transfer_error' \in BOOLEAN
    BY <1>1, <1>2 DEF TypeOK, WriterStarts, WriterWrites, WriterFails, WriterCounts, slots
  <2>4. bytes_written' \in Nat
    BY <1>1, <1>2 DEF WriterStarts, WriterWrites, WriterFails, WriterCounts, slots, sums, s
  <2>5. out_file' \in Seq(Nat)
    <3>1. CASE WriterWrites
      <4> DEFINE n == rx_bytes[s]
                 b == rx_buf[s]
      <4>0. n \in Nat /\ n \in 0..Chunk /\ b \in [1..Chunk -> Nat] /\ Chunk \in Nat  BY <1>1
      <4>1. \A i \in 1..n : b[i] \in Nat
        <5> HIDE DEF n, b
        <5> QED  BY <4>0
      <4>2. [i \in 1..rx_bytes[s] |-> rx_buf[s][i]] \in Seq(Nat)  BY <4>0, <4>1, IsASeq
      <4> QED  BY <1>1, <3>1, <4>2, ConcatProperties DEF WriterWrites, s
    <3> QED  BY <1>1, <1>2, <3>1 DEF WriterStarts, WriterFails, WriterCounts, slots
  <2>6. TypeOK'  BY <1>1, <2>1, <2>2, <2>3, <2>4, <2>5 DEF TypeOK, ports, bufs, marks, call, past
  <2>7. MoreToRead'  BY <1>1, <2>1, <2>2 DEF MoreToRead, ports
  <2>8. ASSUME Knows PROVE Knows'
    <3>1. pc'["writer"] \in {"busy", "count", "post"} => filled[s] /\ usb_done[s]
      <4>1. CASE WriterStarts
        BY <1>1, <2>8, <4>1 DEF WriterStarts, Go, MayGo, WriterMayGo, Leaves, Goto, Knows,
            DoneIsFilled, s
      <4>2. CASE WriterWrites \/ WriterCounts
        BY <2>8, <4>2 DEF WriterWrites, WriterCounts, Knows, WriterKnows, s
      <4>3. CASE WriterFails
        BY <1>1, <4>3 DEF WriterFails, Goto
      <4> QED  BY <1>2, <4>1, <4>2, <4>3
    <3> QED  BY <2>1, <2>2, <2>8, <3>1 DEF Knows, ReaderKnows, MainKnows, WriterKnows,
                 DoneIsFilled, marks, s
  <2> QED  BY <2>1, <2>6, <2>7, <2>8 DEF Inv, past
<1>3. CASE WriterFrees
  <2>1. /\ UNCHANGED <<ports, bufs, eof, transfer_error, call, sums, out_file, ok, past>>
        /\ filled' = [filled EXCEPT ![s] = FALSE] /\ usb_done' = [usb_done EXCEPT ![s] = FALSE]
        /\ pc["writer"] = "post" /\ NotifyAll("writer", "head", s) /\ Flip("writer")
    BY <1>3 DEF WriterFrees, ClearsUsbDone, s
  <2>2. /\ at' \in [Thread -> Slot]
        /\ at'["reader"] = at["reader"] /\ at'["main"] = at["main"]
    BY <1>1, <2>1, Flipped
  <2>3. /\ pc' \in [Thread -> Point] /\ pc'["writer"] = "head"
        /\ \A u \in {"reader", "main"} :
              pc'[u] = pc[u] \/ (pc[u] = "asleep" /\ pc'[u] = "wait")
    <3>1. "head" \in Point  BY DEF Point
    <3>2. NotifyAll("writer", "head", s)  BY <2>1
    <3> QED  BY <1>1, <3>1, <3>2, Wakes
  <2>4. TypeOK'
    <3>1. filled' \in [Slot -> BOOLEAN] /\ usb_done' \in [Slot -> BOOLEAN]
      BY <1>1, <2>1 DEF TypeOK
    <3> QED  BY <1>1, <2>1, <2>2, <2>3, <3>1 DEF TypeOK, ports, bufs, call, sums, past
  <2>5. MoreToRead'  BY <1>1, <2>1, <2>3 DEF MoreToRead, ports, sums
  <2>6. ASSUME Knows PROVE Knows'
    <3>1. usb_done[s]  BY <2>1, <2>6 DEF Knows, WriterKnows, s
    <3>2. \A z \in Slot : /\ z = s => ~filled'[z] /\ ~usb_done'[z]
                          /\ z # s => filled'[z] = filled[z] /\ usb_done'[z] = usb_done[z]
      BY <1>1, <2>1 DEF TypeOK
    <3>3. at["main"] \in Slot /\ at["reader"] \in Slot  BY <1>1 DEF TypeOK
    <3> QED  BY <2>2, <2>3, <2>6, <3>1, <3>2, <3>3
             DEF Knows, ReaderKnows, MainKnows, WriterKnows, DoneIsFilled, InTransfer
  <2> QED  BY <2>1, <2>4, <2>5, <2>6 DEF Inv, past
<1> QED  BY <1>2, <1>3

-----------------------------------------------------------------------------
LEMMA NextKeeps == Inv /\ [Next]_vars => Inv'
<1> SUFFICES ASSUME Inv, [Next]_vars PROVE Inv'  OBVIOUS
<1>1. CASE Reader  BY <1>1, ThreadKeeps, ReaderKeeps DEF Reader, Thread
<1>2. CASE Main
  BY <1>2, ThreadKeeps, PrologueKeeps, MainKeeps, MainPostKeeps, EndKeeps DEF Main, Thread
<1>3. CASE Writer  BY <1>3, ThreadKeeps, WriterKeeps DEF Writer, Thread
<1>4. CASE UNCHANGED vars
  <2>1. /\ pc' = pc /\ UNCHANGED <<ports, slots, ok>>  BY <1>4 DEF vars
  <2> QED  BY <2>1, ControlKeeps DEF Inv, TypeOK, MoreToRead, ports
<1> QED  BY <1>1, <1>2, <1>3, <1>4 DEF Next, Returned

\* The slots of file_cross_connect_core: until main laps the writer, reader and writer
\* never touch the buffers of the slot that is being transferred, whatever fails and
\* whenever.  Where main sends and receives, the flags say so: the reader, which waits
\* for an empty slot, and the writer, which waits for a done one, are elsewhere.
THEOREM CrossConnectSlots == Spec => []SlotsOK
<1>1. Inv => SlotsOK
  BY DEF Inv, SlotsOK, DoubleBuffered, Knows, ReaderKnows, MainKnows, WriterKnows, InTransfer
<1> QED  BY InvInit, NextKeeps, <1>1, PTL DEF Spec

-----------------------------------------------------------------------------
(* The copy.  While nothing failed, no transfer was short and main has not *)
(* lapped the writer, the slots hold what the writer has not given back:   *)
(* first the slot the writer is at, then the other.  Each of the two holds *)
(* a piece of the file, which begins where the one before it ends.         *)

Fst == at["writer"]
Snd == 1 - at["writer"]

\* Units the slots given back have held, and units before those of slot s.
Freed == IF pc["writer"] = "post" THEN bytes_written - rx_bytes[Fst] ELSE bytes_written
Start(s) == IF s = Fst THEN Freed ELSE Freed + tx_bytes[Fst]

\* Slots are filled, transferred and given back in turn.
Order ==
    /\ Freed \in Nat
    /\ filled[Snd] => filled[Fst]
    /\ usb_done[Snd] => usb_done[Fst]
    /\ at["reader"] = IF filled[Fst] /\ ~filled[Snd] THEN Snd ELSE Fst
    /\ at["main"] = IF usb_done[Fst] /\ ~usb_done[Snd] THEN Snd ELSE Fst

\* The counters tell how far the file is in the slots, and through them.
End(flag) == IF ~flag[Fst] THEN Freed
             ELSE IF ~flag[Snd] THEN Freed + tx_bytes[Fst]
             ELSE Freed + tx_bytes[Fst] + tx_bytes[Snd]
Sums == bytes_read = End(filled) /\ total_bytes_done = End(usb_done)

\* buf begins with the n units of the file that follow the first m.
Holds(buf, n, m) == \A i \in 1..n : buf[i] = m + i

Pieces ==
    \A s \in Slot :
        /\ filled[s] => /\ tx_bytes[s] > 0 /\ Holds(tx_buf[s], tx_bytes[s], Start(s))
                        /\ eof[s] <=> Start(s) + tx_bytes[s] >= file_size
        /\ usb_done[s] => /\ rx_bytes[s] = tx_bytes[s]
                          /\ Holds(rx_buf[s], tx_bytes[s], Start(s))

\* What main holds between the steps of a transfer.
Passing ==
    LET s == at["main"] IN
    /\ pc["main"] = "moving" => len = tx_bytes[s]
    /\ pc["main"] \in {"moved", "post", "last"} =>
            rx_actual = tx_bytes[s] /\ Holds(rx_buf[s], tx_bytes[s], Start(s))
    /\ pc["main"] = "post" => ~eof[s]
    /\ pc["main"] = "last" => eof[s]

Written ==
    out_file = [i \in 1..(IF pc["writer"] = "count" THEN Freed + rx_bytes[Fst]
                          ELSE bytes_written) |-> i]

\* The threads start after the header; one that ended did all there was to do.
Setup == Port \cup {"devices", "header"}
AllIn ==
    /\ pc["main"] \in Setup => pc["writer"] = "unborn"
    /\ pc["reader"] = "exit" => bytes_read = file_size
    /\ pc["writer"] = "exit" => bytes_written = file_size
    /\ pc["main"] \in {"exit", "compare", "returned"} => total_bytes_done = file_size
    /\ pc["main"] \in {"compare", "returned"} => ok /\ pc["writer"] = "exit"

Copying == Order /\ Sums /\ Pieces /\ Passing /\ Written /\ AllIn
Clean == ~transfer_error /\ laps = 0 /\ ~short
CopyInv == Inv /\ (Clean => Copying)

\* What the steps below compute with.
LEMMA Grounds ==
    ASSUME CopyInv, Clean
    PROVE  /\ TypeOK /\ Knows /\ Order /\ Sums /\ Pieces /\ Passing /\ Written /\ AllIn
           /\ Fst \in Slot /\ Snd \in Slot /\ Fst # Snd /\ \A z \in Slot : z = Fst \/ z = Snd
           /\ at["reader"] \in Slot /\ at["main"] \in Slot
           /\ \A z \in Slot : /\ tx_bytes[z] \in Nat /\ rx_bytes[z] \in Nat
                              /\ tx_bytes[z] <= Chunk
           /\ Chunk \in Nat /\ file_size \in Nat /\ bytes_read \in Nat /\ bytes_read <= file_size
           /\ bytes_written \in Nat /\ total_bytes_done \in Nat
           /\ {"reader", "main", "writer"} = Thread /\ pc \in [Thread -> Point]
<1>1. TypeOK /\ Knows /\ Copying /\ Chunk \in Nat /\ FileSizes \subseteq Nat
  BY SizesAssumption DEF CopyInv, Inv, Clean
<1>2. {"reader", "main", "writer"} = Thread  BY DEF Thread
<1>3. at["reader"] \in Slot /\ at["main"] \in Slot /\ Fst \in Slot
  BY <1>1, <1>2 DEF TypeOK, Fst
<1>4. Snd \in Slot /\ Fst # Snd /\ \A z \in Slot : z = Fst \/ z = Snd
  BY <1>3 DEF Fst, Snd, Slot
<1>5. /\ file_size \in Nat /\ bytes_read \in Nat /\ bytes_read <= file_size
      /\ bytes_written \in Nat /\ total_bytes_done \in Nat
  BY <1>1 DEF TypeOK
<1>6. ASSUME NEW z \in Slot
      PROVE  tx_bytes[z] \in Nat /\ rx_bytes[z] \in Nat /\ tx_bytes[z] <= Chunk
  <2>1. tx_bytes[z] \in 0..Chunk /\ rx_bytes[z] \in 0..Chunk  BY <1>1 DEF TypeOK
  <2> QED  BY <1>1, <2>1
<1> QED  BY <1>1, <1>2, <1>3, <1>4, <1>5, <1>6 DEF Copying, TypeOK

LEMMA CopyInit == Init => CopyInv
<1> SUFFICES ASSUME Init PROVE CopyInv  OBVIOUS
<1>1. pc["main"] = "devices" /\ pc["reader"] = "unborn" /\ pc["writer"] = "unborn"
      /\ at["reader"] = 0 /\ at["main"] = 0 /\ at["writer"] = 0
  BY DEF Init, Thread
<1>2. Fst = 0 /\ Snd = 1 /\ Freed = 0  BY <1>1 DEF Init, Fst, Snd, Freed
<1>3. \A s \in Slot : ~filled[s] /\ ~usb_done[s]  BY DEF Init
<1>4. 0 \in Slot /\ 1 \in Slot  BY DEF Slot
<1>5. Order  BY <1>1, <1>2, <1>3, <1>4 DEF Order
<1>6. Sums  BY <1>2, <1>3, <1>4 DEF Init, Sums, End
<1>7. Pieces  BY <1>3 DEF Pieces
<1>8. Passing /\ AllIn  BY <1>1 DEF Passing, AllIn, Setup
<1>9. Written  BY <1>1 DEF Init, Written
<1> QED  BY <1>5, <1>6, <1>7, <1>8, <1>9, InvInit DEF Copying, CopyInv

\* Steps of control alone.
LEMMA CopyWaits ==
    ASSUME Copying, UNCHANGED <<at, bufs, marks, sums, out_file, file_size>>,
           pc'["writer"] = "post" <=> pc["writer"] = "post",
           pc'["writer"] = "count" <=> pc["writer"] = "count",
           Passing', AllIn'
    PROVE  Copying'
<1>1. Fst' = Fst /\ Snd' = Snd /\ Freed' = Freed  BY DEF Fst, Snd, Freed, sums, bufs
<1>2. Order'  BY <1>1 DEF Copying, Order, marks
<1>3. Sums'  BY <1>1 DEF Copying, Sums, End, marks, sums, bufs
<1>4. \A s : Start(s)' = Start(s)  BY <1>1 DEF Start, bufs
<1>5. Pieces'  BY <1>4 DEF Copying, Pieces, Holds, bufs, marks
<1>6. Written'  BY <1>1 DEF Copying, Written, sums, bufs
<1> QED  BY <1>2, <1>3, <1>5, <1>6 DEF Copying

\* main's part of a control step, when main stays out of a transfer or in its place.
LEMMA PassingWaits ==
    ASSUME Copying, UNCHANGED <<at, bufs, marks, call, sums>>,
           pc'["writer"] = "post" <=> pc["writer"] = "post",
           pc'["main"] \in {"moving", "moved", "post", "last"} => pc'["main"] = pc["main"]
    PROVE  Passing'
<1>1. Fst' = Fst /\ Freed' = Freed  BY DEF Fst, Freed, sums, bufs
<1>2. \A s : Start(s)' = Start(s)  BY <1>1 DEF Start, bufs
<1> QED  BY <1>2 DEF Copying, Passing, Holds, bufs, marks, call

\* A thread leaves its loop for lack of work, unless something failed.
LEMMA CopyThread ==
    ASSUME CopyInv, Clean, NEW t \in Thread,
           LoopHead(t) \/ Sleep(t) \/ (Go(t) /\ UNCHANGED <<ports, at, bufs, marks, call, sums,
                                                            out_file, ok>>)
    PROVE  Copying'
<1>1. Copying  BY DEF CopyInv
<1>2. /\ UNCHANGED <<at, bufs, marks, call, sums, out_file, ok, file_size>>
      /\ \A u \in Thread : u # t => pc'[u] = pc[u]
      /\ pc[t] \in {"head", "wait"} /\ pc'[t] \in {"wait", "asleep", "busy", "exit"}
      /\ pc'[t] = "exit" => pc[t] = "head" /\ ~Continues(t)
  <2>1. CASE LoopHead(t)  BY Grounds, <2>1, Moved DEF LoopHead, slots, ports
  <2>2. CASE Sleep(t)  BY Grounds, <2>2, Moved DEF Sleep, slots, ports
  <2>3. CASE Go(t) /\ UNCHANGED <<ports, at, bufs, marks, call, sums, out_file, ok>>
    BY Grounds, <2>3, Moved DEF Go, Leaves, Clean, ports
  <2> QED  BY <2>1, <2>2, <2>3
<1>3. AllIn'
  <2>1. pc["writer"] # "post" => bytes_written <= bytes_read
    BY Grounds DEF Order, Sums, End, Freed
  <2>2. pc'[t] = "exit" => \/ (t = "reader" /\ bytes_read = file_size)
                           \/ (t = "writer" /\ bytes_written = file_size)
    <3>1. t = "reader" \/ t = "main" \/ t = "writer"  BY DEF Thread
    <3> QED  BY Grounds, <1>2, <2>1, <3>1 DEF Continues, Clean
  <2> QED  BY Grounds, <1>2, <2>2 DEF AllIn, Setup, Port, sums
<1>4. /\ pc'["writer"] = "post" <=> pc["writer"] = "post"
      /\ pc'["writer"] = "count" <=> pc["writer"] = "count"
      /\ pc'["main"] \in {"moving", "moved", "post", "last"} => pc'["main"] = pc["main"]
  BY Grounds, <1>2
<1> QED  BY <1>1, <1>2, <1>3, <1>4, CopyWaits, PassingWaits

\* Before the threads nothing is copied; after them the counts are complete.
LEMMA CopyOutside ==
    ASSUME CopyInv, Clean, Prologue \/ JoinAll \/ Compare
    PROVE  Copying'
<1>1. /\ UNCHANGED slots /\ file_size' = file_size
      /\ pc \in [Thread -> Point] /\ Copying /\ AllIn /\ Written
      /\ {"reader", "main", "writer"} = Thread
  BY Grounds DEF CopyInv, Prologue, TwoDevices, TooFewDevices, OpenPort, PortOpens, PortBusy,
         PortFails, Opened, HeaderCrosses, HeaderFails, JoinAll, Compare, Close, ports
<1>2. UNCHANGED <<at, bufs, marks, call, sums, out_file, file_size>>  BY <1>1 DEF slots
<1>3. ASSUME pc'["writer"] = pc["writer"] \/ (pc["writer"] = "unborn" /\ pc'["writer"] = "head"),
             pc'["main"] \notin {"moving", "moved", "post", "last"} \/ pc'["main"] = pc["main"],
             AllIn'
      PROVE  Copying'
  BY <1>1, <1>2, <1>3, CopyWaits, PassingWaits
<1>4. CASE JoinAll
  <2>1. pc'["main"] = "compare" /\ pc'["reader"] = pc["reader"] /\ pc'["writer"] = pc["writer"]
    BY <1>1, <1>4, Moved DEF JoinAll
  <2>2. pc["main"] = "exit" /\ pc["writer"] = "exit" /\ ok' = Succeeded
    BY <1>1, <1>4 DEF JoinAll, AllJoined
  <2>3. AllIn'
    BY <1>1, <1>2, <2>1, <2>2 DEF AllIn, Setup, Port, Succeeded, Clean, sums
  <2> QED  BY <1>3, <2>1, <2>3
<1>5. CASE Compare
  <2>1. pc'["main"] = "returned" /\ pc'["reader"] = pc["reader"] /\ pc'["writer"] = pc["writer"]
    BY <1>1, <1>5, Moved DEF Compare
  <2>2. pc["main"] = "compare" /\ ok' = (ok /\ files_equal)  BY <1>5 DEF Compare
  <2>3. ok /\ files_equal  BY <1>1, <2>2 DEF AllIn, Written, files_equal
  <2>4. AllIn'  BY <1>1, <1>2, <2>1, <2>2, <2>3 DEF AllIn, Setup, Port, sums
  <2> QED  BY <1>3, <2>1, <2>4
<1>6. CASE HeaderCrosses
  <2>1. \A t \in Thread : pc'[t] = "head"  BY <1>6 DEF HeaderCrosses
  <2>2. pc["writer"] = "unborn"  BY <1>1, <1>6 DEF HeaderCrosses, AllIn, Setup
  <2>3. AllIn'  BY <1>1, <2>1 DEF AllIn, Setup, Port
  <2> QED  BY <1>1, <1>3, <2>1, <2>2, <2>3
<1>7. CASE TwoDevices \/ TooFewDevices \/ OpenPort \/ HeaderFails
  <2>1. /\ pc'["main"] \in {"send_port", "recv_port", "header", "refused"}
        /\ pc'["reader"] = pc["reader"] /\ pc'["writer"] = pc["writer"]
    <3>1. CASE TwoDevices  BY <1>1, <3>1, Moved DEF TwoDevices
    <3>2. CASE TooFewDevices  BY <1>1, <3>2, Moved DEF TooFewDevices
    <3>3. CASE HeaderFails  BY <1>1, <3>3, Moved DEF HeaderFails
    <3>4. CASE OpenPort
      <4>1. PICK p \in Port : PortOpens(p) \/ PortBusy(p) \/ PortFails(p)
        BY <3>4 DEF OpenPort
      <4>2. CASE PortBusy(p)  BY <4>2 DEF PortBusy, Port
      <4>3. CASE Opened
        <5>1. PICK l \in {"recv_port", "header"} : Goto("main", l)  BY <4>3 DEF Opened
        <5> QED  BY <1>1, <5>1, Moved
      <4> QED  BY <4>1, <4>2, <4>3 DEF PortOpens, PortFails
    <3> QED  BY <1>7, <3>1, <3>2, <3>3, <3>4
  <2>2. pc["main"] \in Setup
    BY <1>7 DEF TwoDevices, TooFewDevices, HeaderFails, OpenPort, PortOpens, PortBusy,
                PortFails, Setup
  <2>3. AllIn'  BY <1>1, <1>2, <2>1, <2>2 DEF AllIn, Setup, Port, sums
  <2> QED  BY <1>3, <2>1, <2>3
<1> QED  BY <1>4, <1>5, <1>6, <1>7 DEF Prologue

\* The slot the reader may fill is the first that is not filled, and what it is going to
\* read begins there.
LEMMA ReaderIsAhead ==
    ASSUME CopyInv, Clean, ~filled[at["reader"]]
    PROVE  /\ ~filled[Snd] /\ ~usb_done[Snd] /\ ~usb_done[at["reader"]]
           /\ at["reader"] = Fst \/ (at["reader"] = Snd /\ filled[Fst])
           /\ Start(at["reader"]) = bytes_read
           /\ Freed \in Nat
<1>1. /\ Order /\ Sums /\ DoneIsFilled /\ Fst \in Slot /\ Snd \in Slot /\ Fst # Snd
      /\ at["reader"] \in Slot
  BY Grounds DEF Knows
<1> QED  BY <1>1 DEF Order, Sums, End, Start, DoneIsFilled

\* The reader overwrites and fills only a slot that holds nothing.
LEMMA CopyReader ==
    ASSUME CopyInv, Clean, ReaderStarts \/ ReaderFills
    PROVE  Copying'
<1> DEFINE s == at["reader"]
<1>1. /\ TypeOK /\ Knows /\ Order /\ Sums /\ Pieces /\ Passing /\ Written /\ AllIn
      /\ Fst \in Slot /\ Snd \in Slot /\ Fst # Snd /\ \A z \in Slot : z = Fst \/ z = Snd
      /\ s \in Slot /\ {"reader", "main", "writer"} = Thread /\ pc \in [Thread -> Point]
      /\ file_size \in Nat /\ bytes_read \in Nat /\ at["main"] \in Slot
      /\ \A z \in Slot : tx_bytes[z] \in Nat /\ rx_bytes[z] \in Nat
  BY Grounds
<1>2. ~filled[s]
  BY <1>1 DEF ReaderStarts, ReaderFills, Go, MayGo, ReaderMayGo, Knows, ReaderKnows
<1>3. /\ ~filled[Snd] /\ ~usb_done[Snd] /\ ~usb_done[s]
      /\ s = Fst \/ (s = Snd /\ filled[Fst])
      /\ Start(s) = bytes_read /\ Freed \in Nat
  BY <1>2, ReaderIsAhead
<1>4. at["main"] # s \/ pc["main"] \notin InTransfer
  BY <1>1, <1>2 DEF Knows, MainKnows
<1>5. pc["writer"] \in {"count", "post"} => s # Fst
  BY <1>1, <1>2 DEF Knows, WriterKnows, Fst
<1> HIDE DEF s
<1>6. CASE ReaderStarts
  <2>1. /\ UNCHANGED <<ports, at, rx_buf, tx_bytes, rx_bytes, marks, transfer_error, call, sums,
                       out_file, ok, past>>
        /\ tx_buf' = [tx_buf EXCEPT ![s] = Over(@, to_read, Torn)]
        /\ Goto("reader", "busy")
    BY <1>6 DEF ReaderStarts, Go, Leaves, s
  <2>2. pc'["reader"] = "busy" /\ pc'["main"] = pc["main"] /\ pc'["writer"] = pc["writer"]
    BY <1>1, <2>1 DEF Goto
  <2>3. Fst' = Fst /\ Snd' = Snd /\ Freed' = Freed /\ \A z : Start(z)' = Start(z)
    BY <2>1, <2>2 DEF Fst, Snd, Freed, Start, sums
  <2>4. Order' /\ Sums'  BY <1>1, <2>1, <2>3 DEF Order, Sums, End, marks, sums
  <2>5. Pieces'
    <3>1. \A z \in Slot : filled[z] => tx_buf'[z] = tx_buf[z]
      BY <1>1, <1>2, <2>1 DEF TypeOK
    <3> QED  BY <1>1, <2>1, <2>3, <3>1 DEF Pieces, Holds, marks, ports
  <2>6. Passing'  BY <1>1, <2>1, <2>2, <2>3 DEF Passing, Holds, marks, call
  <2>7. Written'  BY <1>1, <2>1, <2>2, <2>3 DEF Written, sums
  <2>8. AllIn'  BY <1>1, <2>1, <2>2 DEF AllIn, Setup, Port, sums, ports
  <2> QED  BY <2>4, <2>5, <2>6, <2>7, <2>8 DEF Copying
<1>7. CASE ReaderFills
  <2>1. /\ UNCHANGED <<ports, rx_buf, rx_bytes, transfer_error, call, bytes_written,
                       total_bytes_done, out_file, ok, past>>
        /\ bytes_read' = bytes_read + to_read
        /\ tx_buf' = [tx_buf EXCEPT ![s] = Over(@, to_read, [i \in 1..Chunk |-> bytes_read + i])]
        /\ tx_bytes' = [tx_bytes EXCEPT ![s] = to_read]
        /\ filled' = [filled EXCEPT ![s] = TRUE] /\ usb_done' = [usb_done EXCEPT ![s] = FALSE]
        /\ eof' = [eof EXCEPT ![s] = bytes_read + to_read >= file_size]
        /\ pc["reader"] = "busy" /\ NotifyAll("reader", "head", s) /\ Flip("reader")
    BY <1>7 DEF ReaderFills, s
  <2>2. to_read \in Nat /\ to_read <= Chunk /\ to_read > 0 /\ Chunk \in Nat
    <3>1. bytes_read < file_size  BY <2>1 DEF CopyInv, Inv, MoreToRead
    <3> QED  BY <1>1, <3>1, ToRead, SizesAssumption
  <2>3. /\ at'["main"] = at["main"] /\ at'["writer"] = at["writer"]
        /\ at'["reader"] = 1 - s
    BY <1>1, <2>1, Flipped DEF s
  <2>4. /\ pc'["reader"] = "head"
        /\ \A u \in {"main", "writer"} :
              pc'[u] = pc[u] \/ (pc[u] = "asleep" /\ pc'[u] = "wait")
    <3>1. "head" \in Point  BY DEF Point
    <3> QED  BY <1>1, <2>1, <3>1, Wakes
  <2>5. /\ filled'[s] /\ ~usb_done'[s] /\ tx_bytes'[s] = to_read
        /\ eof'[s] = (bytes_read + to_read >= file_size)
        /\ tx_buf'[s] = Over(tx_buf[s], to_read, [i \in 1..Chunk |-> bytes_read + i])
        /\ \A z \in Slot : z # s => /\ filled'[z] = filled[z] /\ usb_done'[z] = usb_done[z]
                                    /\ tx_bytes'[z] = tx_bytes[z] /\ eof'[z] = eof[z]
                                    /\ tx_buf'[z] = tx_buf[z]
    BY <1>1, <2>1 DEF TypeOK
  <2>6. \A z \in Slot : usb_done'[z] = usb_done[z]
    <3>1. usb_done[s] = FALSE /\ usb_done'[s] = FALSE
      BY <1>1, <1>3, <2>1 DEF TypeOK
    <3> QED  BY <2>5, <3>1
  <2>7. Fst' = Fst /\ Snd' = Snd /\ Freed' = Freed
    BY <2>1, <2>3, <2>4 DEF Fst, Snd, Freed
  <2>8. \A z \in Slot : (filled[z] \/ z = s) => Start(z)' = Start(z)
    BY <1>1, <1>3, <2>5, <2>7 DEF Start
  <2>9. Snd = 1 - Fst /\ Fst = 1 - Snd /\ at'["reader"] = 1 - s
    BY <1>1, <2>3 DEF Fst, Snd, Slot
  <2>10. Order'
    <3>1. filled'[Snd] => filled'[Fst]  BY <1>1, <1>3, <2>5
    <3>2. at'["reader"] = IF filled'[Fst] /\ ~filled'[Snd] THEN Snd ELSE Fst
      <4>1. CASE s = Fst  BY <1>1, <1>3, <2>5, <2>9, <4>1
      <4>2. CASE s = Snd /\ filled[Fst]  BY <1>1, <1>3, <2>5, <2>9, <4>2
      <4> QED  BY <1>3, <4>1, <4>2
    <3> QED  BY <1>1, <1>3, <2>3, <2>6, <2>7, <3>1, <3>2 DEF Order
  <2>11. Sums'
    <3>1. total_bytes_done' = End(usb_done)'
      BY <1>1, <1>3, <2>1, <2>5, <2>6, <2>7 DEF Sums, End
    <3>2. bytes_read' = End(filled)'
      <4>1. CASE s = Fst  BY <1>1, <1>3, <2>1, <2>2, <2>5, <2>7, <4>1 DEF End, Start
      <4>2. CASE s = Snd /\ filled[Fst]
        BY <1>1, <1>3, <2>1, <2>2, <2>5, <2>7, <4>2 DEF End, Start
      <4> QED  BY <1>3, <4>1, <4>2
    <3> QED  BY <3>1, <3>2 DEF Sums
  <2>12. Pieces'
    <3> SUFFICES ASSUME NEW z \in Slot
                 PROVE  /\ filled'[z] => /\ tx_bytes'[z] > 0
                                         /\ Holds(tx_buf'[z], tx_bytes'[z], Start(z)')
                                         /\ eof'[z] <=> Start(z)' + tx_bytes'[z] >= file_size'
                        /\ usb_done'[z] => /\ rx_bytes'[z] = tx_bytes'[z]
                                           /\ Holds(rx_buf'[z], tx_bytes'[z], Start(z)')
      BY DEF Pieces, Holds
    <3>1. CASE z = s
      <4>1. Holds(tx_buf'[s], to_read, bytes_read)
        BY <2>2, <2>5 DEF Holds, Over
      <4> QED  BY <1>3, <2>1, <2>2, <2>5, <2>8, <3>1, <4>1 DEF ports
    <3>2. CASE z # s
      BY <1>1, <2>1, <2>5, <2>8, <3>2 DEF Pieces, Knows, DoneIsFilled, ports
    <3> QED  BY <3>1, <3>2
  <2>13. Passing'
    <3>1. CASE pc["main"] \in {"moving", "moved", "post", "last"}
      <4>1. at["main"] # s /\ filled[at["main"]] /\ pc'["main"] = pc["main"]
        BY <1>1, <1>4, <2>4, <3>1 DEF InTransfer, Knows, MainKnows
      <4> QED  BY <1>1, <2>1, <2>3, <2>5, <2>8, <4>1 DEF Passing, Holds, call
    <3>2. CASE pc["main"] \notin {"moving", "moved", "post", "last"}
      BY <2>4, <3>2 DEF Passing
    <3> QED  BY <3>1, <3>2
  <2>14. Written'
    <3>1. pc'["writer"] = "count" <=> pc["writer"] = "count"  BY <2>4
    <3> QED  BY <1>1, <2>1, <2>7, <3>1 DEF Written
  <2>15. AllIn'
    <3>1. pc'["main"] \in Setup \cup {"exit", "compare", "returned"} => pc'["main"] = pc["main"]
      BY <2>4 DEF Setup, Port
    <3>2. /\ pc["writer"] = "unborn" => pc'["writer"] = "unborn"
          /\ pc'["writer"] = "exit" <=> pc["writer"] = "exit"
      BY <2>4
    <3> QED  BY <1>1, <2>1, <2>4, <3>1, <3>2 DEF AllIn, ports
  <2> QED  BY <2>10, <2>11, <2>12, <2>13, <2>14, <2>15 DEF Copying
<1> QED  BY <1>6, <1>7

\* The slot main is in is filled and not done, and what main has counted ends there.
LEMMA MainIsBehind ==
    ASSUME CopyInv, Clean, pc["main"] \in InTransfer
    PROVE  LET s == at["main"] IN
           /\ filled[s] /\ ~usb_done[s] /\ ~usb_done[Snd]
           /\ s = Fst \/ (s = Snd /\ usb_done[Fst])
           /\ Start(s) = total_bytes_done /\ total_bytes_done + tx_bytes[s] <= bytes_read
           /\ Freed \in Nat
           /\ tx_bytes[s] > 0 /\ Holds(tx_buf[s], tx_bytes[s], Start(s))
           /\ eof[s] => Start(s) + tx_bytes[s] >= file_size
           /\ pc["writer"] \in {"count", "post"} => s # Fst
<1> DEFINE s == at["main"]
<1>1. /\ Order /\ Sums /\ Knows /\ Pieces /\ Fst \in Slot /\ Snd \in Slot /\ Fst # Snd
      /\ s \in Slot /\ \A z \in Slot : tx_bytes[z] \in Nat
  BY Grounds
<1>2. filled[s] /\ ~usb_done[s]  BY <1>1 DEF Knows, MainKnows
<1>3. pc["writer"] \in {"count", "post"} => s # Fst
  BY <1>1, <1>2 DEF Knows, WriterKnows, Fst
<1>4. /\ ~usb_done[Snd] /\ Freed \in Nat
      /\ s = Fst \/ (s = Snd /\ usb_done[Fst])
      /\ Start(s) = total_bytes_done
  BY <1>1, <1>2 DEF Order, Sums, End, Start
<1>5. total_bytes_done + tx_bytes[s] <= bytes_read
  BY <1>1, <1>2, <1>4 DEF Order, Sums, End, Start
<1>6. /\ tx_bytes[s] > 0 /\ Holds(tx_buf[s], tx_bytes[s], Start(s))
      /\ eof[s] => Start(s) + tx_bytes[s] >= file_size
  BY <1>1, <1>2 DEF Pieces
<1> QED  BY <1>2, <1>3, <1>4, <1>5, <1>6

\* main overwrites rx_buf of a slot that is not done; when the transfer is through it
\* holds what tx_buf does.
LEMMA CopyMain ==
    ASSUME CopyInv, Clean,
           MainSubmits \/ MainTransferHangs \/ (MainTransfers /\ ~short') \/ MainLooks
    PROVE  Copying'
<1> DEFINE s == at["main"]
<1>1. /\ TypeOK /\ Knows /\ Order /\ Sums /\ Pieces /\ Passing /\ Written /\ AllIn /\ Copying
      /\ Fst \in Slot /\ Snd \in Slot /\ Fst # Snd /\ \A z \in Slot : z = Fst \/ z = Snd
      /\ s \in Slot /\ {"reader", "main", "writer"} = Thread /\ pc \in [Thread -> Point]
      /\ \A z \in Slot : tx_bytes[z] \in Nat /\ rx_bytes[z] \in Nat /\ tx_bytes[z] <= Chunk
      /\ Chunk \in Nat
  BY Grounds DEF CopyInv
<1>2. pc["main"] \in InTransfer
  BY DEF MainSubmits, MainTransferHangs, MainTransfers, MainLooks, InTransfer
<1>3. ~usb_done[s] /\ Holds(tx_buf[s], tx_bytes[s], Start(s))
  BY <1>2, MainIsBehind
<1> HIDE DEF s
<1>4. /\ UNCHANGED <<at, tx_buf, tx_bytes, rx_bytes, marks, sums, out_file, file_size, ok>>
      /\ \E l \in {"moving", "polling", "moved", "last", "post"} : Goto("main", l)
  BY DEF MainSubmits, MainTransferHangs, MainTransfers, MainLooks, slots, bufs, ports
<1>5. /\ pc'["reader"] = pc["reader"] /\ pc'["writer"] = pc["writer"]
      /\ pc'["main"] \in {"moving", "polling", "moved", "last", "post"}
  BY <1>1, <1>4 DEF Goto
<1>6. \A z \in Slot : z # s => rx_buf'[z] = rx_buf[z]
  BY <1>1 DEF MainSubmits, MainTransferHangs, MainTransfers, MainLooks, slots, bufs, TypeOK, s
<1>7. Fst' = Fst /\ Snd' = Snd /\ Freed' = Freed /\ \A z : Start(z)' = Start(z)
  BY <1>4, <1>5 DEF Fst, Snd, Freed, Start, sums
<1>8. Order' /\ Sums'  BY <1>1, <1>4, <1>7 DEF Order, Sums, End, marks, sums
<1>9. Pieces'  BY <1>1, <1>3, <1>4, <1>6, <1>7 DEF Pieces, Holds, marks
<1>10. Written'  BY <1>1, <1>4, <1>5, <1>7 DEF Written, sums
<1>11. AllIn'  BY <1>1, <1>4, <1>5 DEF AllIn, Setup, Port, sums
<1>12. Passing'
  <2>1. CASE MainSubmits
    <3>1. len' = tx_bytes[s] /\ pc'["main"] = "moving"
      BY <1>1, <2>1 DEF MainSubmits, Goto, s
    <3> QED  BY <1>4, <3>1 DEF Passing, s
  <2>2. CASE MainTransferHangs
    <3>1. pc'["main"] = "polling"  BY <1>1, <2>2 DEF MainTransferHangs, Goto
    <3> QED  BY <3>1 DEF Passing
  <2>3. CASE MainTransfers /\ ~short'
    <3>1. /\ pc'["main"] = "moved" /\ rx_actual' \in Received /\ ~(rx_actual' < len)
          /\ rx_buf' = [rx_buf EXCEPT ![s] = Over(@, rx_actual', tx_buf[s])]
          /\ pc["main"] = "moving"
      BY <1>1, <2>3 DEF MainTransfers, Goto, s
    <3>2. len = tx_bytes[s]  BY <1>1, <3>1 DEF Passing, s
    <3>3. rx_actual' = tx_bytes[s]  BY <1>1, <3>1, <3>2 DEF Received
    <3>4. rx_buf'[s] = Over(rx_buf[s], tx_bytes[s], tx_buf[s])
      BY <1>1, <3>1, <3>3 DEF TypeOK
    <3>5. Holds(rx_buf'[s], tx_bytes[s], Start(s))
      BY <1>1, <1>3, <3>4 DEF Holds, Over
    <3> QED  BY <1>4, <1>7, <3>1, <3>3, <3>5 DEF Passing, Holds, s
  <2>4. CASE MainLooks
    <3>1. /\ pc'["main"] = IF eof[s] THEN "last" ELSE "post"
          /\ pc["main"] = "moved" /\ UNCHANGED <<rx_buf, rx_actual>>
      BY <1>1, <2>4 DEF MainLooks, Goto, AllDone, slots, bufs, call, s
    <3>2. rx_actual = tx_bytes[s] /\ Holds(rx_buf[s], tx_bytes[s], Start(s))
      BY <1>1, <3>1 DEF Passing, s
    <3>3. eof' = eof  BY <1>4 DEF marks
    <3> QED  BY <1>4, <1>7, <3>1, <3>2, <3>3 DEF Passing, Holds, s
  <2> QED  BY <2>1, <2>2, <2>3, <2>4
<1> QED  BY <1>8, <1>9, <1>10, <1>11, <1>12 DEF Copying

\* main counts what has crossed and marks its slot as done.
LEMMA CopyPosts ==
    ASSUME CopyInv, Clean, MainPosts
    PROVE  Copying'
<1> DEFINE s == at["main"]
<1>1. /\ TypeOK /\ Knows /\ Order /\ Sums /\ Pieces /\ Passing /\ Written /\ AllIn
      /\ Fst \in Slot /\ Snd \in Slot /\ Fst # Snd /\ \A z \in Slot : z = Fst \/ z = Snd
      /\ s \in Slot /\ {"reader", "main", "writer"} = Thread /\ pc \in [Thread -> Point]
      /\ \A z \in Slot : tx_bytes[z] \in Nat /\ rx_bytes[z] \in Nat
      /\ file_size \in Nat /\ bytes_read \in Nat /\ bytes_read <= file_size
      /\ total_bytes_done \in Nat
  BY Grounds
<1>2. pc["main"] \in {"post", "last"} /\ pc["main"] \in InTransfer
  BY DEF MainPosts, InTransfer
<1>3. /\ filled[s] /\ ~usb_done[s] /\ ~usb_done[Snd]
      /\ s = Fst \/ (s = Snd /\ usb_done[Fst])
      /\ Start(s) = total_bytes_done /\ total_bytes_done + tx_bytes[s] <= bytes_read
      /\ eof[s] => Start(s) + tx_bytes[s] >= file_size
      /\ pc["writer"] \in {"count", "post"} => s # Fst
      /\ Freed \in Nat
  BY <1>2, MainIsBehind
<1>4. /\ rx_actual = tx_bytes[s] /\ Holds(rx_buf[s], tx_bytes[s], Start(s))
      /\ pc["main"] = "last" => eof[s]
  BY <1>1, <1>2 DEF Passing, s
<1> HIDE DEF s
<1>5. /\ UNCHANGED <<tx_buf, rx_buf, tx_bytes, filled, eof, bytes_read, bytes_written,
                     out_file, ok, file_size>>
      /\ rx_bytes' = [rx_bytes EXCEPT ![s] = rx_actual]
      /\ usb_done' = [usb_done EXCEPT ![s] = TRUE]
      /\ total_bytes_done' = total_bytes_done + rx_actual
      /\ Flip("main")
      /\ NotifyAll("main", IF pc["main"] = "last" THEN "exit" ELSE "head", s)
  BY DEF MainPosts, ports, s
<1>6. /\ at'["reader"] = at["reader"] /\ at'["writer"] = at["writer"]
      /\ at'["main"] = 1 - s
  BY <1>1, <1>5, Flipped DEF s
<1>7. /\ pc'["main"] = IF pc["main"] = "last" THEN "exit" ELSE "head"
      /\ \A u \in {"reader", "writer"} :
            pc'[u] = pc[u] \/ (pc[u] = "asleep" /\ pc'[u] = "wait")
  <2>1. {"head", "exit"} \subseteq Point  BY DEF Point
  <2> QED  BY <1>1, <1>5, <2>1, Wakes
<1>8. /\ usb_done'[s] /\ rx_bytes'[s] = tx_bytes[s]
      /\ \A z \in Slot : z # s => usb_done'[z] = usb_done[z] /\ rx_bytes'[z] = rx_bytes[z]
  BY <1>1, <1>4, <1>5 DEF TypeOK
<1>9. /\ pc'["writer"] = "post" <=> pc["writer"] = "post"
      /\ pc'["writer"] = "count" <=> pc["writer"] = "count"
  BY <1>7
<1>10. Fst' = Fst /\ Snd' = Snd /\ Freed' = Freed
  BY <1>1, <1>3, <1>5, <1>6, <1>8, <1>9 DEF Fst, Snd, Freed
<1>11. \A z : Start(z)' = Start(z)  BY <1>5, <1>10 DEF Start
<1>12. Snd = 1 - Fst /\ Fst = 1 - Snd  BY <1>1 DEF Fst, Snd, Slot
<1>13. Order'
  <2>1. usb_done'[Snd] => usb_done'[Fst]  BY <1>1, <1>3, <1>8 DEF Order
  <2>2. at'["main"] = IF usb_done'[Fst] /\ ~usb_done'[Snd] THEN Snd ELSE Fst
    <3>1. CASE s = Fst  BY <1>1, <1>3, <1>6, <1>8, <1>12, <3>1
    <3>2. CASE s = Snd /\ usb_done[Fst]  BY <1>1, <1>3, <1>6, <1>8, <1>12, <3>2
    <3> QED  BY <1>3, <3>1, <3>2
  <2> QED  BY <1>1, <1>3, <1>5, <1>6, <1>10, <2>1, <2>2 DEF Order
<1>14. Sums'
  <2>1. bytes_read' = End(filled)'  BY <1>1, <1>5, <1>10 DEF Sums, End
  <2>2. total_bytes_done' = End(usb_done)'
    <3>1. CASE s = Fst  BY <1>1, <1>3, <1>4, <1>5, <1>8, <1>10, <3>1 DEF End, Start
    <3>2. CASE s = Snd /\ usb_done[Fst]
      BY <1>1, <1>3, <1>4, <1>5, <1>8, <1>10, <3>2 DEF End, Start
    <3> QED  BY <1>3, <3>1, <3>2
  <2> QED  BY <2>1, <2>2 DEF Sums
<1>15. Pieces'
  <2> SUFFICES ASSUME NEW z \in Slot, usb_done'[z]
               PROVE  rx_bytes'[z] = tx_bytes[z] /\ Holds(rx_buf[z], tx_bytes[z], Start(z))
    BY <1>1, <1>5, <1>11 DEF Pieces, Holds
  <2>1. CASE z = s  BY <1>4, <1>8, <2>1
  <2>2. CASE z # s  BY <1>1, <1>8, <2>2 DEF Pieces
  <2> QED  BY <2>1, <2>2
<1>16. Passing'  BY <1>7 DEF Passing
<1>17. Written'
  <2>1. pc["writer"] = "count" => rx_bytes'[Fst] = rx_bytes[Fst]  BY <1>1, <1>3, <1>8
  <2> QED  BY <1>1, <1>5, <1>9, <1>10, <2>1 DEF Written
<1>18. AllIn'
  <2>1. pc["main"] = "last" => total_bytes_done' = file_size
    BY <1>1, <1>3, <1>4, <1>5
  <2>2. pc'["writer"] = "exit" <=> pc["writer"] = "exit"  BY <1>7
  <2>3. pc'["reader"] = "exit" <=> pc["reader"] = "exit"  BY <1>7
  <2> QED  BY <1>1, <1>2, <1>5, <1>7, <2>1, <2>2, <2>3 DEF AllIn, Setup, Port
<1> QED  BY <1>13, <1>14, <1>15, <1>16, <1>17, <1>18 DEF Copying

\* The first m units of a file and the n units after them are its first m + n units.
LEMMA Joined ==
    ASSUME NEW m \in Nat, NEW n \in Nat, NEW buf, Holds(buf, n, m)
    PROVE  [i \in 1..m |-> i] \o [i \in 1..n |-> buf[i]] = [i \in 1..m + n |-> i]
<1> DEFINE a == [i \in 1..m |-> i]
           b == [i \in 1..n |-> buf[i]]
<1>1. a \in Seq(Nat) /\ Len(a) = m
  BY IsASeq, LenProperties
<1>2. \A i \in 1..n : buf[i] \in Nat
  BY DEF Holds
<1>3. b \in Seq(Nat) /\ Len(b) = n
  BY <1>2, IsASeq, LenProperties
<1>4. a \o b \in Seq(Nat) /\ Len(a \o b) = m + n
      /\ \A i \in 1..m + n : (a \o b)[i] = IF i <= m THEN a[i] ELSE b[i - m]
  BY <1>1, <1>3, ConcatProperties
<1>5. \A i \in 1..m + n : (a \o b)[i] = i
  BY <1>4 DEF Holds
<1>6. [i \in 1..m + n |-> i] \in Seq(Nat) /\ Len([i \in 1..m + n |-> i]) = m + n
  BY IsASeq, LenProperties
<1> QED  BY <1>4, <1>5, <1>6, SeqEqual

\* The writer appends what its slot received, and gives the slot back.
LEMMA CopyWriter ==
    ASSUME CopyInv, Clean, WriterWrites \/ WriterCounts \/ WriterFrees
    PROVE  Copying'
<1> DEFINE s == at["writer"]
<1>1. /\ TypeOK /\ Knows /\ Order /\ Sums /\ Pieces /\ Passing /\ Written /\ AllIn /\ Copying
      /\ Fst \in Slot /\ Snd \in Slot /\ Fst # Snd /\ \A z \in Slot : z = Fst \/ z = Snd
      /\ {"reader", "main", "writer"} = Thread /\ pc \in [Thread -> Point]
      /\ \A z \in Slot : tx_bytes[z] \in Nat /\ rx_bytes[z] \in Nat
      /\ bytes_written \in Nat /\ at["main"] \in Slot
  BY Grounds DEF CopyInv
<1>2. filled[Fst] /\ usb_done[Fst] /\ Freed \in Nat
  BY <1>1 DEF Knows, WriterKnows, WriterWrites, WriterCounts, WriterFrees, Order, Fst
<1>3. rx_bytes[Fst] = tx_bytes[Fst] /\ Holds(rx_buf[Fst], rx_bytes[Fst], Freed)
  BY <1>1, <1>2 DEF Pieces, Start
<1>4. CASE WriterWrites
  <2>1. /\ UNCHANGED <<ports, at, bufs, marks, transfer_error, call, sums, ok, past>>
        /\ out_file' = out_file \o [i \in 1..rx_bytes[Fst] |-> rx_buf[Fst][i]]
        /\ pc["writer"] = "busy" /\ Goto("writer", "count")
    BY <1>4 DEF WriterWrites, Fst
  <2>2. pc'["writer"] = "count" /\ pc'["reader"] = pc["reader"] /\ pc'["main"] = pc["main"]
    BY <1>1, <2>1, Moved
  <2>3. Fst' = Fst /\ Snd' = Snd /\ Freed' = Freed /\ Freed = bytes_written
    BY <2>1, <2>2 DEF Fst, Snd, Freed, sums, bufs
  <2>4. \A z : Start(z)' = Start(z)  BY <2>1, <2>3 DEF Start, bufs
  <2>5. Order' /\ Sums' /\ Pieces' /\ Passing'
    BY <1>1, <2>1, <2>2, <2>3, <2>4 DEF Order, Sums, End, Pieces, Passing, Holds, marks, sums,
       bufs, call, ports
  <2>6. Written'
    <3>1. out_file = [i \in 1..bytes_written |-> i]  BY <1>1, <2>1 DEF Written
    <3>2. out_file' = [i \in 1..bytes_written + rx_bytes[Fst] |-> i]
      BY <1>1, <1>3, <2>1, <2>3, <3>1, Joined
    <3> QED  BY <2>1, <2>2, <2>3, <3>2 DEF Written, bufs
  <2>7. AllIn'  BY <1>1, <2>1, <2>2 DEF AllIn, Setup, Port, sums, ports
  <2> QED  BY <2>5, <2>6, <2>7 DEF Copying
<1>5. CASE WriterCounts
  <2>1. /\ UNCHANGED <<ports, at, bufs, marks, transfer_error, call, bytes_read,
                       total_bytes_done, out_file, ok, past>>
        /\ bytes_written' = bytes_written + rx_bytes[Fst]
        /\ pc["writer"] = "count" /\ Goto("writer", "post")
    BY <1>5 DEF WriterCounts, Fst
  <2>2. pc'["writer"] = "post" /\ pc'["reader"] = pc["reader"] /\ pc'["main"] = pc["main"]
    BY <1>1, <2>1, Moved
  <2>3. Fst' = Fst /\ Snd' = Snd /\ Freed' = Freed /\ Freed = bytes_written
    BY <1>1, <2>1, <2>2 DEF Fst, Snd, Freed, bufs
  <2>4. \A z : Start(z)' = Start(z)  BY <2>1, <2>3 DEF Start, bufs
  <2>5. Order' /\ Sums' /\ Pieces' /\ Passing'
    BY <1>1, <2>1, <2>2, <2>3, <2>4 DEF Order, Sums, End, Pieces, Passing, Holds, marks,
       bufs, call, ports
  <2>6. Written'  BY <1>1, <2>1, <2>2, <2>3 DEF Written
  <2>7. AllIn'  BY <1>1, <2>1, <2>2 DEF AllIn, Setup, Port, ports
  <2> QED  BY <2>5, <2>6, <2>7 DEF Copying
<1>6. CASE WriterFrees
  <2>1. /\ UNCHANGED <<ports, bufs, eof, transfer_error, call, sums, out_file, ok, past>>
        /\ filled' = [filled EXCEPT ![Fst] = FALSE] /\ usb_done' = [usb_done EXCEPT ![Fst] = FALSE]
        /\ pc["writer"] = "post" /\ Flip("writer") /\ NotifyAll("writer", "head", Fst)
    BY <1>6 DEF WriterFrees, ClearsUsbDone, Fst
  <2>2. /\ at'["reader"] = at["reader"] /\ at'["main"] = at["main"] /\ at'["writer"] = 1 - Fst
    BY <1>1, <2>1, Flipped DEF Fst
  <2>3. /\ pc'["writer"] = "head"
        /\ \A u \in {"reader", "main"} :
              pc'[u] = pc[u] \/ (pc[u] = "asleep" /\ pc'[u] = "wait")
    <3>1. "head" \in Point  BY DEF Point
    <3> QED  BY <1>1, <2>1, <3>1, Wakes
  <2>4. Fst' = Snd /\ Snd' = Fst  BY <1>1, <2>2 DEF Fst, Snd, Slot
  <2>5. Freed' = Freed + tx_bytes[Fst] /\ bytes_written = Freed + tx_bytes[Fst]
    BY <1>1, <1>3, <2>1, <2>3 DEF Freed, sums, bufs
  <2>6. /\ ~filled'[Fst] /\ ~usb_done'[Fst]
        /\ filled'[Snd] = filled[Snd] /\ usb_done'[Snd] = usb_done[Snd]
    BY <1>1, <2>1 DEF TypeOK
  <2>7. \A z : z = Snd => Start(z)' = Start(z)  BY <1>1, <2>4, <2>5 DEF Start
  <2>8. Order'  BY <1>1, <1>2, <2>2, <2>4, <2>5, <2>6 DEF Order
  <2>9. Sums'  BY <1>1, <1>2, <2>1, <2>4, <2>5, <2>6 DEF Sums, End, sums, bufs
  <2>10. Pieces'
    <3> SUFFICES ASSUME NEW z \in Slot
                 PROVE  /\ filled'[z] => /\ tx_bytes[z] > 0
                                         /\ Holds(tx_buf[z], tx_bytes[z], Start(z)')
                                         /\ eof[z] <=> Start(z)' + tx_bytes[z] >= file_size
                        /\ usb_done'[z] => /\ rx_bytes[z] = tx_bytes[z]
                                           /\ Holds(rx_buf[z], tx_bytes[z], Start(z)')
      BY <2>1 DEF Pieces, Holds, bufs, ports
    <3>1. CASE z = Fst  BY <2>6, <3>1
    <3>2. CASE z = Snd  BY <1>1, <2>6, <2>7, <3>2 DEF Pieces
    <3> QED  BY <1>1, <3>1, <3>2
  <2>11. Passing'
    <3>1. CASE pc["main"] \in {"moving", "moved", "post", "last"}
      <4>1. at["main"] = Snd /\ pc'["main"] = pc["main"]
        BY <1>1, <1>2, <2>3, <3>1 DEF Knows, MainKnows, InTransfer
      <4>2. Start(at["main"]) = Freed + tx_bytes[Fst]  BY <1>1, <4>1 DEF Start
      <4>3. Start(at["main"])' = Start(at["main"])
        BY <2>1, <2>2, <2>4, <2>5, <4>1, <4>2 DEF Start, bufs
      <4>4. UNCHANGED <<at["main"], pc["main"], tx_bytes, rx_buf, eof, len, rx_actual>>
        BY <2>1, <2>2, <4>1 DEF bufs, call
      <4> QED  BY <1>1, <4>3, <4>4 DEF Passing, Holds
    <3>2. CASE pc["main"] \notin {"moving", "moved", "post", "last"}
      BY <2>3, <3>2 DEF Passing
    <3> QED  BY <3>1, <3>2
  <2>12. Written'  BY <1>1, <2>1, <2>3 DEF Written, sums
  <2>13. AllIn'
    <3>1. pc'["main"] \in Setup \cup {"exit", "compare", "returned"} => pc'["main"] = pc["main"]
      BY <2>3 DEF Setup, Port
    <3>2. pc["main"] \notin Setup  BY <1>1, <2>1 DEF AllIn
    <3>3. pc["main"] \notin {"compare", "returned"}  BY <1>1, <2>1 DEF AllIn
    <3>4. pc'["reader"] = "exit" => pc["reader"] = "exit"  BY <2>3
    <3> QED  BY <1>1, <2>1, <2>3, <3>1, <3>2, <3>3, <3>4 DEF AllIn, sums, ports
  <2> QED  BY <2>8, <2>9, <2>10, <2>11, <2>12, <2>13 DEF Copying
<1> QED  BY <1>4, <1>5, <1>6

\* An error stays, as does a lap or a short transfer; every step without one keeps the
\* copy in order.
LEMMA CopyStep == CopyInv /\ [Next]_vars => CopyInv'
<1> SUFFICES ASSUME CopyInv, [Next]_vars PROVE CopyInv'  OBVIOUS
<1>1. Inv'  BY NextKeeps DEF CopyInv
<1> SUFFICES ASSUME Clean' PROVE Copying'  BY <1>1 DEF CopyInv
<1>2. Inv /\ laps \in Nat /\ short \in BOOLEAN
  BY BoundsAssumption DEF CopyInv, Inv, TypeOK
<1>3. ASSUME NEW t \in Thread, LoopHead(t) \/ Sleep(t) PROVE Copying'
  <2>1. Clean  BY <1>3 DEF Clean, LoopHead, Sleep, slots, past
  <2> QED  BY <1>3, <2>1, CopyThread
<1>4. CASE MainStarts
  <2>1. Clean /\ laps' = laps  BY <1>2, <1>4 DEF Clean, MainStarts
  <2>2. Go("main") /\ UNCHANGED <<ports, at, bufs, marks, call, sums, out_file, ok>>
    BY <1>4 DEF MainStarts
  <2> QED  BY <2>1, <2>2, CopyThread DEF Thread
<1>5. CASE WriterStarts
  <2>1. Clean  BY <1>5 DEF Clean, WriterStarts, slots, past
  <2> QED  BY <1>5, <2>1, CopyThread DEF WriterStarts, Thread, slots
<1>6. CASE ReaderStarts \/ ReaderFills \/ ReaderFails
  <2>1. (ReaderStarts \/ ReaderFills) /\ Clean
    BY <1>6 DEF Clean, ReaderStarts, ReaderFills, ReaderFails, past
  <2> QED  BY <2>1, CopyReader
<1>7. CASE MainSubmits \/ MainTransferHangs \/ MainTransfers \/ MainLooks
  <2>1. Clean /\ ~short'
    BY <1>2, <1>7 DEF Clean, MainSubmits, MainTransferHangs, MainTransfers, MainLooks, slots, past
  <2> QED  BY <1>7, <2>1, CopyMain
<1>8. CASE MainTransferFails \/ MainPosts
  <2>1. MainPosts /\ Clean
    BY <1>8 DEF Clean, MainTransferFails, MainPosts, past
  <2> QED  BY <2>1, CopyPosts
<1>9. CASE WriterWrites \/ WriterFails \/ WriterCounts \/ WriterFrees
  <2>1. WriterWrites \/ WriterCounts \/ WriterFrees
    BY <1>9 DEF Clean, WriterFails
  <2>2. UNCHANGED <<transfer_error, past>>
    BY <2>1 DEF WriterWrites, WriterCounts, WriterFrees
  <2>3. Clean  BY <2>2 DEF Clean, past
  <2> QED  BY <2>1, <2>3, CopyWriter
<1>10. CASE Prologue \/ JoinAll \/ Compare
  <2>1. UNCHANGED slots  BY <1>2, <1>10, PrologueKeeps, EndKeeps
  <2>2. Clean  BY <2>1 DEF Clean, slots, past
  <2> QED  BY <1>10, <2>2, CopyOutside
<1>11. CASE UNCHANGED vars
  <2>1. Clean /\ Copying /\ UNCHANGED <<at, bufs, marks, call, sums, out_file, ok, pc, file_size>>
    BY <1>11 DEF vars, CopyInv, Clean, slots, ports, past
  <2>2. AllIn'  BY <2>1 DEF Copying, AllIn, sums
  <2> QED  BY <2>1, <2>2, CopyWaits, PassingWaits
<1> QED  BY <1>3, <1>4, <1>5, <1>6, <1>7, <1>8, <1>9, <1>10, <1>11
         DEF Next, Reader, Main, Writer, Returned, Thread

-----------------------------------------------------------------------------
(* The threads, seen from outside.                                         *)

\* The steps of the three threads while they run.
Threads == \/ \E t \in Thread : LoopHead(t) \/ Sleep(t)
           \/ ReaderStarts \/ ReaderFills \/ ReaderFails
           \/ MainStarts \/ MainSubmits \/ MainTransferHangs \/ MainTransfers
           \/ MainTransferFails \/ MainLooks \/ MainPosts
           \/ WriterStarts \/ WriterWrites \/ WriterFails \/ WriterCounts \/ WriterFrees

Inside == {"head", "wait", "busy", "moving", "moved", "post", "last", "count"}

\* A step moves one thread inside its loop or out of it, and wakes others; the ports and
\* the result are main's alone.
LEMMA ThreadsRun ==
    ASSUME TypeOK, Threads
    PROVE  /\ UNCHANGED <<ports, ok>> /\ pc' \in [Thread -> Point]
           /\ \E t \in Thread :
                /\ pc[t] \in Inside /\ pc'[t] \in Inside \cup {"asleep", "polling", "exit"}
                /\ \A u \in Thread : u # t =>
                        pc'[u] = pc[u] \/ (pc[u] = "asleep" /\ pc'[u] = "wait")
<1>1. UNCHANGED <<ports, ok>>
  BY DEF Threads, LoopHead, Sleep, ReaderStarts, ReaderFills, ReaderFails, MainStarts,
         MainSubmits, MainTransferHangs, MainTransfers, MainTransferFails, MainLooks, MainPosts,
         WriterStarts, WriterWrites, WriterFails, WriterCounts, WriterFrees
<1>2. PICK t \in Thread, l \in Inside \cup {"asleep", "polling", "exit"}, s \in Slot :
          pc[t] \in Inside /\ (Goto(t, l) \/ NotifyAll(t, l, s))
  <2> USE DEF Inside
  <2>1. /\ {"reader", "main", "writer"} = Thread /\ 0 \in Slot
        /\ \A t \in Thread : at[t] \in Slot
    BY DEF TypeOK, Thread, Slot
  <2>2. CASE \E t \in Thread : LoopHead(t) \/ Sleep(t)
    BY <2>1, <2>2 DEF LoopHead, Sleep
  <2>3. CASE ReaderStarts \/ ReaderFills \/ ReaderFails
    BY <2>1, <2>3 DEF ReaderStarts, Go, ReaderFills, ReaderFails
  <2>4. CASE MainStarts \/ MainSubmits \/ MainTransferHangs \/ MainTransfers
    BY <2>1, <2>4 DEF MainStarts, Go, MainSubmits, MainTransferHangs, MainTransfers
  <2>5. CASE MainTransferFails \/ MainLooks \/ MainPosts
    BY <2>1, <2>5 DEF MainTransferFails, MainLooks, MainPosts
  <2>6. CASE WriterStarts \/ WriterWrites \/ WriterFails \/ WriterCounts \/ WriterFrees
    BY <2>1, <2>6 DEF WriterStarts, Go, WriterWrites, WriterFails, WriterCounts, WriterFrees
  <2> QED  BY <2>2, <2>3, <2>4, <2>5, <2>6 DEF Threads
<1>3. /\ pc' \in [Thread -> Point] /\ pc'[t] = l
      /\ \A u \in Thread : u # t => pc'[u] = pc[u] \/ (pc[u] = "asleep" /\ pc'[u] = "wait")
  <2>1. l \in Point  BY DEF Point, Inside
  <2> QED  BY <1>2, <2>1, Wakes DEF TypeOK
<1> QED  BY <1>1, <1>2, <1>3

\* What is claimed and created before the threads is given up after them.
Tidy ==
    /\ pc["main"] = "devices" => ~recv_path
    /\ pc["main"] \in {"devices", "refused", "compare", "returned"} => handles = {}
    /\ pc["main"] \in {"refused", "returned"} => ~recv_path

\* Ports and copy: claimed and created by main alone, and given up by main.
LEMMA TidyStep ==
    ASSUME Inv, Tidy, [Next]_vars
    PROVE  Tidy'
<1>1. pc \in [Thread -> Point] /\ TypeOK  BY DEF Inv, TypeOK
<1>2. CASE Threads
  <2>1. UNCHANGED ports  BY <1>1, <1>2, ThreadsRun
  <2>2. pc'["main"] \in {"devices", "refused", "compare", "returned"} => pc'["main"] = pc["main"]
    BY <1>1, <1>2, ThreadsRun DEF Inside, Thread
  <2> QED  BY <2>1, <2>2 DEF Tidy, ports
<1>3. CASE Prologue
  <2>1. CASE TwoDevices
    BY <1>1, <2>1, Moved DEF TwoDevices, Tidy, Thread
  <2>2. CASE TooFewDevices
    BY <1>1, <2>2, Moved DEF TooFewDevices, Tidy, Thread, ports
  <2>3. CASE HeaderFails
    BY <1>1, <2>3, Moved DEF HeaderFails, Close, Tidy, Thread
  <2>4. CASE HeaderCrosses
    BY <2>4 DEF HeaderCrosses, Tidy, Thread
  <2>5. ASSUME NEW p \in Port, PortOpens(p) \/ PortBusy(p) \/ PortFails(p) PROVE Tidy'
    <3>1. pc'["main"] \in {"send_port", "recv_port", "header"}
      <4>1. CASE PortBusy(p)  BY <4>1 DEF PortBusy, Port
      <4>2. CASE Opened
        <5>1. PICK l \in {"recv_port", "header"} : Goto("main", l)  BY <4>2 DEF Opened
        <5> QED  BY <1>1, <5>1, Moved DEF Thread
      <4> QED  BY <2>5, <4>1, <4>2 DEF PortOpens, PortFails
    <3> QED  BY <3>1 DEF Tidy
  <2> QED  BY <1>3, <2>1, <2>2, <2>3, <2>4, <2>5 DEF Prologue, OpenPort
<1>4. CASE JoinAll
  BY <1>1, <1>4, Moved DEF JoinAll, Close, Tidy, Thread
<1>5. CASE Compare
  BY <1>1, <1>5, Moved DEF Compare, Tidy, Thread
<1>6. CASE UNCHANGED vars
  BY <1>6 DEF vars, ports, Tidy
<1> QED  BY <1>2, <1>3, <1>4, <1>5, <1>6
         DEF Next, Reader, Main, Writer, Returned, Threads, Thread

\* What usb-loopback-test relies on: over cables that deliver every chunk whole the
\* engine never returns anything but success with an equal copy, for a file of any size,
\* unless main lapped the writer; and whatever happened, it returns with both interfaces
\* released and the copy removed.
THEOREM CrossConnectHealthy == Spec => []HealthyLinkPasses
<1>1. Init => Tidy
  BY DEF Init, Tidy, Thread
<1>2. CopyInv /\ Tidy => HealthyLinkPasses
  <2> SUFFICES ASSUME CopyInv, Tidy PROVE HealthyLinkPasses  OBVIOUS
  <2>1. ASSUME pc["main"] = "returned", Clean PROVE ok /\ files_equal
    BY <2>1 DEF CopyInv, Copying, Written, AllIn, files_equal
  <2> QED  BY <2>1 DEF Tidy, HealthyLinkPasses, Ended, Clean
<1>3. CopyInv => Inv
  BY DEF CopyInv
<1> QED  BY CopyInit, CopyStep, TidyStep, <1>1, <1>2, <1>3, PTL DEF Spec

-----------------------------------------------------------------------------
(* The loopback is a FileTransfer.                                         *)

\* Before the header has crossed there is only main; reader and writer are gone when
\* the copy is compared, and a success counted every unit.  main holds received units
\* only between a transfer and its count.
Before == Setup \cup {"refused"}
Alone == /\ pc["main"] \in Before => pc["reader"] = "unborn" /\ pc["writer"] = "unborn" /\ ~ok
         /\ pc["main"] \in {"compare", "returned"} => pc["reader"] = "exit" /\ pc["writer"] = "exit"
Counted == pc["main"] = "compare" /\ ok => total_bytes_done = file_size
Pending == pc["main"] \notin {"moved", "post", "last"} => rx_actual = 0
CallInv == Inv /\ Alone /\ Counted /\ Pending

LEMMA CallInit == Init => CallInv
<1> SUFFICES ASSUME Init PROVE CallInv  OBVIOUS
<1>1. pc["main"] = "devices" /\ pc["reader"] = "unborn" /\ pc["writer"] = "unborn"
  BY DEF Init, Thread
<1> QED  BY <1>1, InvInit DEF Init, CallInv, Alone, Counted, Pending

\* A step before the threads start, or after they have ended.
LEMMA CallOutside ==
    ASSUME CallInv, Prologue \/ JoinAll \/ Compare
    PROVE  CallInv' /\ UNCHANGED slots /\ UNCHANGED file_size
<1> USE DEF Point, Port, Setup, Before, Thread
<1>1. /\ pc \in [Thread -> Point] /\ UNCHANGED slots /\ UNCHANGED file_size /\ Inv'
      /\ \A l : Goto("main", l) =>
                  pc' = [t \in Thread |-> IF t = "main" THEN l ELSE pc[t]]
  <2>1. UNCHANGED slots /\ Inv'  BY PrologueKeeps, EndKeeps DEF CallInv
  <2>2. UNCHANGED file_size
    BY DEF Prologue, TwoDevices, TooFewDevices, OpenPort, PortOpens, PortBusy, PortFails,
           Opened, HeaderCrosses, HeaderFails, JoinAll, Compare, Close, ports
  <2> QED  BY <2>1, <2>2 DEF CallInv, Inv, TypeOK, Goto
<1>2. pc'["main"] \notin {"moved", "post", "last"} /\ pc["main"] \notin {"moved", "post", "last"}
  BY <1>1 DEF Prologue, TwoDevices, TooFewDevices, OpenPort, PortOpens, PortBusy, PortFails,
         Opened, HeaderCrosses, HeaderFails, JoinAll, AllJoined, Compare
<1>3. Pending'  BY <1>1, <1>2 DEF CallInv, Pending, slots, call
<1>4. CASE TwoDevices \/ TooFewDevices \/ HeaderFails
  BY <1>1, <1>3, <1>4 DEF CallInv, Alone, Counted, TwoDevices, TooFewDevices, HeaderFails
<1>5. CASE OpenPort
  BY <1>1, <1>3, <1>5 DEF CallInv, Alone, Counted, OpenPort, PortOpens, PortBusy, PortFails, Opened
<1>6. CASE HeaderCrosses
  BY <1>1, <1>3, <1>6 DEF CallInv, Alone, Counted, HeaderCrosses
<1>7. CASE JoinAll
  <2>1. pc' = [t \in Thread |-> IF t = "main" THEN "compare" ELSE pc[t]]
        /\ pc["reader"] = "exit" /\ pc["writer"] = "exit"
    BY <1>1, <1>7 DEF JoinAll, AllJoined
  <2>2. ok' => total_bytes_done' = file_size'
    BY <1>1, <1>7 DEF JoinAll, Succeeded, slots, sums
  <2> QED  BY <1>1, <1>3, <2>1, <2>2 DEF CallInv, Alone, Counted
<1>8. CASE Compare
  BY <1>1, <1>3, <1>8 DEF CallInv, Alone, Counted, Compare
<1> QED  BY <1>1, <1>4, <1>5, <1>6, <1>7, <1>8 DEF Prologue

\* A step of a thread that runs: all three do, and go on running.
LEMMA CallRunning ==
    ASSUME CallInv, Threads
    PROVE  Alone' /\ Counted' /\ ~Ended /\ ~Ended'
<1>1. PICK t \in Thread :
        /\ pc[t] \in Inside /\ pc'[t] \in Inside \cup {"asleep", "polling", "exit"}
        /\ \A u \in Thread : u # t => pc'[u] = pc[u] \/ (pc[u] = "asleep" /\ pc'[u] = "wait")
  BY ThreadsRun DEF CallInv, Inv
<1>2. Thread = {"main", "reader", "writer"}  BY DEF Thread
<1>3. pc["main"] \notin Before \cup {"compare", "returned"}
  BY <1>1, <1>2 DEF CallInv, Alone, Before, Setup, Port, Inside
<1>4. pc'["main"] \notin Before \cup {"compare", "returned"}
  BY <1>1, <1>2, <1>3 DEF Before, Setup, Port, Inside
<1> QED  BY <1>3, <1>4 DEF Alone, Counted, Ended, Before

\* What a step of a running thread means to the caller: data moves, or is counted.
LEMMA ThreadsImplement ==
    ASSUME CallInv, Threads
    PROVE  CallInv' /\ [Transfer!Next]_Transfer!vars
<1>1. /\ Alone' /\ Counted' /\ ~Ended /\ ~Ended' /\ file_size' = file_size
      /\ pc' \in [Thread -> Point]
  BY CallRunning, ThreadsRun DEF CallInv, Inv, ports
<1>2. Inv'
  BY NextKeeps DEF CallInv, Next, Reader, Main, Writer, Threads, Thread
<1>3. /\ total_bytes_done \in Nat /\ rx_actual \in Nat /\ out_file \in Seq(Nat)
      /\ len \in Nat /\ pc \in [Thread -> Point] /\ "main" \in Thread /\ "reader" \in Thread
      /\ "writer" \in Thread /\ Pending
  <2>1. len \in Nat /\ rx_actual \in 0..len
    BY SizesAssumption DEF CallInv, Inv, TypeOK
  <2> QED  BY <2>1 DEF CallInv, Inv, TypeOK, Thread
<1>4. CASE MainTransfers
  <2>1. /\ total_bytes_done' = total_bytes_done /\ out_file' = out_file
        /\ rx_actual' \in Nat /\ rx_actual = 0 /\ pc'["main"] = "moved"
    BY <1>3, <1>4, Moved DEF MainTransfers, sums, Received, Pending
  <2>2. Transfer!IsPrefix(out_file, out_file')  BY <1>3, <2>1 DEF Transfer!IsPrefix
  <2>3. total_bytes_done' + rx_actual' >= total_bytes_done + rx_actual
    <3>1. \A n, m \in Nat : n + m >= n + 0  OBVIOUS
    <3> QED  BY <1>3, <2>1, <3>1
  <2>4. Transfer!Move
    BY <1>1, <2>1, <2>2, <2>3 DEF Transfer!Move, Transfer!Running
  <2>5. Pending'  BY <2>1 DEF Pending
  <2> QED  BY <1>1, <1>2, <2>4, <2>5 DEF Transfer!Next, CallInv
<1>5. CASE MainPosts
  <2>1. /\ total_bytes_done' = total_bytes_done + rx_actual /\ out_file' = out_file
        /\ rx_actual' = 0
    BY <1>5 DEF MainPosts
  <2>2. Pending'  BY <2>1 DEF Pending
  <2>3. CASE rx_actual = 0
    BY <1>1, <1>2, <1>3, <2>1, <2>2, <2>3 DEF Transfer!vars, CallInv
  <2>4. CASE rx_actual # 0
    <3>1. Transfer!Count
      BY <1>1, <1>3, <2>1, <2>4 DEF Transfer!Count, Transfer!Running
    <3> QED  BY <1>1, <1>2, <2>2, <3>1 DEF Transfer!Next, CallInv
  <2> QED  BY <2>3, <2>4
<1>6. CASE ~MainTransfers /\ ~MainPosts
  <2>1. total_bytes_done' = total_bytes_done
    BY <1>6 DEF Threads, LoopHead, Sleep, ReaderStarts, ReaderFills, ReaderFails, MainStarts,
       MainSubmits, MainTransferHangs, MainTransferFails, MainLooks, WriterStarts, WriterWrites,
       WriterFails, WriterCounts, WriterFrees, slots, sums
  <2>2. rx_actual' = rx_actual /\ Pending'
    <3>1. CASE MainSubmits
      BY <1>3, <3>1, Moved DEF MainSubmits, Pending
    <3>2. CASE MainLooks
      BY <1>3, <3>2, Moved DEF MainLooks, Pending, slots, call
    <3>3. CASE MainTransferFails
      BY <1>3, <3>3 DEF MainTransferFails, Pending, call
    <3>4. CASE MainStarts \/ MainTransferHangs
      BY <1>3, <3>4, Moved DEF MainStarts, Go, MainTransferHangs, Pending, slots, call
    <3>5. CASE ~MainSubmits /\ ~MainLooks /\ ~MainTransferFails /\ ~MainStarts /\ ~MainTransferHangs
      <4>1. rx_actual' = rx_actual
        BY <1>6, <3>5 DEF Threads, LoopHead, Sleep, ReaderStarts, ReaderFills, ReaderFails,
           WriterStarts, WriterWrites, WriterFails, WriterCounts, WriterFrees, slots, call
      <4>2. pc["main"] \in {"moved", "post", "last"} => pc'["main"] = pc["main"]
        <5>1. CASE \E t \in Thread : LoopHead(t) \/ Sleep(t)
          BY <1>3, <5>1, Moved DEF LoopHead, Sleep
        <5>2. CASE ReaderStarts \/ ReaderFills \/ ReaderFails
          BY <1>3, <5>2 DEF ReaderStarts, Go, ReaderFills, ReaderFails, Goto, NotifyAll
        <5>3. CASE WriterStarts \/ WriterWrites \/ WriterFails \/ WriterCounts \/ WriterFrees
          BY <1>3, <5>3 DEF WriterStarts, Go, WriterWrites, WriterFails, WriterCounts,
             WriterFrees, Goto, NotifyAll
        <5> QED  BY <1>6, <3>5, <5>1, <5>2, <5>3 DEF Threads
      <4> QED  BY <1>3, <4>1, <4>2 DEF Pending
    <3> QED  BY <3>1, <3>2, <3>3, <3>4, <3>5
  <2>3. CASE WriterWrites
    <3>1. PICK new \in Seq(Nat) : out_file' = out_file \o new
      <4> DEFINE s == at["writer"]
      <4>1. s \in Slot /\ TypeOK  BY <1>3 DEF CallInv, Inv, TypeOK
      <4>2. rx_bytes[s] \in Nat /\ rx_bytes[s] <= Chunk /\ rx_buf[s] \in [1..Chunk -> Nat]
        BY <4>1, SizesAssumption DEF TypeOK
      <4>3. \A i \in 1..rx_bytes[s] : rx_buf[s][i] \in Nat  BY <4>2, SizesAssumption
      <4>4. [i \in 1..rx_bytes[s] |-> rx_buf[s][i]] \in Seq(Nat)  BY <4>2, <4>3, IsASeq
      <4> QED  BY <2>3, <4>4 DEF WriterWrites
    <3>2. Transfer!IsPrefix(out_file, out_file')
      BY <1>3, <3>1, ConcatProperties DEF Transfer!IsPrefix
    <3>3. Transfer!Move
      BY <1>1, <1>3, <2>1, <2>2, <3>2 DEF Transfer!Move, Transfer!Running
    <3> QED  BY <1>1, <1>2, <2>2, <3>3 DEF Transfer!Next, CallInv
  <2>4. CASE ~WriterWrites
    <3>1. out_file' = out_file
      BY <1>6, <2>4 DEF Threads, LoopHead, Sleep, ReaderStarts, ReaderFills, ReaderFails,
         MainStarts, MainSubmits, MainTransferHangs, MainTransferFails, MainLooks, WriterStarts,
         WriterFails, WriterCounts, WriterFrees, slots
    <3> QED  BY <1>1, <1>2, <2>1, <2>2, <3>1 DEF Transfer!vars, CallInv
  <2> QED  BY <2>3, <2>4
<1> QED  BY <1>4, <1>5, <1>6

\* What main does on its own: the call runs until it is refused, or its result stands
\* after the comparison.
LEMMA OutsideImplements ==
    ASSUME CallInv, Prologue \/ JoinAll \/ Compare
    PROVE  [Transfer!Next]_Transfer!vars
<1> USE DEF Setup, Port, Before
<1>1. /\ UNCHANGED <<total_bytes_done, out_file, rx_actual, file_size>> /\ ~Ended
      /\ pc["main"] \notin {"moved", "post", "last"}
      /\ pc \in [Thread -> Point]
  <2>1. UNCHANGED slots /\ UNCHANGED file_size  BY CallOutside
  <2>2. ~Ended /\ pc["main"] \notin {"moved", "post", "last"}
    BY DEF CallInv, Prologue, TwoDevices, TooFewDevices, OpenPort, PortOpens,
         PortBusy, PortFails, Opened, HeaderCrosses, HeaderFails, JoinAll, AllJoined, Compare,
         Ended, Thread
  <2> QED  BY <2>1, <2>2 DEF slots, sums, call, CallInv, Inv, TypeOK
<1>2. CASE ~Ended'
  BY <1>1, <1>2 DEF Transfer!vars
<1>3. CASE Compare /\ ok /\ files_equal
  <2>1. total_bytes_done = file_size /\ out_file = Transfer!File(file_size) /\ ok'
    BY <1>3 DEF Compare, CallInv, Counted, files_equal, Transfer!File
  <2>2. Ended'  BY <1>1, <1>3 DEF Compare, Goto, Thread, Ended
  <2>3. Transfer!Succeed
    BY <1>1, <2>1, <2>2 DEF Transfer!Succeed, Transfer!Running
  <2> QED  BY <2>3 DEF Transfer!Next
<1>4. CASE ~ok' /\ Ended'
  <2>1. Transfer!Fail
    BY <1>1, <1>4 DEF Transfer!Fail, Transfer!Running
  <2> QED  BY <2>1 DEF Transfer!Next
<1>5. CASE (Prologue \/ JoinAll) /\ Ended'
  <2>1. ~ok' /\ Ended'
    BY <1>1, <1>5 DEF CallInv, Alone, Prologue, TwoDevices, TooFewDevices, OpenPort, PortOpens,
         PortBusy, PortFails, Opened, HeaderCrosses, HeaderFails, JoinAll, Goto, Ended, Thread
  <2> QED  BY <2>1, <1>4
<1> QED  BY <1>2, <1>3, <1>4, <1>5 DEF Compare

LEMMA CallStep == CallInv /\ [Next]_vars => CallInv' /\ [Transfer!Next]_Transfer!vars
<1> SUFFICES ASSUME CallInv, [Next]_vars PROVE CallInv' /\ [Transfer!Next]_Transfer!vars
  OBVIOUS
<1>1. CASE Threads  BY <1>1, ThreadsImplement
<1>2. CASE Prologue \/ JoinAll \/ Compare  BY <1>2, CallOutside, OutsideImplements
<1>3. CASE UNCHANGED vars \/ Returned
  <2>1. Inv'  BY NextKeeps DEF CallInv
  <2>2. UNCHANGED vars  BY <1>3 DEF Returned
  <2> QED  BY <2>1, <2>2 DEF vars, ports, slots, call, sums, CallInv, Alone, Counted, Pending,
           Transfer!vars, Ended
<1> QED  BY <1>1, <1>2, <1>3 DEF Next, Reader, Main, Writer, Threads, Thread

\* loopback_transfer_core is a FileTransfer for a file of any size and whatever fails,
\* whether or not the disk keeps up and however short a transfer is: a success has each
\* unit of the file in the copy once and in order, and nothing moves after the result.
THEOREM LoopbackImplementsTransfer == Spec => ImplementsTransfer
<1>1. Init => Transfer!Init
  <2> SUFFICES ASSUME Init PROVE Transfer!Init  OBVIOUS
  <2>1. pc["main"] = "devices"  BY DEF Init, Thread
  <2> QED  BY <2>1 DEF Init, Transfer!Init, Ended
<1> QED
  BY CallInit, CallStep, <1>1, PTL DEF Spec, ImplementsTransfer, Transfer!Spec
=============================================================================
