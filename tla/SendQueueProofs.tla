--------------------------- MODULE SendQueueProofs ---------------------------
(***************************************************************************)
(* Proofs about send_file_core (SendQueue), for every queue depth, window, *)
(* chunk size and file: the queue's types and books, and that it is a      *)
(* FileTransfer.  The units an entry holds form a span of the file that no *)
(* other entry holds; progress and wire are related by counting spans.     *)
(***************************************************************************)
EXTENDS SendQueue, SequenceTheorems, FiniteSetTheorems, TLAPS

Span(b) == b[1] .. b[1] + Len(b) - 1
Size(d, S) == Cardinality(UNION {Span(d[q]) : q \in S})

Held(q) == in_flight[q] \/ completed[q]
InFlight == {q \in Entry : in_flight[q]}
Good == {q \in Entry : completed[q] /\ status[q]}

\* An entry libusb has, or has given back, holds units of the file; no two the same.
IsBlock(b) == /\ b \in Seq(Nat) /\ Len(b) \in 1..Chunk
              /\ b[1] \in 1..bytes_read /\ b[1] + Len(b) - 1 <= bytes_read
              /\ b = Units(b[1] - 1, Len(b))
Blocks == /\ data \in [Entry -> Seq(Nat)]
          /\ \A q \in Entry : Held(q) => IsBlock(data[q])
          /\ \A p, q \in Entry : p # q /\ Held(p) /\ Held(q) =>
                Span(data[p]) \cap Span(data[q]) = {}

\* order is a queue of the entries in flight.
Queued == /\ \A i, j \in 1..Len(order) : order[i] = order[j] => i = j
          /\ \A q \in Entry : in_flight[q] <=> \E i \in 1..Len(order) : order[i] = q
          /\ \A q \in Entry : ~(in_flight[q] /\ completed[q])

\* What is on the wire or credited was read, and what is credited was on the wire.
Carried == Len(wire) + Size(data, InFlight) <= bytes_read
Credited == bytes_sent + Size(data, Good) <= Len(wire)

\* As long as nothing failed the wire holds a prefix of the file, the queue goes on
\* where the wire ends, and the reader where the queue ends.
NoFailure == ~error /\ \A q \in Entry : completed[q] => status[q]
Last(b) == b[1] + Len(b) - 1
Before(n, d, o, i) == IF i = 1 THEN n ELSE Last(d[o[i - 1]])
Follows(n, d, o, r) == /\ \A i \in 1..Len(o) : d[o[i]][1] = Before(n, d, o, i) + 1
                       /\ r = Before(n, d, o, Len(o) + 1)
InOrder == NoFailure => /\ wire = Units(0, Len(wire))
                        /\ Follows(Len(wire), data, order, bytes_read)

\* What the control point says of the entry at hand.
Phase == /\ pc = "header" => bytes_read = 0 /\ active = 0 /\ \A q \in Entry : ~Held(q)
         /\ pc = "prime" => /\ scan <= MaxInflight /\ active <= scan
                            /\ \A q \in Entry : q >= scan => ~Held(q)
         /\ pc = "refill" => scan < Depth /\ ~Held(scan) /\ active < MaxInflight
         /\ pc = "drain" => error
         /\ pc = "free" => error \/ active = 0
         /\ pc # "done" => ~ok

Inv == TypeOK /\ ActiveIsExact /\ Blocks /\ Queued /\ Carried /\ Credited /\ InOrder /\ Phase

-----------------------------------------------------------------------------
(* Spans and their sizes.                                                  *)

\* n units of the file from a on, as a sequence and as a span.
LEMMA UnitsOfFile ==
    ASSUME NEW a \in Nat, NEW n \in Nat
    PROVE  /\ Units(a, n) \in Seq(Nat) /\ Len(Units(a, n)) = n
           /\ \A i \in 1..n : Units(a, n)[i] = a + i
           /\ \A m \in Nat : a + n <= m => Units(a, n) \in Seq(1..m)
<1>1. Units(a, n) \in [1..n -> Nat]  BY DEF Units
<1>2. Units(a, n) \in Seq(Nat) /\ Len(Units(a, n)) = n  BY <1>1
<1>3. \A i \in 1..n : Units(a, n)[i] = a + i  BY DEF Units
<1>4. ASSUME NEW m \in Nat, a + n <= m PROVE Units(a, n) \in Seq(1..m)
  <2>1. Units(a, n) \in [1..n -> 1..m]  BY <1>4 DEF Units
  <2> QED  BY <2>1
<1> QED  BY <1>2, <1>3, <1>4

\* The last unit of a block that starts behind n.
LEMMA LastUnit ==
    ASSUME NEW b, NEW n \in Nat, Len(b) \in Nat, b[1] = n + 1
    PROVE  Last(b) = n + Len(b)
<1>1. ASSUME NEW x, NEW y \in Nat, x = n + 1 PROVE x + y - 1 = n + y  BY <1>1
<1> QED  BY <1>1 DEF Last

\* Two runs of units that meet make one.
LEMMA UnitsJoin ==
    ASSUME NEW a \in Nat, NEW b \in Nat
    PROVE  Units(0, a) \o Units(a, b) = Units(0, a + b)
<1> DEFINE s == Units(0, a)
           t == Units(a, b)
           u == Units(0, a + b)
<1>1. s \in Seq(Nat) /\ Len(s) = a /\ \A i \in 1..a : s[i] = 0 + i  BY UnitsOfFile
<1>2. t \in Seq(Nat) /\ Len(t) = b /\ \A i \in 1..b : t[i] = a + i  BY UnitsOfFile
<1>3. u \in Seq(Nat) /\ Len(u) = a + b /\ \A i \in 1 .. a + b : u[i] = 0 + i  BY UnitsOfFile
<1> HIDE DEF s, t, u
<1>4. s \o t \in Seq(Nat) /\ Len(s \o t) = a + b
      /\ \A i \in 1 .. a + b : (s \o t)[i] = IF i <= a THEN s[i] ELSE t[i - a]
  BY <1>1, <1>2, ConcatProperties
<1>5. \A i \in 1 .. a + b : (s \o t)[i] = u[i]
  BY <1>1, <1>2, <1>3, <1>4
<1>6. s \o t = u  BY <1>3, <1>4, <1>5, SeqEqual
<1> QED  BY <1>6 DEF s, t, u

\* A set of spans below m is finite, and one more span adds its length.
LEMMA SizeAdds ==
    ASSUME NEW d, NEW S, NEW q, NEW m \in Nat, q \notin S,
           \A p \in S \cup {q} : Span(d[p]) \subseteq 1..m,
           \A p \in S : Span(d[p]) \cap Span(d[q]) = {},
           Len(d[q]) \in Nat, d[q][1] \in Nat
    PROVE  /\ Size(d, S) \in Nat
           /\ Size(d, S \cup {q}) = Size(d, S) + Len(d[q])
<1> DEFINE U == UNION {Span(d[p]) : p \in S}
           V == Span(d[q])
<1>1. IsFiniteSet(1..m)  BY FS_Interval
<1>2. U \in SUBSET (1..m) /\ V \in SUBSET (1..m)  OBVIOUS
<1>3. IsFiniteSet(U) /\ IsFiniteSet(V)  BY <1>1, <1>2, FS_Subset
<1>4. UNION {Span(d[p]) : p \in S \cup {q}} = U \cup V  OBVIOUS
<1>5. U \cap V = {}  OBVIOUS
<1>6. Cardinality(V) = Len(d[q])
  <2>1. V = d[q][1] .. d[q][1] + Len(d[q]) - 1  BY DEF Span
  <2>2. ASSUME NEW a \in Nat, NEW n \in Nat PROVE Cardinality(a .. a + n - 1) = n
    <3>1. Cardinality(a .. a + n - 1) = IF a > a + n - 1 THEN 0 ELSE a + n - 1 - a + 1
      BY FS_Interval
    <3> QED  BY <3>1
  <2> QED  BY <2>1, <2>2
<1>7. Cardinality(U) \in Nat /\ Cardinality({}) = 0  BY <1>3, FS_CardinalityType, FS_EmptySet
<1>8. Cardinality(U \cup V) = Cardinality(U) + Cardinality(V) - Cardinality(U \cap V)
  BY <1>3, FS_Union
<1>9. Size(d, S) = Cardinality(U) /\ Size(d, S \cup {q}) = Cardinality(U \cup V)
  BY <1>4 DEF Size
<1> HIDE DEF U, V
<1>10. Cardinality(U \cap V) = 0  BY <1>5, <1>7
<1>11. Cardinality(U \cup V) = Cardinality(U) + Len(d[q])  BY <1>6, <1>7, <1>8, <1>10
<1> QED  BY <1>7, <1>9, <1>11

\* Only the spans of the set matter.
LEMMA SizeOfSame ==
    ASSUME NEW d, NEW e, NEW S, \A p \in S : d[p] = e[p]
    PROVE  Size(d, S) = Size(e, S)
<1>1. {Span(d[p]) : p \in S} = {Span(e[p]) : p \in S}  OBVIOUS
<1> QED  BY <1>1 DEF Size

\* Nothing held amounts to nothing.
LEMMA SizeOfNone == ASSUME NEW d PROVE Size(d, {}) = 0
<1>1. UNION {Span(d[p]) : p \in {}} = {}  OBVIOUS
<1> QED  BY <1>1, FS_EmptySet DEF Size

\* What the queue's spans are to these.
LEMMA BlockSpan ==
    ASSUME TypeOK, Blocks, NEW q \in Entry, Held(q)
    PROVE  /\ Span(data[q]) \subseteq 1..bytes_read
           /\ Len(data[q]) \in 1..Chunk /\ data[q][1] \in Nat
           /\ bytes_read \in Nat
  BY SendAssumption DEF TypeOK, Blocks, IsBlock, Span

\* Any set of entries is finite.
LEMMA EntriesFinite == ASSUME NEW S \in SUBSET Entry PROVE IsFiniteSet(S) /\ Cardinality(S) \in Nat
<1>1. IsFiniteSet(Entry)  BY SendAssumption, FS_Interval DEF Entry
<1> QED  BY <1>1, FS_Subset, FS_CardinalityType

-----------------------------------------------------------------------------
(* The count of the entries held, as one is taken or given up.             *)

HeldSet == {q \in Entry : Held(q)}

\* The active counter as an entry is taken.
LEMMA OneMoreHeld ==
    ASSUME ActiveIsExact, NEW q \in Entry, ~Held(q),
           HeldSet' = HeldSet \cup {q}, active' = active + 1
    PROVE  ActiveIsExact'
<1>1. HeldSet \subseteq Entry /\ q \notin HeldSet  BY DEF HeldSet
<1>2. IsFiniteSet(HeldSet) /\ active = Cardinality(HeldSet)
  BY <1>1, EntriesFinite DEF ActiveIsExact, HeldSet, Held
<1>3. Cardinality(HeldSet \cup {q}) = Cardinality(HeldSet) + 1  BY <1>1, <1>2, FS_AddElement
<1>4. active' = Cardinality(HeldSet')  BY <1>2, <1>3
<1> QED  BY <1>4 DEF ActiveIsExact, HeldSet, Held

\* The active counter as an entry is given up; it was not zero.
LEMMA OneLessHeld ==
    ASSUME ActiveIsExact, NEW q \in Entry, Held(q), active \in Nat,
           HeldSet' = HeldSet \ {q}, active' = active - 1
    PROVE  ActiveIsExact' /\ active > 0
<1>1. HeldSet \subseteq Entry /\ q \in HeldSet  BY DEF HeldSet
<1>2. IsFiniteSet(HeldSet) /\ active = Cardinality(HeldSet)
  BY <1>1, EntriesFinite DEF ActiveIsExact, HeldSet, Held
<1>3. Cardinality(HeldSet \ {q}) = Cardinality(HeldSet) - 1  BY <1>1, <1>2, FS_RemoveElement
<1>4. active' = Cardinality(HeldSet')  BY <1>2, <1>3
<1>5. Cardinality(HeldSet \ {q}) \in Nat  BY <1>1, EntriesFinite
<1>6. active > 0  BY <1>2, <1>3, <1>5
<1> QED  BY <1>4, <1>6 DEF ActiveIsExact, HeldSet, Held

\* A step that leaves the queue alone keeps its books.
LEMMA BooksKept ==
    ASSUME Inv, UNCHANGED <<xfrs, order, bytes_read, bytes_sent, active, wire>>,
           error' \in {error, TRUE}
    PROVE  ActiveIsExact' /\ Blocks' /\ Queued' /\ Carried' /\ Credited' /\ InOrder'
<1> USE DEF Inv, xfrs
<1>1. ActiveIsExact'  BY DEF ActiveIsExact
<1>2. Blocks'  BY DEF Blocks, IsBlock, Held
<1>3. Queued'  BY DEF Queued
<1>4. Carried' /\ Credited'  BY DEF Carried, Credited, InFlight, Good
<1>5. InOrder'
  <2>1. NoFailure' => NoFailure  BY DEF NoFailure
  <2> QED  BY <2>1 DEF InOrder
<1> QED  BY <1>1, <1>2, <1>3, <1>4, <1>5

-----------------------------------------------------------------------------
(* submit_next: what it needs of its entry is that nobody holds it.        *)

\* What a call of submit_next keeps, and does to the entry and the counter.
Submitted(q) ==
    /\ TypeOK' /\ ActiveIsExact' /\ Blocks' /\ Queued' /\ Carried' /\ Credited' /\ InOrder'
    /\ \A p \in Entry : p # q => (Held(p)' <=> Held(p))
    /\ active' <= active + 1

\* The parts of a submitted transfer that are about one entry.
LEMMA ReadBlock ==
    ASSUME TypeOK, Blocks, NEW q \in Entry, NEW n \in 1..Chunk, ReadAndSubmit(q, n)
    PROVE  /\ n \in Nat \ {0} /\ bytes_read \in Nat /\ file_size \in Nat
           /\ bytes_read' = bytes_read + n /\ bytes_read' <= file_size
           /\ data'[q] = Units(bytes_read, n) /\ Len(data'[q]) = n
           /\ data'[q] \in Seq(Nat) /\ data'[q] \in Seq(1..file_size)
           /\ data'[q][1] = bytes_read + 1
           /\ \A p \in Entry : p # q => data'[p] = data[p]
           /\ data' \in [Entry -> Seq(Nat)]
           /\ Span(data'[q]) = bytes_read + 1 .. bytes_read + n
<1>1. /\ n \in Nat \ {0} /\ bytes_read \in Nat /\ file_size \in Nat /\ bytes_read' = bytes_read + n
  BY SendAssumption DEF TypeOK, ReadAndSubmit
<1>2. bytes_read + n <= file_size  BY <1>1, SendAssumption DEF TypeOK, ReadAndSubmit, Least
<1>3. data' = [data EXCEPT ![q] = Units(bytes_read, n)] /\ data \in [Entry -> Seq(Nat)]
  BY DEF ReadAndSubmit, Blocks
<1>4. data'[q] = Units(bytes_read, n) /\ \A p \in Entry : p # q => data'[p] = data[p]
  BY <1>3
<1>5. /\ Len(data'[q]) = n /\ data'[q] \in Seq(Nat) /\ data'[q] \in Seq(1..file_size)
      /\ data'[q][1] = bytes_read + 1
  <2> DEFINE b == Units(bytes_read, n)
  <2>1. /\ b \in Seq(Nat) /\ Len(b) = n /\ \A i \in 1..n : b[i] = bytes_read + i
        /\ \A m \in Nat : bytes_read + n <= m => b \in Seq(1..m)
    BY <1>1, UnitsOfFile
  <2>2. b \in Seq(1..file_size) /\ b[1] = bytes_read + 1
    <3> HIDE DEF b
    <3> QED  BY <1>1, <1>2, <2>1
  <2> QED  BY <1>4, <2>1, <2>2
<1>7. data' \in [Entry -> Seq(Nat)]  BY <1>3, <1>4, <1>5
<1>8. Span(data'[q]) = bytes_read + 1 .. bytes_read + n
  <2>1. bytes_read + 1 + n - 1 = bytes_read + n  BY <1>1
  <2> QED  BY <1>5, <2>1 DEF Span
<1> QED  BY <1>1, <1>2, <1>4, <1>5, <1>7, <1>8

\* A chunk is read and submitted.
LEMMA ReadSubmits ==
    ASSUME Inv, NEW q \in Entry, ~Held(q), active < MaxInflight,
           UNCHANGED <<file_size, bytes_sent, wire, ok>>,
           pc' \in {"prime", "scan"}, scan' \in 0..Depth,
           NEW n \in 1..Chunk, ReadAndSubmit(q, n)
    PROVE  Submitted(q)
<1>1. TypeOK /\ ActiveIsExact /\ Blocks /\ Queued /\ Carried /\ Credited /\ InOrder /\ Phase
  BY DEF Inv
<1>2. /\ n \in Nat \ {0} /\ bytes_read \in Nat /\ file_size \in Nat
      /\ bytes_read' = bytes_read + n /\ bytes_read' <= file_size
      /\ data'[q] = Units(bytes_read, n) /\ Len(data'[q]) = n
      /\ data'[q] \in Seq(Nat) /\ data'[q] \in Seq(1..file_size)
      /\ data'[q][1] = bytes_read + 1
      /\ \A p \in Entry : p # q => data'[p] = data[p]
      /\ data' \in [Entry -> Seq(Nat)]
      /\ Span(data'[q]) = bytes_read + 1 .. bytes_read + n
  BY <1>1, ReadBlock
<1>3. /\ in_flight' \in [Entry -> BOOLEAN] /\ completed' \in [Entry -> BOOLEAN]
      /\ in_flight'[q] /\ ~completed'[q]
      /\ \A p \in Entry : p # q => in_flight'[p] = in_flight[p] /\ completed'[p] = completed[p]
      /\ status' = status /\ error' = error /\ order' = Append(order, q) /\ active' = active + 1
      /\ bytes_sent' = bytes_sent /\ wire' = wire
  BY <1>1 DEF TypeOK, ReadAndSubmit
<1>4. ~in_flight[q] /\ ~completed[q]  BY DEF Held
<1>5. \A p \in Entry : p # q => (Held(p)' <=> Held(p))  BY <1>3 DEF Held
<1>6. HeldSet' = HeldSet \cup {q}  BY <1>3 DEF HeldSet, Held
<1>7. ActiveIsExact'  BY <1>1, <1>3, <1>6, OneMoreHeld
<1>8. TypeOK'
  <2>1. \A p \in Entry : data'[p] \in Seq(1..file_size') /\ Len(data'[p]) <= Chunk
    <3>1. file_size' = file_size  OBVIOUS
    <3>2. data'[q] \in Seq(1..file_size') /\ Len(data'[q]) <= Chunk  BY <1>2, <3>1, SendAssumption
    <3>3. \A p \in Entry : p # q =>
              data'[p] \in Seq(1..file_size') /\ Len(data'[p]) <= Chunk
      BY <1>1, <1>2, <3>1 DEF TypeOK
    <3> QED  BY <3>2, <3>3
  <2>2. order' \in Seq(Entry)  BY <1>1, <1>3 DEF TypeOK
  <2>3. /\ bytes_read' \in 0..file_size' /\ bytes_sent' \in 0..bytes_read'
        /\ active' \in 0..MaxInflight
    BY <1>1, <1>2, <1>3, SendAssumption DEF TypeOK
  <2>4. truncated' \in BOOLEAN /\ disk_done' \in BOOLEAN  BY DEF ReadAndSubmit
  <2> QED  BY <1>1, <1>3, <2>1, <2>2, <2>3, <2>4 DEF TypeOK
<1>9. Blocks'
  <2>1. \A p \in Entry : p # q /\ Held(p) =>
            IsBlock(data[p]) /\ Span(data[p]) \subseteq 1..bytes_read
    BY <1>1, BlockSpan DEF Blocks
  <2>2. ASSUME NEW p \in Entry, Held(p)' PROVE IsBlock(data[p])'
    <3>1. CASE p = q
      <4>1. Len(data'[q]) \in 1..Chunk  BY <1>2
      <4>2. data'[q][1] \in 1..bytes_read' /\ data'[q][1] + Len(data'[q]) - 1 <= bytes_read'
        BY <1>2
      <4>3. data'[q] = Units(data'[q][1] - 1, Len(data'[q]))  BY <1>2
      <4> QED  BY <1>2, <3>1, <4>1, <4>2, <4>3 DEF IsBlock
    <3>2. CASE p # q
      <4>1. IsBlock(data[p]) /\ data'[p] = data[p]  BY <1>2, <1>5, <2>1, <2>2, <3>2
      <4>2. bytes_read \in Nat /\ bytes_read' \in Nat /\ bytes_read <= bytes_read'  BY <1>2
      <4>3. \A x : x \in 1..bytes_read => x \in 1..bytes_read'  BY <4>2
      <4>4. \A x \in Int : x <= bytes_read => x <= bytes_read'  BY <4>2
      <4>5. data[p][1] \in 1..bytes_read' /\ data[p][1] + Len(data[p]) - 1 <= bytes_read'
        BY <4>1, <4>3, <4>4 DEF IsBlock
      <4> QED  BY <4>1, <4>5 DEF IsBlock
    <3> QED  BY <3>1, <3>2
  <2>3. ASSUME NEW p \in Entry, NEW r \in Entry, p # r, Held(p)', Held(r)'
        PROVE  Span(data'[p]) \cap Span(data'[r]) = {}
    <3>1. CASE p # q /\ r # q
      BY <1>1, <1>2, <1>5, <2>3, <3>1 DEF Blocks
    <3>2. ASSUME NEW s \in Entry, s # q, Held(s)'
          PROVE  Span(data'[s]) \cap Span(data'[q]) = {}
      <4>1. Span(data'[s]) \subseteq 1..bytes_read  BY <1>2, <1>5, <2>1, <3>2
      <4>2. (1..bytes_read) \cap (bytes_read + 1 .. bytes_read + n) = {}  BY <1>2
      <4> QED  BY <1>2, <4>1, <4>2
    <3> QED  BY <2>3, <3>1, <3>2
  <2> QED  BY <1>2, <2>2, <2>3 DEF Blocks
<1>10. Queued'
  <2>1. order \in Seq(Entry)  BY <1>1 DEF TypeOK
  <2>2. Len(order') = Len(order) + 1 /\ order'[Len(order) + 1] = q
        /\ \A i \in 1..Len(order) : order'[i] = order[i]
    BY <1>3, <2>1
  <2>3. \A i \in 1..Len(order) : order[i] # q  BY <1>1, <1>4, <2>1 DEF Queued
  <2>4. \A i, j \in 1..Len(order') : order'[i] = order'[j] => i = j
    BY <1>1, <2>1, <2>2, <2>3 DEF Queued
  <2>5. ASSUME NEW p \in Entry PROVE in_flight'[p] <=> \E i \in 1..Len(order') : order'[i] = p
    <3>1. CASE p = q  BY <1>3, <2>1, <2>2, <3>1
    <3>2. CASE p # q  BY <1>1, <1>3, <2>1, <2>2, <3>2 DEF Queued
    <3> QED  BY <3>1, <3>2
  <2>6. \A p \in Entry : ~(in_flight'[p] /\ completed'[p])  BY <1>1, <1>3 DEF Queued
  <2> QED  BY <2>4, <2>5, <2>6 DEF Queued
<1>11. Carried'
  <2>1. InFlight' = InFlight \cup {q} /\ q \notin InFlight  BY <1>3, <1>4 DEF InFlight
  <2>2. \A p \in InFlight : p \in Entry /\ p # q /\ Held(p)  BY <2>1 DEF InFlight, Held
  <2>3. Size(data', InFlight) = Size(data, InFlight)
    <3>1. \A p \in InFlight : data'[p] = data[p]  BY <1>2, <2>2
    <3> QED  BY <3>1, SizeOfSame
  <2>4. Size(data', InFlight \cup {q}) = Size(data', InFlight) + n /\ Size(data', InFlight) \in Nat
    <3>1. \A p \in InFlight \cup {q} : Span(data'[p]) \subseteq 1..bytes_read'
      <4>1. 1..bytes_read \subseteq 1..bytes_read'  BY <1>2
      <4>2. bytes_read + 1 .. bytes_read + n \subseteq 1..bytes_read'  BY <1>2
      <4> QED  BY <1>1, <1>2, <2>2, <4>1, <4>2, BlockSpan
    <3>2. \A p \in InFlight : Span(data'[p]) \cap Span(data'[q]) = {}
      BY <1>3, <1>9, <2>2 DEF Blocks, Held
    <3>3. bytes_read' \in Nat /\ Len(data'[q]) \in Nat /\ data'[q][1] \in Nat  BY <1>2
    <3>4. Size(data', InFlight) \in Nat
          /\ Size(data', InFlight \cup {q}) = Size(data', InFlight) + Len(data'[q])
      BY <2>1, <3>1, <3>2, <3>3, SizeAdds
    <3>5. Len(data'[q]) = n  BY <1>2
    <3> QED  BY <3>4, <3>5
  <2>5. Len(wire) \in Nat /\ Len(wire) + Size(data, InFlight) <= bytes_read
    BY <1>1 DEF Carried, TypeOK
  <2>6. Size(data, InFlight)' = Size(data, InFlight) + n  BY <2>1, <2>3, <2>4
  <2>7. Len(wire') + Size(data, InFlight)' <= bytes_read'
    BY <1>2, <1>3, <2>3, <2>4, <2>5, <2>6
  <2> QED  BY <2>7 DEF Carried
<1>12. Credited'
  <2>1. Good' = Good /\ \A p \in Good : p \in Entry /\ p # q  BY <1>3, <1>4 DEF Good
  <2>2. Size(data', Good) = Size(data, Good)
    <3>1. \A p \in Good : data'[p] = data[p]  BY <1>2, <2>1
    <3> QED  BY <3>1, SizeOfSame
  <2> QED  BY <1>1, <1>3, <2>1, <2>2 DEF Credited
<1>13. InOrder'
  <2> SUFFICES ASSUME NoFailure' PROVE InOrder'  BY DEF InOrder
  <2>1. order \in Seq(Entry) /\ Len(wire) \in Nat  BY <1>1 DEF TypeOK
  <2>2. Len(order') = Len(order) + 1 /\ order'[Len(order) + 1] = q /\ Len(order) \in Nat
        /\ \A i \in 1..Len(order) : order'[i] = order[i]
    BY <1>3, <2>1
  <2>3. NoFailure  BY <1>3, <1>4 DEF NoFailure
  <2>4. wire = Units(0, Len(wire)) /\ Follows(Len(wire), data, order, bytes_read)
    BY <1>1, <2>3 DEF InOrder
  <2>5. \A i \in 1..Len(order) : order[i] \in Entry /\ data'[order[i]] = data[order[i]]
    BY <1>1, <1>2, <1>4, <2>1 DEF Queued
  <2> DEFINE B(i) == Before(Len(wire), data, order, i)
             C(i) == Before(Len(wire), data', order', i)
  <2>6. \A i \in 1 .. Len(order) + 1 : C(i) = B(i)
    BY <2>2, <2>5 DEF Before
  <2>7. C(Len(order) + 2) = Last(data'[q])
    BY <2>2 DEF Before
  <2>8. Last(data'[q]) = bytes_read'  BY <1>2 DEF Last
  <2>9. \A i \in 1..Len(order) : data'[order'[i]][1] = C(i) + 1
    BY <2>2, <2>4, <2>5, <2>6 DEF Follows
  <2>10. data'[order'[Len(order) + 1]][1] = C(Len(order) + 1) + 1
    BY <1>2, <2>2, <2>4, <2>6 DEF Follows
  <2>11. Len(order') + 1 = Len(order) + 2 /\ 1..Len(order') = 1..Len(order) \cup {Len(order) + 1}
    BY <2>2
  <2>12. Follows(Len(wire), data', order', bytes_read')
    <3> HIDE DEF C
    <3>1. \A i \in 1..Len(order') : data'[order'[i]][1] = C(i) + 1  BY <2>9, <2>10, <2>11
    <3>2. bytes_read' = C(Len(order') + 1)  BY <2>7, <2>8, <2>11
    <3> QED  BY <3>1, <3>2 DEF Follows, C
  <2> QED  BY <1>3, <2>4, <2>12 DEF InOrder
<1>14. active' <= active + 1  BY <1>1, <1>3 DEF TypeOK
<1> QED  BY <1>5, <1>7, <1>8, <1>9, <1>10, <1>11, <1>12, <1>13, <1>14 DEF Submitted

\* Every outcome of submit_next.
LEMMA SubmitNextKeeps ==
    ASSUME Inv, NEW q \in Entry, ~Held(q), active < MaxInflight,
           UNCHANGED <<file_size, bytes_sent, wire, ok>>,
           pc' \in {"prime", "scan"}, scan' \in 0..Depth, SubmitNext(q)
    PROVE  Submitted(q)
<1>1. TypeOK /\ ActiveIsExact /\ Blocks /\ Queued /\ Carried /\ Credited /\ InOrder /\ Phase
  BY DEF Inv
<1>2. ASSUME UNCHANGED <<xfrs, order, bytes_read, active, truncated>>, error' \in {error, TRUE},
             disk_done' \in BOOLEAN
      PROVE  Submitted(q)
  <2>1. ActiveIsExact' /\ Blocks' /\ Queued' /\ Carried' /\ Credited' /\ InOrder'
    BY <1>2, BooksKept
  <2>2. TypeOK'  BY <1>1, <1>2 DEF TypeOK, xfrs
  <2>3. \A p \in Entry : Held(p)' <=> Held(p)  BY <1>2 DEF Held, xfrs
  <2>4. active' <= active + 1  BY <1>1, <1>2 DEF TypeOK
  <2> QED  BY <2>1, <2>2, <2>3, <2>4 DEF Submitted
<1>3. CASE NothingLeft  BY <1>2, <1>3 DEF NothingLeft
<1>4. CASE ReadFails  BY <1>1, <1>2, <1>4 DEF ReadFails, TypeOK
<1>5. CASE \E n \in 1..Chunk : ReadAndSubmit(q, n)  BY <1>5, ReadSubmits
<1>6. CASE SubmitFails(q)
  <2>1. PICK n \in Nat : /\ n = Least(file_size - bytes_read, Chunk)
                         /\ bytes_read + n <= file_size /\ n <= Chunk
    <3> DEFINE l == Least(file_size - bytes_read, Chunk)
    <3>1. l \in Nat /\ bytes_read + l <= file_size /\ l <= Chunk
      BY <1>1, SendAssumption DEF TypeOK, Least
    <3> HIDE DEF l
    <3>2. \E n \in Nat : n = l /\ bytes_read + n <= file_size /\ n <= Chunk  BY <3>1
    <3> QED  BY <3>2 DEF l
  <2>2. bytes_read \in Nat /\ file_size \in Nat  BY <1>1 DEF TypeOK
  <2>3. Units(bytes_read, n) \in Seq(Nat) /\ Len(Units(bytes_read, n)) = n
        /\ Units(bytes_read, n) \in Seq(1..file_size)
    BY <2>1, <2>2, UnitsOfFile
  <2>4. data \in [Entry -> Seq(Nat)] /\ data' = [data EXCEPT ![q] = Units(bytes_read, n)]
    BY <1>1, <1>6, <2>1 DEF SubmitFails, Blocks
  <2>5. /\ data' \in [Entry -> Seq(Nat)] /\ data'[q] = Units(bytes_read, n)
        /\ \A p \in Entry : p # q => data'[p] = data[p]
    BY <2>3, <2>4
  <2>6. in_flight' = in_flight /\ completed' = completed
    BY <1>1, <1>6 DEF SubmitFails, InFlightOnceRefused, TypeOK, Held
  <2>7. UNCHANGED <<truncated, status, order, bytes_read, active, disk_done>> /\ error' = TRUE
    BY <1>6 DEF SubmitFails
  <2>8. \A p \in Entry : Held(p)' <=> Held(p)  BY <2>6 DEF Held
  <2>9. \A p \in Entry : Held(p) => data'[p] = data[p]  BY <2>5
  <2>10. TypeOK'
    <3>1. \A p \in Entry : data'[p] \in Seq(1..file_size) /\ Len(data'[p]) <= Chunk
      BY <1>1, <2>1, <2>3, <2>5 DEF TypeOK
    <3>2. file_size' = file_size  OBVIOUS
    <3>3. \A p \in Entry : data'[p] \in Seq(1..file_size') /\ Len(data'[p]) <= Chunk
      BY <3>1, <3>2
    <3> QED  BY <1>1, <2>6, <2>7, <3>3 DEF TypeOK
  <2>11. ActiveIsExact'  BY <1>1, <2>6, <2>7 DEF ActiveIsExact
  <2>12. Blocks'
    <3>1. ASSUME NEW p \in Entry, Held(p)' PROVE IsBlock(data[p])'
      <4>1. IsBlock(data[p]) /\ data'[p] = data[p]  BY <1>1, <2>8, <2>9, <3>1 DEF Blocks
      <4> QED  BY <2>7, <4>1 DEF IsBlock
    <3>2. ASSUME NEW p \in Entry, NEW r \in Entry, p # r, Held(p)', Held(r)'
          PROVE  Span(data'[p]) \cap Span(data'[r]) = {}
      BY <1>1, <2>8, <2>9, <3>2 DEF Blocks
    <3> QED  BY <2>5, <3>1, <3>2 DEF Blocks
  <2>13. Queued'  BY <1>1, <2>6, <2>7 DEF Queued
  <2>14. Carried'
    <3>1. \A p \in InFlight : data'[p] = data[p]  BY <2>9 DEF InFlight, Held
    <3>2. Size(data', InFlight) = Size(data, InFlight)  BY <3>1, SizeOfSame
    <3>3. InFlight' = InFlight  BY <2>6 DEF InFlight
    <3> QED  BY <1>1, <2>7, <3>2, <3>3 DEF Carried
  <2>15. Credited'
    <3>1. \A p \in Good : data'[p] = data[p]  BY <2>9 DEF Good, Held
    <3>2. Size(data', Good) = Size(data, Good)  BY <3>1, SizeOfSame
    <3>3. Good' = Good  BY <2>6, <2>7 DEF Good
    <3> QED  BY <1>1, <3>2, <3>3 DEF Credited
  <2>16. InOrder'  BY <2>7 DEF InOrder, NoFailure
  <2>17. active' <= active + 1  BY <1>1, <2>7 DEF TypeOK
  <2> QED  BY <2>8, <2>10, <2>11, <2>12, <2>13, <2>14, <2>15, <2>16, <2>17 DEF Submitted
<1> QED  BY <1>3, <1>4, <1>5, <1>6 DEF SubmitNext

-----------------------------------------------------------------------------
(* One lemma for each kind of step.                                        *)

\* A transfer of the queue has been sent: its units move to the wire.
LEMMA SentKeeps == ASSUME Inv, Sent PROVE Inv'
<1>1. TypeOK /\ ActiveIsExact /\ Blocks /\ Queued /\ Carried /\ Credited /\ InOrder /\ Phase
  BY DEF Inv
<1>2. order \in Seq(Entry) /\ order # << >> /\ Len(order) \in Nat \ {0}
  BY <1>1 DEF TypeOK, Sent
<1> DEFINE q == order[1]
<1>3. q \in Entry  BY <1>2
<1>4. /\ wire' = wire \o data[q] /\ data' = data /\ order' = Tail(order)
      /\ UNCHANGED <<pc, file_size, truncated, scan, sums, error, ok>>
  BY DEF Sent
<1>5. /\ in_flight' \in [Entry -> BOOLEAN] /\ completed' \in [Entry -> BOOLEAN]
      /\ status' \in [Entry -> BOOLEAN]
      /\ completed'[q] /\ ~in_flight'[q] /\ status'[q]
      /\ \A p \in Entry : p # q => /\ in_flight'[p] = in_flight[p]
                                   /\ completed'[p] = completed[p] /\ status'[p] = status[p]
  BY <1>1, <1>3 DEF TypeOK, Sent
<1>6. in_flight[q] /\ ~completed[q]  BY <1>1, <1>2, <1>3 DEF Queued
<1> HIDE DEF q
<1>7. \A p \in Entry : Held(p)' <=> Held(p)  BY <1>5, <1>6 DEF Held
<1>8. /\ IsBlock(data[q]) /\ data[q] \in Seq(Nat) /\ Len(data[q]) \in Nat
      /\ data[q] \in Seq(1..file_size)
  BY <1>1, <1>3, <1>6 DEF Blocks, Held, TypeOK
<1>9. /\ Len(wire') = Len(wire) + Len(data[q]) /\ wire' \in Seq(1..file_size)
      /\ Len(wire) \in Nat
  BY <1>1, <1>4, <1>8, ConcatProperties DEF TypeOK
<1>10. /\ Len(order') = Len(order) - 1 /\ order' \in Seq(Entry)
       /\ \A i \in 1..Len(order') : order'[i] = order[i + 1]
  BY <1>2, <1>4
<1>11. TypeOK'  BY <1>1, <1>4, <1>5, <1>9, <1>10 DEF TypeOK, sums
<1>12. ActiveIsExact'
  <2>1. HeldSet' = HeldSet  BY <1>7 DEF HeldSet
  <2> QED  BY <1>1, <1>4, <2>1 DEF ActiveIsExact, HeldSet, Held, sums
<1>13. Blocks'  BY <1>1, <1>4, <1>7 DEF Blocks, IsBlock, sums
<1>14. Queued'
  <2>1. \A i, j \in 1..Len(order') : order'[i] = order'[j] => i = j
    BY <1>1, <1>2, <1>10 DEF Queued
  <2>2. \A i \in 1..Len(order') : order'[i] # q
    BY <1>1, <1>2, <1>10 DEF Queued, q
  <2>3. ASSUME NEW p \in Entry, p # q
        PROVE  (\E i \in 1..Len(order) : order[i] = p) <=> \E i \in 1..Len(order') : order'[i] = p
    <3>1. ASSUME NEW i \in 1..Len(order), order[i] = p PROVE \E j \in 1..Len(order') : order'[j] = p
      <4>1. i # 1  BY <2>3, <3>1 DEF q
      <4>2. i - 1 \in 1..Len(order') /\ order'[i - 1] = order[i]  BY <1>2, <1>10, <4>1
      <4> QED  BY <3>1, <4>2
    <3>2. ASSUME NEW i \in 1..Len(order'), order'[i] = p PROVE \E j \in 1..Len(order) : order[j] = p
      BY <1>2, <1>10, <3>2
    <3> QED  BY <3>1, <3>2
  <2>4. \A p \in Entry : in_flight'[p] <=> \E i \in 1..Len(order') : order'[i] = p
    BY <1>1, <1>5, <2>2, <2>3 DEF Queued
  <2>5. \A p \in Entry : ~(in_flight'[p] /\ completed'[p])  BY <1>1, <1>5 DEF Queued
  <2> QED  BY <2>1, <2>4, <2>5 DEF Queued
<1>15. /\ Size(data, InFlight) = Size(data, InFlight') + Len(data[q])
       /\ Size(data, Good') = Size(data, Good) + Len(data[q])
       /\ Size(data, InFlight') \in Nat /\ Size(data, Good) \in Nat
  <2> DEFINE m == bytes_read
  <2>1. InFlight = InFlight' \cup {q} /\ q \notin InFlight'  BY <1>3, <1>5, <1>6 DEF InFlight
  <2>2. Good' = Good \cup {q} /\ q \notin Good  BY <1>3, <1>5, <1>6 DEF Good
  <2>3. \A p \in InFlight' \cup Good \cup {q} : p \in Entry /\ Held(p)
    BY <1>3, <1>5, <1>6 DEF InFlight, Good, Held
  <2>4. \A p \in InFlight' \cup Good \cup {q} : Span(data[p]) \subseteq 1..m
    BY <1>1, <2>3, BlockSpan
  <2>5. \A p \in InFlight' \cup Good : Span(data[p]) \cap Span(data[q]) = {}
    BY <1>1, <2>1, <2>2, <2>3 DEF Blocks
  <2>6. m \in Nat /\ Len(data[q]) \in Nat /\ data[q][1] \in Nat
    BY <1>1, <2>3, BlockSpan
  <2> HIDE DEF m
  <2>7. Size(data, InFlight') \in Nat
        /\ Size(data, InFlight' \cup {q}) = Size(data, InFlight') + Len(data[q])
    BY <2>1, <2>4, <2>5, <2>6, SizeAdds
  <2>8. Size(data, Good) \in Nat /\ Size(data, Good \cup {q}) = Size(data, Good) + Len(data[q])
    BY <2>2, <2>4, <2>5, <2>6, SizeAdds
  <2> QED  BY <2>1, <2>2, <2>7, <2>8
<1>16. Carried' /\ Credited'
  <2>1. Len(wire) + Size(data, InFlight) <= bytes_read /\ bytes_sent + Size(data, Good) <= Len(wire)
        /\ bytes_read \in Nat /\ bytes_sent \in Nat
    BY <1>1 DEF Carried, Credited, TypeOK
  <2>2. Len(wire') + Size(data, InFlight') <= bytes_read
        /\ bytes_sent + Size(data, Good') <= Len(wire')
    BY <1>8, <1>9, <1>15, <2>1
  <2> QED  BY <1>4, <2>2 DEF Carried, Credited, sums
<1>17. InOrder'
  <2> SUFFICES ASSUME NoFailure' PROVE InOrder'  BY DEF InOrder
  <2>1. NoFailure  BY <1>4, <1>5, <1>6 DEF NoFailure
  <2>2. wire = Units(0, Len(wire)) /\ Follows(Len(wire), data, order, bytes_read)
    BY <1>1, <2>1 DEF InOrder
  <2>3. data[q][1] = Len(wire) + 1 /\ data[q] = Units(data[q][1] - 1, Len(data[q]))
    BY <1>2, <1>8, <2>2 DEF Follows, Before, IsBlock, q
  <2>4. data[q] = Units(Len(wire), Len(data[q]))
    BY <1>9, <2>3
  <2>5. wire' = Units(0, Len(wire'))
    <3> DEFINE a == Len(wire)
               b == Len(data[q])
    <3>1. a \in Nat /\ b \in Nat /\ Len(wire') = a + b  BY <1>8, <1>9
    <3>2. wire' = Units(0, a) \o Units(a, b)  BY <1>4, <2>2, <2>4
    <3> HIDE DEF a, b
    <3> QED  BY <3>1, <3>2, UnitsJoin
  <2> DEFINE B(i) == Before(Len(wire), data, order, i)
             C(i) == Before(Len(wire'), data, order', i)
  <2>6. \A i \in 1..Len(order) : C(i) = B(i + 1)
    <3>1. C(1) = B(2)
      <4>1. Last(data[q]) = Len(wire')
        <5>1. data[q][1] = Len(wire) + 1 /\ Len(data[q]) \in Nat /\ Len(wire) \in Nat
              /\ Len(wire') = Len(wire) + Len(data[q])
          BY <1>8, <1>9, <2>3
        <5>2. Last(data[q]) = Len(wire) + Len(data[q])  BY <5>1, LastUnit
        <5> QED  BY <5>1, <5>2
      <4> QED  BY <1>2, <4>1 DEF Before, q
    <3>2. ASSUME NEW i \in 1..Len(order), i # 1 PROVE C(i) = B(i + 1)
      <4>1. i - 1 \in 1..Len(order') /\ i + 1 # 1 /\ i + 1 - 1 = i /\ i - 1 + 1 = i
        BY <1>2, <1>10, <3>2
      <4>2. order'[i - 1] = order[i]  BY <1>10, <4>1
      <4> QED  BY <3>2, <4>1, <4>2 DEF Before
    <3> QED  BY <3>1, <3>2
  <2> HIDE DEF B, C
  <2>7. \A i \in 1..Len(order') : data[order'[i]][1] = C(i) + 1
    <3>1. ASSUME NEW i \in 1..Len(order') PROVE data[order'[i]][1] = C(i) + 1
      <4>1. i \in 1..Len(order) /\ i + 1 \in 1..Len(order)  BY <1>2, <1>10
      <4>2. data[order[i + 1]][1] = B(i + 1) + 1  BY <2>2, <4>1 DEF Follows, B
      <4> QED  BY <1>10, <2>6, <4>1, <4>2
    <3> QED  BY <3>1
  <2>8. bytes_read = C(Len(order') + 1)
    <3>1. Len(order') + 1 = Len(order) /\ Len(order) \in 1..Len(order)  BY <1>2, <1>10
    <3>2. bytes_read = B(Len(order) + 1)  BY <2>2 DEF Follows, B
    <3> QED  BY <2>6, <3>1, <3>2
  <2>9. Follows(Len(wire'), data, order', bytes_read)  BY <2>7, <2>8 DEF Follows, C
  <2> QED  BY <1>4, <2>5, <2>9 DEF InOrder, sums
<1>18. Phase'
  <2>1. pc' = pc /\ pc \in {"events", "drain"}  BY <1>4 DEF Sent, HandlingEvents
  <2> QED  BY <1>1, <1>4, <2>1 DEF Phase, sums
<1> QED  BY <1>11, <1>12, <1>13, <1>14, <1>16, <1>17, <1>18 DEF Inv

\* One entry less of those held.
LEMMA SizeLess ==
    ASSUME TypeOK, Blocks, NEW S \in SUBSET Entry, \A p \in S : Held(p), NEW q \in S
    PROVE  /\ Size(data, S) = Size(data, S \ {q}) + Len(data[q])
           /\ Size(data, S \ {q}) \in Nat /\ Len(data[q]) \in Nat /\ Len(data[q]) > 0
<1> DEFINE T == S \ {q}
           m == bytes_read
<1>1. S = T \cup {q} /\ q \notin T  OBVIOUS
<1>2. \A p \in T \cup {q} : Span(data[p]) \subseteq 1..m  BY <1>1, BlockSpan
<1>3. \A p \in T : Span(data[p]) \cap Span(data[q]) = {}  BY DEF Blocks
<1>4. m \in Nat /\ Len(data[q]) \in Nat /\ Len(data[q]) > 0 /\ data[q][1] \in Nat
  BY BlockSpan, SendAssumption
<1> HIDE DEF T, m
<1>5. Size(data, T) \in Nat /\ Size(data, T \cup {q}) = Size(data, T) + Len(data[q])
  BY <1>1, <1>2, <1>3, <1>4, SizeAdds
<1> QED  BY <1>1, <1>4, <1>5 DEF T

\* The completions yet to be credited amount to a number.
LEMMA GoodSize == ASSUME TypeOK, Blocks PROVE Size(data, Good) \in Nat
<1>1. CASE Good = {}  BY <1>1, SizeOfNone
<1>2. CASE Good # {}
  <2>1. PICK p \in Good : TRUE  BY <1>2
  <2>2. Good \subseteq Entry /\ \A r \in Good : Held(r)  BY DEF Good, Held
  <2>3. /\ Size(data, Good) = Size(data, Good \ {p}) + Len(data[p])
        /\ Size(data, Good \ {p}) \in Nat /\ Len(data[p]) \in Nat
    BY <2>1, <2>2, SizeLess
  <2> QED  BY <2>3
<1> QED  BY <1>1, <1>2

\* An entry taken out of a queue.
LEMMA Removed ==
    ASSUME NEW S, NEW s \in Seq(S), NEW i \in 1..Len(s)
    PROVE  LET t == SubSeq(s, 1, i - 1) \o SubSeq(s, i + 1, Len(s)) IN
           /\ t \in Seq(S) /\ Len(t) = Len(s) - 1
           /\ \A j \in 1 .. Len(s) - 1 : t[j] = IF j < i THEN s[j] ELSE s[j + 1]
<1> DEFINE a == SubSeq(s, 1, i - 1)
           b == SubSeq(s, i + 1, Len(s))
<1>0. Len(s) \in Nat /\ i \in Nat /\ i >= 1 /\ i <= Len(s)  OBVIOUS
<1>1. a \in Seq(S) /\ Len(a) = i - 1 /\ \A j \in 1 .. i - 1 : a[j] = s[j]
  <2>1. \A j \in 1 .. i - 1 : s[j] \in S  BY <1>0
  <2>2. /\ a \in Seq(S) /\ Len(a) = IF 1 <= i - 1 THEN i - 1 - 1 + 1 ELSE 0
        /\ \A j \in 1 .. i - 1 - 1 + 1 : a[j] = s[1 + j - 1]
    BY <1>0, <2>1, SubSeqProperties
  <2> HIDE DEF a
  <2> QED  BY <1>0, <2>2
<1>2. b \in Seq(S) /\ Len(b) = Len(s) - i /\ \A j \in 1 .. Len(s) - i : b[j] = s[i + j]
  <2>1. \A j \in i + 1 .. Len(s) : s[j] \in S  BY <1>0
  <2>2. /\ b \in Seq(S) /\ Len(b) = IF i + 1 <= Len(s) THEN Len(s) - (i + 1) + 1 ELSE 0
        /\ \A j \in 1 .. Len(s) - (i + 1) + 1 : b[j] = s[i + 1 + j - 1]
    BY <1>0, <2>1, SubSeqProperties
  <2> HIDE DEF b
  <2> QED  BY <1>0, <2>2
<1> HIDE DEF a, b
<1>3. a \o b \in Seq(S) /\ Len(a \o b) = Len(a) + Len(b)
      /\ \A j \in 1 .. Len(a) + Len(b) : (a \o b)[j] = IF j <= Len(a) THEN a[j] ELSE b[j - Len(a)]
  BY <1>1, <1>2, ConcatProperties
<1>4. Len(a) + Len(b) = Len(s) - 1  BY <1>0, <1>1, <1>2
<1>5. ASSUME NEW j \in 1 .. Len(s) - 1 PROVE (a \o b)[j] = IF j < i THEN s[j] ELSE s[j + 1]
  <2>1. CASE j < i
    <3>1. j <= Len(a) /\ j \in 1 .. i - 1  BY <1>0, <1>1, <2>1
    <3> QED  BY <1>1, <1>3, <1>4, <2>1, <3>1
  <2>2. CASE ~(j < i)
    <3>1. /\ ~(j <= Len(a)) /\ j - Len(a) = j - i + 1 /\ j - i + 1 \in 1 .. Len(s) - i
          /\ i + (j - i + 1) = j + 1
      BY <1>0, <1>1, <2>2
    <3>2. (a \o b)[j] = b[j - i + 1]  BY <1>3, <1>4, <3>1
    <3>3. b[j - i + 1] = s[j + 1]  BY <1>2, <3>1
    <3> QED  BY <2>2, <3>2, <3>3
  <2> QED  BY <2>1, <2>2
<1>6. a \o b \in Seq(S) /\ Len(a \o b) = Len(s) - 1  BY <1>3, <1>4
<1> QED  BY <1>5, <1>6 DEF a, b

\* A transfer ends with a bad status, part of the oldest one sent.
LEMMA SendBreaksKeeps ==
    ASSUME Inv, NEW k \in 1..Depth, NEW n \in 0..Chunk, SendBreaks(k, n)
    PROVE  Inv'
<1>1. TypeOK /\ ActiveIsExact /\ Blocks /\ Queued /\ Carried /\ Credited /\ InOrder /\ Phase
  BY DEF Inv
<1>2. order \in Seq(Entry) /\ k \in 1..Len(order) /\ Len(order) \in Nat
  BY <1>1 DEF TypeOK, SendBreaks
<1> DEFINE q == order[k]
<1>3. q \in Entry  BY <1>2
<1>4. /\ n \in 0 .. (IF k = 1 THEN Len(data[q]) ELSE 0)
      /\ wire' = wire \o SubSeq(data[q], 1, n) /\ data' = data
      /\ order' = SubSeq(order, 1, k - 1) \o SubSeq(order, k + 1, Len(order))
      /\ pc \in {"events", "drain"}
      /\ UNCHANGED <<pc, file_size, truncated, scan, sums, error, ok>>
  BY DEF SendBreaks, HandlingEvents
<1>5. /\ in_flight' \in [Entry -> BOOLEAN] /\ completed' \in [Entry -> BOOLEAN]
      /\ status' \in [Entry -> BOOLEAN]
      /\ completed'[q] /\ ~in_flight'[q] /\ ~status'[q]
      /\ \A p \in Entry : p # q => /\ in_flight'[p] = in_flight[p]
                                   /\ completed'[p] = completed[p] /\ status'[p] = status[p]
  BY <1>1, <1>3 DEF TypeOK, SendBreaks
<1>6. in_flight[q] /\ ~completed[q]  BY <1>1, <1>2, <1>3 DEF Queued
<1>7. /\ order' \in Seq(Entry) /\ Len(order') = Len(order) - 1
      /\ \A j \in 1 .. Len(order) - 1 : order'[j] = IF j < k THEN order[j] ELSE order[j + 1]
  BY <1>2, <1>4, Removed
<1>8. \A p \in Entry : Held(p)' <=> Held(p)  BY <1>5, <1>6 DEF Held
<1>9. data[q] \in Seq(1..file_size) /\ Len(data[q]) \in Nat /\ n <= Len(data[q]) /\ n \in Nat
  BY <1>1, <1>3, <1>4 DEF TypeOK
<1>10. wire' \in Seq(1..file_size) /\ Len(wire') = Len(wire) + n /\ Len(wire) \in Nat
  <2> HIDE DEF q
  <2> DEFINE c == SubSeq(data[q], 1, n)
  <2>1. \A j \in 1..n : data[q][j] \in 1..file_size
    <3>1. \A j \in 1..n : j \in 1..Len(data[q])  BY <1>9
    <3> QED  BY <1>9, <3>1, ElementOfSeq
  <2>2. c \in Seq(1..file_size) /\ Len(c) = IF 1 <= n THEN n - 1 + 1 ELSE 0
    BY <1>9, <2>1, SubSeqProperties
  <2>3. wire \in Seq(1..file_size) /\ wire' = wire \o c  BY <1>1, <1>4 DEF TypeOK
  <2> HIDE DEF c
  <2>4. Len(c) = n  BY <1>9, <2>2
  <2>5. wire \o c \in Seq(1..file_size) /\ Len(wire \o c) = Len(wire) + Len(c)
    BY <2>2, <2>3, ConcatProperties
  <2>6. Len(wire) \in Nat  BY <2>3, LenProperties
  <2> QED  BY <2>3, <2>4, <2>5, <2>6
<1>11. TypeOK'  BY <1>1, <1>4, <1>5, <1>7, <1>10 DEF TypeOK, sums
<1>12. ActiveIsExact'
  <2>1. HeldSet' = HeldSet  BY <1>8 DEF HeldSet
  <2> QED  BY <1>1, <1>4, <2>1 DEF ActiveIsExact, HeldSet, Held, sums
<1>13. Blocks'  BY <1>1, <1>4, <1>8 DEF Blocks, IsBlock, sums
<1>14. Queued'
  <2>1. \A i, j \in 1..Len(order') : order'[i] = order'[j] => i = j
    BY <1>1, <1>2, <1>7 DEF Queued
  <2>2. \A i \in 1..Len(order') : order'[i] # q
    BY <1>1, <1>2, <1>7 DEF Queued
  <2> HIDE DEF q
  <2>3. ASSUME NEW p \in Entry, p # q
        PROVE  (\E i \in 1..Len(order) : order[i] = p) <=> \E i \in 1..Len(order') : order'[i] = p
    <3>1. ASSUME NEW i \in 1..Len(order), order[i] = p PROVE \E j \in 1..Len(order') : order'[j] = p
      <4>1. i # k  BY <2>3, <3>1 DEF q
      <4>2. CASE i < k
        <5>1. i \in 1..Len(order') /\ order'[i] = order[i]  BY <1>2, <1>7, <4>2
        <5> QED  BY <3>1, <5>1
      <4>3. CASE i > k
        <5>1. i - 1 \in 1..Len(order') /\ ~(i - 1 < k) /\ i - 1 + 1 = i  BY <1>2, <1>7, <4>3
        <5>2. order'[i - 1] = order[i]  BY <1>7, <5>1
        <5> QED  BY <3>1, <5>1, <5>2
      <4> QED  BY <1>2, <4>1, <4>2, <4>3
    <3>2. ASSUME NEW i \in 1..Len(order'), order'[i] = p PROVE \E j \in 1..Len(order) : order[j] = p
      BY <1>2, <1>7, <3>2
    <3> QED  BY <3>1, <3>2
  <2>4. \A p \in Entry : in_flight'[p] <=> \E i \in 1..Len(order') : order'[i] = p
    BY <1>1, <1>5, <2>2, <2>3 DEF Queued
  <2>5. \A p \in Entry : ~(in_flight'[p] /\ completed'[p])  BY <1>1, <1>5 DEF Queued
  <2> QED  BY <2>1, <2>4, <2>5 DEF Queued
<1>15. Carried'
  <2>1. q \in InFlight /\ InFlight' = InFlight \ {q} /\ InFlight \subseteq Entry
        /\ \A p \in InFlight : Held(p)
    BY <1>3, <1>5, <1>6 DEF InFlight, Held
  <2>2. /\ Size(data, InFlight) = Size(data, InFlight \ {q}) + Len(data[q])
        /\ Size(data, InFlight \ {q}) \in Nat
    BY <1>1, <2>1, SizeLess
  <2>3. Len(wire) + Size(data, InFlight) <= bytes_read /\ bytes_read \in Nat
    BY <1>1 DEF Carried, TypeOK
  <2>4. Len(wire') + Size(data, InFlight \ {q}) <= bytes_read
    BY <1>9, <1>10, <2>2, <2>3
  <2>5. Size(data, InFlight)' = Size(data, InFlight \ {q})  BY <1>4, <2>1
  <2> QED  BY <1>4, <2>4, <2>5 DEF Carried, sums
<1>16. Credited'
  <2>1. Good' = Good  BY <1>5, <1>6 DEF Good
  <2>2. bytes_sent + Size(data, Good) <= Len(wire)  BY <1>1 DEF Credited
  <2>3. Size(data, Good) \in Nat  BY <1>1, GoodSize
  <2>4. bytes_sent + Size(data, Good) <= Len(wire')
    BY <1>1, <1>9, <1>10, <2>2, <2>3 DEF TypeOK
  <2> QED  BY <1>4, <2>1, <2>4 DEF Credited, sums
<1>17. InOrder'  BY <1>3, <1>5 DEF InOrder, NoFailure
<1>18. Phase'  BY <1>1, <1>4 DEF Phase, sums
<1> QED  BY <1>11, <1>12, <1>13, <1>14, <1>15, <1>16, <1>17, <1>18 DEF Inv

\* A completion is taken off the queue: what all three places that do it share.
LEMMA CompletionTaken ==
    ASSUME Inv, NEW q \in Entry, completed[q],
           completed' = [completed EXCEPT ![q] = FALSE], active' = active - 1,
           UNCHANGED <<file_size, in_flight, status, data, order, bytes_read, wire>>,
           error => error'
    PROVE  /\ ActiveIsExact' /\ Blocks' /\ Queued' /\ Carried'
           /\ active' \in 0..MaxInflight /\ active' < MaxInflight
           /\ completed' \in [Entry -> BOOLEAN] /\ ~Held(q)'
           /\ Size(data, Good)' \in Nat
           /\ Size(data, Good)' <= Size(data, Good)
           /\ status[q] => /\ Size(data, Good) = Size(data, Good)' + Len(data[q])
                           /\ Len(data[q]) > 0 /\ Len(data[q]) \in Nat
           /\ NoFailure' /\ status[q] => NoFailure
<1>1. TypeOK /\ ActiveIsExact /\ Blocks /\ Queued /\ Carried /\ Credited /\ InOrder /\ Phase
  BY DEF Inv
<1>2. /\ completed' \in [Entry -> BOOLEAN] /\ ~completed'[q]
      /\ \A p \in Entry : p # q => completed'[p] = completed[p]
  BY <1>1 DEF TypeOK
<1>3. ~in_flight[q] /\ Held(q)  BY <1>1 DEF Queued, Held
<1>4. ~Held(q)' /\ \A p \in Entry : p # q => (Held(p)' <=> Held(p))
  BY <1>2, <1>3 DEF Held
<1>5. HeldSet' = HeldSet \ {q}  BY <1>4 DEF HeldSet
<1>6. ActiveIsExact' /\ active > 0
  BY <1>1, <1>3, <1>5, OneLessHeld, SendAssumption DEF TypeOK
<1>7. active' \in 0..MaxInflight /\ active' < MaxInflight
  BY <1>1, <1>6, SendAssumption DEF TypeOK
<1>8. \A p \in Entry : Held(p)' => Held(p)  BY <1>3, <1>4
<1>9. Blocks'  BY <1>1, <1>8 DEF Blocks, IsBlock
<1>10. Queued'  BY <1>1, <1>2 DEF Queued
<1>11. InFlight' = InFlight  BY DEF InFlight
<1>12. Carried'  BY <1>1, <1>11 DEF Carried
<1>13. Good' = Good \ {q}  BY <1>2 DEF Good
<1>14. Good \subseteq Entry /\ \A p \in Good : Held(p)  BY DEF Good, Held
<1>15. Size(data, Good)' = Size(data, Good \ {q})  BY <1>13
<1>16. status[q] => /\ Size(data, Good) = Size(data, Good)' + Len(data[q])
                    /\ Len(data[q]) > 0 /\ Len(data[q]) \in Nat
                    /\ Size(data, Good)' \in Nat
  <2>1. status[q] => q \in Good  BY DEF Good
  <2> QED  BY <1>1, <1>14, <1>15, <2>1, SizeLess
<1>17. ~status[q] => Size(data, Good)' = Size(data, Good) /\ Size(data, Good) \in Nat
  <2> SUFFICES ASSUME ~status[q]
               PROVE Size(data, Good)' = Size(data, Good) /\ Size(data, Good) \in Nat
    OBVIOUS
  <2>1. Good' = Good  BY <1>13 DEF Good
  <2>2. Size(data, Good)' = Size(data, Good)  BY <2>1
  <2>3. Size(data, Good) \in Nat  BY <1>1, GoodSize
  <2> QED  BY <2>2, <2>3
<1>18. Size(data, Good)' \in Nat /\ Size(data, Good)' <= Size(data, Good)
  <2>1. CASE status[q]  BY <1>16, <2>1
  <2>2. CASE ~status[q]  BY <1>17, <2>2
  <2> QED  BY <2>1, <2>2
<1>19. NoFailure' /\ status[q] => NoFailure
  <2> SUFFICES ASSUME NoFailure', status[q] PROVE NoFailure  OBVIOUS
  <2> QED  BY <1>2 DEF NoFailure
<1> QED  BY <1>2, <1>4, <1>6, <1>7, <1>9, <1>10, <1>12, <1>16, <1>18, <1>19

\* A bad status ends the scan.
LEMMA ScanFailsKeeps == ASSUME Inv, ScanFails PROVE Inv'
<1>1. TypeOK /\ Credited /\ Phase /\ scan \in Entry /\ completed[scan] /\ pc = "scan"
  BY SendAssumption DEF Inv, TypeOK, ScanFails, Entry
<1>2. /\ completed' = [completed EXCEPT ![scan] = FALSE] /\ active' = active - 1
      /\ error' = TRUE /\ pc' = "loop"
      /\ UNCHANGED <<file_size, truncated, in_flight, status, data, order, scan,
                     bytes_read, bytes_sent, disk_done, wire, ok>>
  BY DEF ScanFails, Counted
<1>3. /\ ActiveIsExact' /\ Blocks' /\ Queued' /\ Carried' /\ active' \in 0..MaxInflight
      /\ completed' \in [Entry -> BOOLEAN]
      /\ Size(data, Good)' \in Nat /\ Size(data, Good)' <= Size(data, Good)
  BY <1>1, <1>2, CompletionTaken
<1>4. TypeOK'  BY <1>1, <1>2, <1>3 DEF TypeOK
<1>5. Credited'
  <2>1. Size(data, Good) \in Nat  BY <1>1, GoodSize DEF Inv
  <2>2. bytes_sent + Size(data, Good)' <= Len(wire)  BY <1>1, <1>3, <2>1 DEF Credited, TypeOK
  <2> QED  BY <1>2, <2>2 DEF Credited
<1>6. InOrder'  BY <1>2 DEF InOrder, NoFailure
<1>7. Phase'  BY <1>1, <1>2 DEF Phase
<1> QED  BY <1>3, <1>4, <1>5, <1>6, <1>7 DEF Inv

\* A completion is counted while the queue is drained.
LEMMA DrainKeeps == ASSUME Inv, NEW q \in Entry, DrainCounts(q) PROVE Inv'
<1>1. TypeOK /\ Credited /\ Phase /\ completed[q] /\ pc = "drain" /\ error
  BY DEF Inv, Phase, DrainCounts
<1>2. /\ completed' = [completed EXCEPT ![q] = FALSE] /\ active' = active - 1
      /\ UNCHANGED <<pc, file_size, truncated, in_flight, status, data, order, scan,
                     bytes_read, bytes_sent, disk_done, error, wire, ok>>
  BY DEF DrainCounts
<1>3. /\ ActiveIsExact' /\ Blocks' /\ Queued' /\ Carried' /\ active' \in 0..MaxInflight
      /\ completed' \in [Entry -> BOOLEAN]
      /\ Size(data, Good)' \in Nat /\ Size(data, Good)' <= Size(data, Good)
  BY <1>1, <1>2, CompletionTaken
<1>4. TypeOK'  BY <1>1, <1>2, <1>3 DEF TypeOK
<1>5. Credited'
  <2>1. Size(data, Good) \in Nat  BY <1>1, GoodSize DEF Inv
  <2>2. bytes_sent + Size(data, Good)' <= Len(wire)  BY <1>1, <1>3, <2>1 DEF Credited, TypeOK
  <2> QED  BY <1>2, <2>2 DEF Credited
<1>6. InOrder'  BY <1>1, <1>2 DEF InOrder, NoFailure
<1>7. Phase'  BY <1>1, <1>2 DEF Phase
<1> QED  BY <1>3, <1>4, <1>5, <1>6, <1>7 DEF Inv

\* A good completion is credited: bytes_sent does not pass what is on the wire.
LEMMA ScanCreditsKeeps ==
    ASSUME Inv, ScanCredits
    PROVE  Inv' /\ bytes_sent' > bytes_sent /\ bytes_sent' <= Len(wire)
<1>1. /\ TypeOK /\ Credited /\ Carried /\ InOrder /\ Phase
      /\ scan \in Entry /\ completed[scan] /\ pc = "scan" /\ status[scan]
  BY SendAssumption DEF Inv, TypeOK, ScanCredits, Completed, Entry
<1>2. /\ completed' = [completed EXCEPT ![scan] = FALSE] /\ active' = active - 1
      /\ bytes_sent' = bytes_sent + Len(data[scan])
      /\ pc' = (IF disk_done \/ error THEN "scan" ELSE "refill")
      /\ scan' = (IF disk_done \/ error THEN scan + 1 ELSE scan)
      /\ UNCHANGED <<file_size, truncated, in_flight, status, data, order,
                     bytes_read, disk_done, error, wire, ok>>
  BY DEF ScanCredits, Credit
<1>3. /\ ActiveIsExact' /\ Blocks' /\ Queued' /\ Carried'
      /\ active' \in 0..MaxInflight /\ active' < MaxInflight
      /\ completed' \in [Entry -> BOOLEAN] /\ ~(in_flight'[scan] \/ completed'[scan])
      /\ Size(data, Good)' \in Nat
      /\ Size(data, Good) = Size(data, Good)' + Len(data[scan])
      /\ Len(data[scan]) > 0 /\ Len(data[scan]) \in Nat
      /\ NoFailure' => NoFailure
  <2> DEFINE q == scan
  <2>1. PICK r \in Entry : r = scan  BY <1>1
  <2>2. completed[r] /\ completed' = [completed EXCEPT ![r] = FALSE]
        /\ (error => error') /\ status[r]
    BY <1>1, <1>2, <2>1
  <2>3. /\ ActiveIsExact' /\ Blocks' /\ Queued' /\ Carried'
        /\ active' \in 0..MaxInflight /\ active' < MaxInflight
        /\ completed' \in [Entry -> BOOLEAN] /\ ~Held(r)'
        /\ Size(data, Good)' \in Nat
        /\ Size(data, Good) = Size(data, Good)' + Len(data[r])
        /\ Len(data[r]) > 0 /\ Len(data[r]) \in Nat
        /\ NoFailure' => NoFailure
    BY <1>2, <2>2, CompletionTaken
  <2> QED  BY <2>1, <2>3 DEF Held
<1>4. bytes_sent' + Size(data, Good)' <= Len(wire) /\ Len(wire) \in Nat
  <2>1. bytes_sent + Size(data, Good) <= Len(wire) /\ bytes_sent \in Nat /\ Len(wire) \in Nat
    BY <1>1 DEF Credited, TypeOK
  <2>2. \A x \in Nat, y \in Nat, u \in Nat, z \in Nat :
            u = x + y /\ z + u <= Len(wire) => z + y + x <= Len(wire)
    BY <2>1
  <2>3. Size(data, Good) \in Nat  BY <1>3
  <2>4. bytes_sent + Len(data[scan]) + Size(data, Good)' <= Len(wire)
    BY <1>3, <2>1, <2>2, <2>3
  <2> QED  BY <1>2, <2>1, <2>4
<1>5. Credited'  BY <1>2, <1>4 DEF Credited
<1>6. Len(wire) <= bytes_read
  <2>1. CASE InFlight = {}  BY <1>1, <2>1, SizeOfNone DEF Carried, TypeOK
  <2>2. CASE InFlight # {}
    <3>1. PICK p \in InFlight : TRUE  BY <2>2
    <3>2. InFlight \subseteq Entry /\ \A r \in InFlight : Held(r)  BY DEF InFlight, Held
    <3>3. /\ Size(data, InFlight) = Size(data, InFlight \ {p}) + Len(data[p])
          /\ Size(data, InFlight \ {p}) \in Nat /\ Len(data[p]) \in Nat
      BY <1>1, <3>1, <3>2, SizeLess DEF Inv
    <3> QED  BY <1>1, <1>4, <3>3 DEF Carried, TypeOK
  <2> QED  BY <2>1, <2>2
<1>7. bytes_sent' \in 0..bytes_read /\ bytes_sent' > bytes_sent /\ bytes_sent' <= Len(wire)
  <2>1. bytes_sent \in Nat /\ bytes_read \in Nat  BY <1>1 DEF TypeOK
  <2>2. bytes_sent' = bytes_sent + Len(data[scan]) /\ Len(data[scan]) \in Nat /\ Len(data[scan]) > 0
    BY <1>2, <1>3
  <2>3. bytes_sent' \in Nat /\ bytes_sent' > bytes_sent  BY <2>1, <2>2
  <2>4. bytes_sent' <= Len(wire)  BY <1>3, <1>4, <2>3
  <2> QED  BY <1>4, <1>6, <2>1, <2>3, <2>4
<1>8. scan' \in 0..Depth  BY <1>1, <1>2, SendAssumption DEF Entry
<1>9. TypeOK'  BY <1>1, <1>2, <1>3, <1>7, <1>8 DEF TypeOK
<1>10. InOrder'  BY <1>1, <1>2, <1>3 DEF InOrder
<1>11. Phase'
  <2>1. CASE pc' = "scan"  BY <1>1, <1>2, <2>1 DEF Phase
  <2>2. CASE pc' = "refill"
    <3>1. scan' = scan /\ scan' < Depth  BY <1>1, <1>2, <2>2, SendAssumption DEF Entry
    <3>2. ~(in_flight'[scan'] \/ completed'[scan'])  BY <1>3, <3>1
    <3> QED  BY <1>1, <1>2, <1>3, <2>2, <3>1, <3>2 DEF Phase, Held
  <2> QED  BY <1>2, <2>1, <2>2
<1> QED  BY <1>3, <1>5, <1>7, <1>9, <1>10, <1>11 DEF Inv

\* The two callers of submit_next hand it an entry nobody holds.
LEMMA PrimeKeeps == ASSUME Inv, Prime PROVE Inv'
<1>1. TypeOK /\ Phase /\ pc = "prime" /\ scan < MaxInflight /\ scan \in Entry
      /\ scan \in Nat /\ MaxInflight \in Nat /\ active \in Nat
  BY SendAssumption DEF Inv, Prime, Primes, TypeOK, Entry
<1>2. ~Held(scan) /\ active <= scan /\ \A p \in Entry : p >= scan => ~Held(p)  BY <1>1 DEF Phase
<1>3. active < MaxInflight  BY <1>1, <1>2
<1>4. scan' = scan + 1 /\ scan' \in 0..Depth /\ scan' <= MaxInflight /\ pc' = "prime"
      /\ UNCHANGED <<file_size, bytes_sent, wire, ok>> /\ SubmitNext(scan)
  BY <1>1, SendAssumption DEF Prime
<1>5. PICK r \in Entry : r = scan  BY <1>1
<1>6. Submitted(r)  BY <1>2, <1>3, <1>4, <1>5, SubmitNextKeeps
<1>7. /\ TypeOK' /\ active' <= active + 1
      /\ \A p \in Entry : p # scan => (Held(p)' <=> Held(p))
  BY <1>5, <1>6 DEF Submitted
<1>8. \A p \in Entry : p >= scan' => ~Held(p)'
  BY <1>1, <1>2, <1>4, <1>7 DEF Entry
<1>9. active' <= scan'  BY <1>1, <1>2, <1>4, <1>7 DEF TypeOK
<1>10. ok' = ok /\ ~ok  BY <1>1, <1>4 DEF Phase
<1>11. Phase'  BY <1>4, <1>8, <1>9, <1>10 DEF Phase
<1> QED  BY <1>6, <1>11 DEF Inv, Submitted

\* Refilling as it scans.
LEMMA RefillKeeps == ASSUME Inv, Refill PROVE Inv'
<1>1. TypeOK /\ Phase /\ pc = "refill" /\ scan < Depth /\ ~Held(scan) /\ active < MaxInflight
  BY DEF Inv, Refill, Phase
<1>2. scan \in Entry /\ scan' = scan + 1 /\ scan' \in 0..Depth /\ pc' = "scan"
      /\ UNCHANGED <<file_size, bytes_sent, wire, ok>> /\ SubmitNext(scan)
  BY <1>1, SendAssumption DEF Refill, TypeOK, Entry
<1>3. PICK r \in Entry : r = scan  BY <1>2
<1>4. Submitted(r)  BY <1>1, <1>2, <1>3, SubmitNextKeeps
<1>5. Phase'  BY <1>1, <1>2 DEF Phase
<1> QED  BY <1>4, <1>5 DEF Inv, Submitted

\* The steps that only move the control point, and the report at the end.
LEMMA ControlKeeps ==
    ASSUME Inv,
           \/ SendHeader \/ HeaderFails \/ Primed \/ HandleEvents \/ EventsHandled
           \/ ScanSkips \/ ScanEnds \/ LeaveLoop \/ Drained \/ Finish \/ UNCHANGED vars
    PROVE  Inv'
<1>1. TypeOK /\ Phase  BY DEF Inv
<1>2. UNCHANGED <<file_size, truncated, xfrs, order, sums, error, wire>>
  BY DEF SendHeader, HeaderFails, Primed, HandleEvents, EventsHandled, ScanSkips, ScanEnds,
         LeaveLoop, Drained, Finish, vars
<1>3. ActiveIsExact' /\ Blocks' /\ Queued' /\ Carried' /\ Credited' /\ InOrder'
  BY <1>2, BooksKept DEF sums
<1>4. UNCHANGED <<file_size, truncated, in_flight, completed, status, data, order, bytes_read,
                  bytes_sent, active, disk_done, error, wire>>
      /\ (\A q \in Entry : Held(q)' <=> Held(q))
  BY <1>2 DEF xfrs, sums, Held
<1>5. ASSUME UNCHANGED ok, scan' \in 0..Depth,
             pc' \in {"prime", "loop", "events", "scan", "drain", "free", "done"},
             pc' = "prime" => pc = "header" /\ scan' = 0,
             pc' = "drain" => error, pc' = "free" => error \/ active = 0, pc # "done"
      PROVE  Inv'
  <2>1. TypeOK'  BY <1>1, <1>4, <1>5 DEF TypeOK
  <2>2. Phase'  BY <1>1, <1>4, <1>5, SendAssumption DEF Phase, TypeOK
  <2> QED  BY <1>3, <2>1, <2>2 DEF Inv
<1>6. scan \in 0..Depth /\ 0 \in 0..Depth  BY <1>1, SendAssumption DEF TypeOK
<1>7. CASE SendHeader  BY <1>5, <1>6, <1>7 DEF SendHeader
<1>8. CASE HeaderFails  BY <1>5, <1>6, <1>8 DEF HeaderFails
<1>9. CASE Primed  BY <1>5, <1>6, <1>9 DEF Primed
<1>10. CASE HandleEvents  BY <1>5, <1>6, <1>10 DEF HandleEvents
<1>11. CASE EventsHandled  BY <1>5, <1>6, <1>11 DEF EventsHandled
<1>12. CASE ScanSkips
  <2>1. scan + 1 \in 0..Depth  BY <1>6, <1>12, SendAssumption DEF ScanSkips
  <2> QED  BY <1>5, <1>12, <2>1 DEF ScanSkips
<1>13. CASE ScanEnds  BY <1>5, <1>6, <1>13 DEF ScanEnds
<1>14. CASE LeaveLoop
  <2>1. active <= 0 => active = 0  BY <1>1, SendAssumption DEF TypeOK
  <2> QED  BY <1>5, <1>6, <1>14, <2>1 DEF LeaveLoop
<1>15. CASE Drained
  <2>1. error  BY <1>1, <1>15 DEF Drained, Phase
  <2> QED  BY <1>5, <1>6, <1>15, <2>1 DEF Drained
<1>16. CASE Finish
  <2>1. pc' = "done" /\ ok' \in BOOLEAN /\ scan' = scan  BY <1>16 DEF Finish
  <2>2. TypeOK'  BY <1>1, <1>4, <2>1 DEF TypeOK
  <2>3. Phase'  BY <2>1 DEF Phase
  <2> QED  BY <1>3, <2>2, <2>3 DEF Inv
<1>17. CASE UNCHANGED vars
  <2>1. TypeOK'  BY <1>1, <1>4, <1>17 DEF TypeOK, vars
  <2>2. pc' = pc /\ scan' = scan /\ ok' = ok  BY <1>17 DEF vars
  <2>3. Phase'  BY <1>1, <1>4, <2>2 DEF Phase, Held
  <2> QED  BY <1>3, <2>1, <2>3 DEF Inv
<1> QED  BY <1>7, <1>8, <1>9, <1>10, <1>11, <1>12, <1>13, <1>14, <1>15, <1>16, <1>17

\* The books hold at the start.
LEMMA InitInv == Init => Inv
<1> SUFFICES ASSUME Init PROVE Inv  OBVIOUS
<1>1. \A q \in Entry : ~Held(q)  BY DEF Init, Held
<1>2. << >> \in Seq(1..file_size) /\ << >> \in Seq(Entry) /\ Len(<< >>) = 0 /\ << >> \in Seq(Nat)
  BY EmptySeq
<1>3. TypeOK
  <2>1. \A q \in Entry : data[q] \in Seq(1..file_size) /\ Len(data[q]) <= Chunk
    BY <1>2, SendAssumption DEF Init
  <2>2. file_size \in Nat /\ 0 \in 0..file_size /\ 0 \in 0..MaxInflight
        /\ 0 \in 0..Depth /\ 0 \in 0..0
    BY SendAssumption DEF Init
  <2> QED  BY <1>2, <2>1, <2>2 DEF Init, TypeOK
<1>4. ActiveIsExact
  <2>1. HeldSet = {}  BY <1>1 DEF HeldSet
  <2> QED  BY <2>1, FS_EmptySet DEF Init, ActiveIsExact, HeldSet, Held
<1>5. Blocks  BY <1>1, <1>2 DEF Init, Blocks
<1>6. Queued  BY <1>2 DEF Init, Queued
<1>7. Carried /\ Credited
  <2>1. InFlight = {} /\ Good = {}  BY DEF Init, InFlight, Good
  <2> QED  BY <1>2, <2>1, SizeOfNone DEF Init, Carried, Credited
<1>8. InOrder
  <2>1. wire = Units(0, Len(wire))
    <3>1. Units(0, 0) = << >>  BY DEF Units
    <3> QED  BY <1>2, <3>1 DEF Init
  <2>2. Follows(0, data, << >>, 0)  BY <1>2 DEF Follows, Before
  <2> QED  BY <1>2, <2>1, <2>2 DEF Init, InOrder
<1>9. Phase  BY <1>1, SendAssumption DEF Init, Phase
<1> QED  BY <1>3, <1>4, <1>5, <1>6, <1>7, <1>8, <1>9 DEF Inv

\* Every step of the thread or of libusb keeps the books.
LEMMA NextInv == Inv /\ [Next]_vars => Inv'
<1> SUFFICES ASSUME Inv, [Next]_vars PROVE Inv'  OBVIOUS
<1>1. CASE SendHeader \/ HeaderFails \/ Primed \/ HandleEvents \/ EventsHandled
           \/ ScanSkips \/ ScanEnds \/ LeaveLoop \/ Drained \/ Finish \/ UNCHANGED vars
  BY <1>1, ControlKeeps
<1>2. CASE Prime  BY <1>2, PrimeKeeps
<1>3. CASE Refill  BY <1>3, RefillKeeps
<1>4. CASE Sent  BY <1>4, SentKeeps
<1>5. ASSUME NEW i \in 1..Depth, NEW n \in 0..Chunk, SendBreaks(i, n) PROVE Inv'
  BY <1>5, SendBreaksKeeps
<1>6. CASE ScanFails  BY <1>6, ScanFailsKeeps
<1>7. CASE ScanCredits  BY <1>7, ScanCreditsKeeps
<1>8. ASSUME NEW q \in Entry, DrainCounts(q) PROVE Inv'  BY <1>8, DrainKeeps
<1> QED
  BY <1>1, <1>2, <1>3, <1>4, <1>5, <1>6, <1>7, <1>8 DEF Next, Send, Usb, Returned

\* The queue's types and books, in every reachable state: active counts exactly what
\* libusb holds or has given back, so nothing is freed under a transfer in flight.
THEOREM SendQueueOK == Spec => []QueueOK
<1>1. Inv => QueueOK  BY DEF Inv, QueueOK
<1> QED  BY InitInv, NextInv, <1>1, PTL DEF Spec

-----------------------------------------------------------------------------
(* The queue is a FileTransfer.                                            *)

\* What was on the wire stays there, and what is put there comes behind it.
LEMMA Appended ==
    ASSUME NEW S, NEW s \in Seq(S), NEW t \in Seq(S)
    PROVE  Transfer!IsPrefix(s, s \o t) /\ Len(s \o t) >= Len(s)
<1>1. s \o t \in Seq(S) /\ Len(s \o t) = Len(s) + Len(t)
      /\ \A i \in 1 .. Len(s) + Len(t) : (s \o t)[i] = IF i <= Len(s) THEN s[i] ELSE t[i - Len(s)]
  BY ConcatProperties
<1>2. Len(s) \in Nat /\ Len(t) \in Nat  BY LenProperties
<1> QED  BY <1>1, <1>2 DEF Transfer!IsPrefix

\* A step of the queue that adds t to the wire is a Move.
LEMMA MoveStep ==
    ASSUME Inv, NEW S, wire \in Seq(S), NEW t \in Seq(S), wire' = wire \o t,
           pc # "done", pc' # "done", UNCHANGED <<file_size, bytes_sent>>
    PROVE  Transfer!Move
<1>1. Transfer!IsPrefix(wire, wire') /\ Len(wire') >= Len(wire)  BY Appended
<1> QED  BY <1>1 DEF Transfer!Move, Transfer!Running

\* A success leaves the whole file on the wire.
LEMMA SuccessIsComplete ==
    ASSUME Inv, pc = "free", ~error, bytes_sent = file_size
    PROVE  wire = Transfer!File(file_size)
<1>1. TypeOK /\ ActiveIsExact /\ Blocks /\ Queued /\ Carried /\ Credited /\ InOrder /\ active = 0
  BY DEF Inv, Phase
<1>2. \A q \in Entry : ~Held(q)
  <2>1. HeldSet \subseteq Entry /\ IsFiniteSet(HeldSet) /\ Cardinality(HeldSet) = 0
    BY <1>1, EntriesFinite DEF HeldSet, ActiveIsExact, Held
  <2>2. HeldSet = {}  BY <2>1, FS_EmptySet
  <2> QED  BY <2>2 DEF HeldSet
<1>3. NoFailure  BY <1>2 DEF NoFailure, Held
<1>4. Len(order) = 0
  <2>1. \A i \in 1..Len(order) : order[i] \in Entry  BY <1>1 DEF TypeOK
  <2>2. \A i \in 1..Len(order) : FALSE  BY <1>1, <1>2, <2>1 DEF Queued, Held
  <2>3. Len(order) \in Nat  BY <1>1 DEF TypeOK
  <2> QED  BY <2>2, <2>3
<1>5. wire = Units(0, Len(wire)) /\ bytes_read = Len(wire)
  BY <1>1, <1>3, <1>4 DEF InOrder, Follows, Before
<1>6. Len(wire) = file_size
  <2>1. file_size \in Nat /\ bytes_read <= file_size /\ bytes_sent <= bytes_read
        /\ bytes_read \in Nat
    BY <1>1 DEF TypeOK
  <2> QED  BY <1>5, <2>1
<1>7. file_size \in Nat  BY <1>1 DEF TypeOK
<1>8. Units(0, file_size) = [i \in 1..file_size |-> i]
  <2>1. \A i \in 1..file_size : 0 + i = i  BY <1>7
  <2> QED  BY <2>1 DEF Units
<1> QED  BY <1>5, <1>6, <1>8 DEF Transfer!File

\* Each step is a step of the transfer or changes nothing it speaks of.
LEMMA StepImplements == Inv /\ [Next]_vars => [Transfer!Next]_Transfer!vars
<1> SUFFICES ASSUME Inv, [Next]_vars PROVE [Transfer!Next]_Transfer!vars  OBVIOUS
<1>1. TypeOK /\ Phase /\ Credited  BY DEF Inv
<1>2. ASSUME UNCHANGED <<file_size, wire, bytes_sent>>,
             (pc = "done" /\ pc' = "done" /\ ok' = ok) \/ (pc # "done" /\ pc' # "done")
      PROVE  UNCHANGED Transfer!vars
  BY <1>2 DEF Transfer!vars
<1>3. CASE SendHeader \/ Primed \/ HandleEvents \/ EventsHandled \/ ScanSkips \/ ScanEnds
           \/ LeaveLoop \/ Drained \/ Prime \/ Refill \/ ScanFails
  <2>1. UNCHANGED <<file_size, wire, bytes_sent>> /\ pc # "done" /\ pc' # "done"
    BY <1>3 DEF SendHeader, Primed, HandleEvents, EventsHandled, ScanSkips, ScanEnds,
                LeaveLoop, Drained, Prime, Refill, ScanFails, sums
  <2> QED  BY <1>2, <2>1
<1>4. CASE \E q \in Entry : DrainCounts(q)
  <2>1. UNCHANGED <<file_size, wire, bytes_sent>> /\ pc # "done" /\ pc' # "done"
    BY <1>4 DEF DrainCounts
  <2> QED  BY <1>2, <2>1
<1>5. CASE HeaderFails
  <2>1. pc = "header" /\ pc' = "done" /\ UNCHANGED <<file_size, wire, bytes_sent, ok>> /\ ~ok
    BY <1>1, <1>5 DEF HeaderFails, sums, Phase
  <2>2. Transfer!Fail  BY <2>1 DEF Transfer!Fail, Transfer!Running
  <2> QED  BY <2>2 DEF Transfer!Next
<1>6. CASE Sent
  <2>1. pc # "done" /\ pc' # "done" /\ UNCHANGED <<file_size, bytes_sent>>
    BY <1>6 DEF Sent, HandlingEvents, sums
  <2>2. order[1] \in Entry /\ wire' = wire \o data[order[1]]
    BY <1>1, <1>6 DEF TypeOK, Sent
  <2>3. wire \in Seq(1..file_size) /\ data[order[1]] \in Seq(1..file_size)
    BY <1>1, <2>2 DEF TypeOK
  <2>4. Transfer!Move  BY <2>1, <2>2, <2>3, MoveStep
  <2> QED  BY <2>4 DEF Transfer!Next
<1>7. CASE \E i \in 1..Depth : \E n \in 0..Chunk : SendBreaks(i, n)
  <2>1. PICK i \in 1..Depth, n \in 0..Chunk : SendBreaks(i, n)  BY <1>7
  <2> DEFINE q == order[i]
             t == SubSeq(data[q], 1, n)
  <2>2. pc # "done" /\ pc' # "done" /\ UNCHANGED <<file_size, bytes_sent>>
        /\ i \in 1..Len(order) /\ wire' = wire \o t
        /\ n \in 0 .. (IF i = 1 THEN Len(data[q]) ELSE 0)
    BY <2>1 DEF SendBreaks, HandlingEvents, sums
  <2>3. q \in Entry  BY <1>1, <2>2 DEF TypeOK
  <2>4. wire \in Seq(1..file_size) /\ data[q] \in Seq(1..file_size)
    BY <1>1, <2>3 DEF TypeOK
  <2> HIDE DEF q
  <2>5. \A j \in 1..n : data[q][j] \in 1..file_size
    <3>1. \A j \in 1..n : j \in 1..Len(data[q])  BY <2>2, <2>4
    <3> QED  BY <2>4, <3>1, ElementOfSeq
  <2>6. t \in Seq(1..file_size)  BY <2>2, <2>5, SubSeqProperties
  <2> HIDE DEF t
  <2>7. Transfer!Move  BY <2>2, <2>4, <2>6, MoveStep
  <2> QED  BY <2>7 DEF Transfer!Next
<1>8. CASE ScanCredits
  <2>1. bytes_sent' > bytes_sent /\ bytes_sent' <= Len(wire)  BY <1>8, ScanCreditsKeeps
  <2>2. pc # "done" /\ pc' # "done" /\ UNCHANGED <<file_size, wire>>
    BY <1>8 DEF ScanCredits
  <2>4. Transfer!Count  BY <2>1, <2>2 DEF Transfer!Count, Transfer!Running
  <2> QED  BY <2>4 DEF Transfer!Next
<1>9. CASE Finish
  <2>1. /\ pc = "free" /\ pc' = "done" /\ ok' = (~error /\ bytes_sent = file_size)
        /\ UNCHANGED <<file_size, wire, bytes_sent>>
    BY <1>9 DEF Finish, sums
  <2>2. CASE ~error /\ bytes_sent = file_size
    <3>1. wire = Transfer!File(file_size)  BY <2>1, <2>2, SuccessIsComplete
    <3>2. Transfer!Succeed  BY <2>1, <2>2, <3>1 DEF Transfer!Succeed, Transfer!Running
    <3> QED  BY <3>2 DEF Transfer!Next
  <2>3. CASE ~(~error /\ bytes_sent = file_size)
    <3>1. Transfer!Fail  BY <2>1, <2>3 DEF Transfer!Fail, Transfer!Running
    <3> QED  BY <3>1 DEF Transfer!Next
  <2> QED  BY <2>2, <2>3
<1>10. CASE UNCHANGED vars \/ Returned
  BY <1>2, <1>10 DEF Returned, vars, sums
<1> QED
  BY <1>3, <1>4, <1>5, <1>6, <1>7, <1>8, <1>9, <1>10 DEF Next, Send, Usb

\* send_file_core is a FileTransfer: however completions are batched and entries reused,
\* progress never passes what the fabric has taken, and a success has put every unit of
\* the file on the wire once and in order.
THEOREM SendImplementsTransfer == Spec => ImplementsTransfer
<1>1. Init => Transfer!Init
  <2> SUFFICES ASSUME Init PROVE Transfer!Init  OBVIOUS
  <2>1. Len(wire) = 0  BY EmptySeq DEF Init
  <2> QED  BY <2>1 DEF Init, Transfer!Init
<1> QED
  BY InitInv, NextInv, StepImplements, <1>1, PTL DEF Spec, ImplementsTransfer, Transfer!Spec
=============================================================================
