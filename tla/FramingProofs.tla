---------------------------- MODULE FramingProofs ----------------------------
(***************************************************************************)
(* Proofs about read_frame, for every size of a byte, every cap, every     *)
(* timeout and however the bytes are cut up and delayed on their way.      *)
(***************************************************************************)
EXTENDS Framing, SequenceTheorems, TLAPS

-----------------------------------------------------------------------------
(* The inductive invariant *)

Types ==
    /\ announced \in Lengths
    /\ body \in Seq(Bytes) /\ unsent \in Seq(Bytes) /\ wire \in Seq(Bytes) /\ buf \in Seq(Bytes)
    /\ pc \in {"len", "body", "ok", "err"}
    /\ alloc \in Nat /\ waited \in 0..IoTimeout /\ elapsed \in Nat

\* What has not been consumed by an earlier read_exact.
Pending == buf \o (wire \o unsent)

\* What the bytes on their way are, in each step of read_frame.
Position ==
    /\ pc = "len" => Len(buf) < PrefixLen /\ Pending = to_be_bytes(announced) \o body
    /\ pc = "body" => /\ alloc = announced /\ alloc <= MaxBody
                      /\ Len(buf) < alloc /\ Pending = body
    /\ pc = "ok" => Len(buf) = announced /\ Pending = body
    /\ pc = "err" => announced > MaxBody \/ closed \/ waited >= IoTimeout

\* Bytes read so far: every one of them may have taken the whole timeout.
Taken == IF pc = "len" THEN Len(buf) ELSE PrefixLen + Len(buf)
Time ==
    /\ Reading => elapsed <= Taken * IoTimeout + waited
    /\ elapsed <= (PrefixLen + MaxBody) * IoTimeout

FInv == Types /\ Position /\ Time

-----------------------------------------------------------------------------
(* The length prefix *)

\* Division with remainder.
LEMMA DivMod ==
  ASSUME NEW n \in Nat
  PROVE  /\ Shift(n) \in Nat /\ n % Base \in Bytes
         /\ n = Shift(n) * Base + (n % Base)
  BY FrameAssumption DEF Shift, Bytes

\* A shift takes one digit off.
LEMMA ShiftBound ==
  ASSUME NEW n \in Nat, NEW m \in Nat, n < m * Base
  PROVE  Shift(n) < m
  <1>1. Shift(n) \in Nat /\ n % Base \in 0..(Base - 1) /\ n = Shift(n) * Base + (n % Base) /\ Base \in Nat
    BY DivMod, FrameAssumption DEF Bytes
  <1>2. ASSUME NEW k \in Nat, k >= m PROVE k * Base >= m * Base
    BY <1>1, <1>2
  <1>3. Shift(n) >= m => Shift(n) * Base >= m * Base
    BY <1>1, <1>2
  <1>4. m * Base \in Nat /\ Shift(n) * Base \in Nat
    BY <1>1
  <1> QED BY <1>1, <1>3, <1>4

\* A single digit is its own remainder.
LEMMA DigitMod ==
  ASSUME NEW n \in Nat, n < Base
  PROVE  n % Base = n /\ n \in Bytes
  <1>1. Base \in Nat /\ Base > 1
    BY FrameAssumption
  <1>2. Shift(n) < 1
    BY <1>1, ShiftBound
  <1>3. Shift(n) = 0 /\ n % Base \in Bytes /\ n = Shift(n) * Base + (n % Base)
    BY <1>2, DivMod
  <1> QED BY <1>1, <1>3 DEF Bytes

\* u32::from_be_bytes undoes u32::to_be_bytes.
LEMMA PrefixRoundTrips ==
  ASSUME NEW n \in Lengths
  PROVE  /\ to_be_bytes(n) \in Seq(Bytes) /\ Len(to_be_bytes(n)) = PrefixLen
         /\ from_be_bytes(to_be_bytes(n)) = n
  <1> DEFINE n1 == Shift(n)
             n2 == Shift(n1)
             n3 == Shift(n2)
  <1>0. n \in Nat /\ n < Base * Base * Base * Base /\ Base \in Nat
    BY FrameAssumption DEF Lengths, MaxLength
  <1>1. n1 \in Nat /\ n % Base \in Bytes /\ n = n1 * Base + (n % Base)
    BY <1>0, DivMod
  <1>2. n2 \in Nat /\ n1 % Base \in Bytes /\ n1 = n2 * Base + (n1 % Base)
    BY <1>1, DivMod
  <1>3. n3 \in Nat /\ n2 % Base \in Bytes /\ n2 = n3 * Base + (n2 % Base)
    BY <1>2, DivMod
  <1>4. n3 < Base
    <2>0. Base * Base \in Nat /\ Base * Base * Base \in Nat
      BY <1>0
    <2>1. n1 < Base * Base * Base
      BY <1>0, <2>0, ShiftBound
    <2>2. n2 < Base * Base
      BY <1>0, <1>1, <2>0, <2>1, ShiftBound
    <2> QED BY <1>0, <1>2, <2>2, ShiftBound
  <1>5. n3 % Base = n3 /\ n3 \in Bytes
    BY <1>3, <1>4, DigitMod
  <1>6. to_be_bytes(n) = <<n3, n2 % Base, n1 % Base, n % Base>>
    BY <1>5 DEF to_be_bytes
  <1> HIDE DEF n1, n2, n3
  <1>7. from_be_bytes(<<n3, n2 % Base, n1 % Base, n % Base>>) = n
    BY <1>1, <1>2, <1>3 DEF from_be_bytes
  <1> QED BY <1>1, <1>2, <1>3, <1>5, <1>6, <1>7 DEF PrefixLen

-----------------------------------------------------------------------------
(* Bytes on their way *)

\* Two ways to cut a sequence at the same place are one.
LEMMA CutOnce ==
  ASSUME NEW a \in Seq(Bytes), NEW b \in Seq(Bytes), NEW c \in Seq(Bytes), NEW d \in Seq(Bytes),
         Len(a) = Len(c), a \o b = c \o d
  PROVE  a = c /\ b = d
  <1>1. \A i \in 1..Len(a) : a[i] = (a \o b)[i] /\ c[i] = (c \o d)[i]
    OBVIOUS
  <1>2. a = c
    BY <1>1, SeqEqual
  <1>3. b = d
    BY <1>2, ConcatSimplifications
  <1> QED BY <1>2, <1>3

\* Concatenation is associative.
LEMMA Associative ==
  ASSUME NEW x \in Seq(Bytes), NEW y \in Seq(Bytes), NEW z \in Seq(Bytes)
  PROVE  (x \o y) \o z = x \o (y \o z)
  <1> DEFINE l == (x \o y) \o z
             r == x \o (y \o z)
  <1>1. /\ l \in Seq(Bytes) /\ r \in Seq(Bytes)
        /\ Len(l) = Len(r) /\ Len(l) = Len(x) + Len(y) + Len(z)
    OBVIOUS
  <1>2. \A i \in 1..Len(l) : l[i] = r[i]
    OBVIOUS
  <1> QED BY <1>1, <1>2, SeqEqual

\* A read takes bytes off the wire and puts them behind those it has.
LEMMA ReadMoves ==
  ASSUME NEW b \in Seq(Bytes), NEW w \in Seq(Bytes), NEW u \in Seq(Bytes), NEW k \in 1..Len(w)
  PROVE  /\ SubSeq(w, 1, k) \in Seq(Bytes) /\ SubSeq(w, k + 1, Len(w)) \in Seq(Bytes)
         /\ b \o SubSeq(w, 1, k) \in Seq(Bytes)
         /\ Len(b \o SubSeq(w, 1, k)) = Len(b) + k
         /\ (b \o SubSeq(w, 1, k)) \o (SubSeq(w, k + 1, Len(w)) \o u) = b \o (w \o u)
  <1> DEFINE x == SubSeq(w, 1, k)
             y == SubSeq(w, k + 1, Len(w))
  <1>1. x \in Seq(Bytes) /\ y \in Seq(Bytes) /\ Len(x) = k
    OBVIOUS
  <1>2. x \o y = w
    <2>1. x \o y = SubSeq(w, 1, Len(w))
      BY ConcatAdjacentSubSeq
    <2> QED BY <2>1, SubSeqFull
  <1> HIDE DEF x, y
  <1>3. (b \o x) \o (y \o u) = b \o (x \o (y \o u))
    <2>1. y \o u \in Seq(Bytes)
      BY <1>1, ConcatProperties
    <2> QED BY <1>1, <2>1, Associative
  <1>4. (x \o y) \o u = x \o (y \o u)
    BY <1>1, Associative, Zenon
  <1>5. b \o x \in Seq(Bytes) /\ Len(b \o x) = Len(b) + Len(x)
    BY <1>1, ConcatProperties
  <1> QED BY <1>1, <1>2, <1>3, <1>4, <1>5 DEF x, y

\* A byte that is sent goes from the peer to the wire.
LEMMA SendMoves ==
  ASSUME NEW w \in Seq(Bytes), NEW u \in Seq(Bytes), u # <<>>
  PROVE  /\ Append(w, Head(u)) \in Seq(Bytes) /\ Tail(u) \in Seq(Bytes)
         /\ Append(w, Head(u)) \o Tail(u) = w \o u
  <1> DEFINE x == Append(w, Head(u)) \o Tail(u)
  <1>1. Head(u) \in Bytes /\ Append(w, Head(u)) \in Seq(Bytes) /\ Tail(u) \in Seq(Bytes)
    OBVIOUS
  <1>2. x \in Seq(Bytes) /\ w \o u \in Seq(Bytes) /\ Len(x) = Len(w) + Len(u)
    OBVIOUS
  <1>3. \A i \in 1..Len(x) : x[i] = (w \o u)[i]
    OBVIOUS
  <1>4. x = w \o u
    BY <1>2, <1>3, SeqEqual, Len(w \o u) = Len(w) + Len(u)
  <1> QED BY <1>1, <1>4

-----------------------------------------------------------------------------
(* The steps *)

\* The products in the bound, and that they grow with their factors.
LEMMA Products ==
  /\ IoTimeout \in Nat \ {0} /\ MaxBody \in Nat /\ PrefixLen + MaxBody \in Nat
  /\ \A m, n \in Nat : m * IoTimeout \in Nat /\ (m <= n => m * IoTimeout <= n * IoTimeout)
  /\ \A m \in Nat : (m + 1) * IoTimeout = m * IoTimeout + IoTimeout
  <1>1. IoTimeout \in Nat \ {0} /\ MaxBody \in Nat /\ PrefixLen + MaxBody \in Nat
    BY FrameAssumption DEF PrefixLen
  <1>2. ASSUME NEW m \in Nat, NEW n \in Nat
        PROVE  m * IoTimeout \in Nat /\ (m <= n => m * IoTimeout <= n * IoTimeout)
    <2>1. m * IoTimeout \in Nat
      BY <1>1
    <2>2. ASSUME m <= n PROVE m * IoTimeout <= n * IoTimeout
      <3>1. n - m \in Nat /\ (n - m) * IoTimeout \in Nat
        BY <1>1, <2>2
      <3>2. n * IoTimeout = m * IoTimeout + (n - m) * IoTimeout
        BY <1>1
      <3> QED BY <1>1, <2>1, <3>1, <3>2
    <2> QED BY <2>1, <2>2
  <1>3. \A m \in Nat : (m + 1) * IoTimeout = m * IoTimeout + IoTimeout
    BY <1>1
  <1> QED BY <1>1, <1>2, <1>3

\* Reading is never as far as the end of the largest frame.
LEMMA TakenBound ==
  ASSUME FInv, Reading
  PROVE  Taken \in Nat /\ Taken + 1 <= PrefixLen + MaxBody
  BY FrameAssumption DEF FInv, Types, Position, Reading, Taken, PrefixLen

\* A read with something to read takes the current wait into the account of
\* the bytes it gets.
LEMMA ReadPays ==
  ASSUME FInv, Reading, NEW k \in Nat \ {0}
  PROVE  elapsed <= (Taken + k) * IoTimeout
  <1>1. /\ Taken \in Nat /\ elapsed \in Nat /\ waited \in 0..IoTimeout
        /\ elapsed <= Taken * IoTimeout + waited
    BY TakenBound DEF FInv, Types, Time
  <1>2. (Taken + 1) * IoTimeout <= (Taken + k) * IoTimeout
    BY <1>1, Products
  <1>3. Taken * IoTimeout \in Nat /\ (Taken + k) * IoTimeout \in Nat
    BY <1>1, Products
  <1> QED BY <1>1, <1>2, <1>3, Products

\* One call of read: it leaves read_exact where it was, or ends it; the length is
\* then the one announced and what is left is the body.
LEMMA ReadStep ==
  ASSUME FInv, Read
  PROVE  FInv'
  <1>1. PICK k \in 1..Len(wire) :
           /\ Len(buf) + k <= Want
           /\ wire' = SubSeq(wire, k + 1, Len(wire))
           /\ LET bytes == buf \o SubSeq(wire, 1, k)
              IN  IF Len(bytes) = Want THEN Complete(bytes)
                  ELSE buf' = bytes /\ UNCHANGED <<pc, alloc>>
    BY DEF Read
  <1> DEFINE bytes == buf \o SubSeq(wire, 1, k)
  <1>2. /\ Reading /\ waited' = 0 /\ waited \in 0..IoTimeout
        /\ UNCHANGED <<announced, body, unsent, closed, elapsed>>
        /\ announced \in Lengths /\ body \in Seq(Bytes) /\ unsent \in Seq(Bytes)
        /\ wire \in Seq(Bytes) /\ buf \in Seq(Bytes)
        /\ alloc \in Nat /\ elapsed \in Nat
    BY DEF Read, peer, FInv, Types
  <1>3. /\ wire' \in Seq(Bytes) /\ bytes \in Seq(Bytes)
        /\ Len(bytes) = Len(buf) + k
        /\ bytes \o (wire' \o unsent') = Pending
    <2>1. /\ SubSeq(wire, k + 1, Len(wire)) \in Seq(Bytes) /\ bytes \in Seq(Bytes)
          /\ Len(bytes) = Len(buf) + k
          /\ bytes \o (SubSeq(wire, k + 1, Len(wire)) \o unsent) = buf \o (wire \o unsent)
      BY <1>2, ReadMoves, Zenon
    <2>2. wire' = SubSeq(wire, k + 1, Len(wire)) /\ unsent' = unsent
      BY <1>1, <1>2
    <2> QED BY <2>1, <2>2, Zenon DEF Pending
  <1>4. IF Len(bytes) = Want THEN Complete(bytes) ELSE buf' = bytes /\ UNCHANGED <<pc, alloc>>
    BY <1>1
  <1>5. /\ k \in Nat \ {0} /\ Len(buf) \in Nat
        /\ elapsed <= (Taken + k) * IoTimeout
        /\ Time
    BY <1>2, ReadPays DEF FInv
  <1> HIDE DEF bytes
  <1>6. CASE Len(bytes) # Want
    <2>0. Want \in Nat
      BY <1>2 DEF Want, PrefixLen
    <2>1. buf' = bytes /\ UNCHANGED <<pc, alloc>> /\ Pending' = Pending /\ Len(bytes) < Want
      <3>1. buf' = bytes /\ UNCHANGED <<pc, alloc>>
        BY <1>4, <1>6
      <3>2. Pending' = Pending
        BY <1>3, <3>1 DEF Pending
      <3>3. Len(bytes) < Want
        <4>1. Len(buf) + k <= Want
          BY <1>1
        <4>2. Len(bytes) = Len(buf) + k /\ Len(buf) + k \in Nat
          BY <1>3, <1>5
        <4> QED BY <1>6, <2>0, <4>1, <4>2
      <3> QED BY <3>1, <3>2, <3>3
    <2>2. Types'
      BY <1>2, <1>3, <2>1, FrameAssumption DEF FInv, Types
    <2>3. Position'
      BY <1>2, <1>3, <2>1 DEF FInv, Position, Want, Reading
    <2>4. Taken' = Taken + k
      BY <1>3, <1>5, <2>1 DEF Taken, PrefixLen
    <2>5. Time'
      BY <1>2, <1>5, <2>1, <2>4, Products, TakenBound DEF Time, Reading
    <2> QED BY <2>2, <2>3, <2>5 DEF FInv
  <1>7. CASE Len(bytes) = Want /\ pc = "body"
    <2>1. pc' = "ok" /\ buf' = bytes /\ alloc' = alloc
      BY <1>4, <1>7 DEF Complete, Return
    <2>2. Types'
      BY <1>2, <1>3, <2>1, FrameAssumption DEF FInv, Types
    <2>3. Position'
      BY <1>2, <1>3, <1>7, <2>1 DEF FInv, Position, Want, Pending
    <2>4. Time'
      BY <1>2, <1>5, <2>1 DEF Time, Reading
    <2> QED BY <2>2, <2>3, <2>4 DEF FInv
  <1>8. CASE Len(bytes) = Want /\ pc = "len"
    <2>1. /\ to_be_bytes(announced) \in Seq(Bytes) /\ Len(to_be_bytes(announced)) = PrefixLen
          /\ from_be_bytes(to_be_bytes(announced)) = announced
      BY <1>2, PrefixRoundTrips
    <2>2. wire' \o unsent' \in Seq(Bytes)
      BY <1>2, <1>3
    <2>3. Len(bytes) = PrefixLen /\ bytes \o (wire' \o unsent') = to_be_bytes(announced) \o body
      BY <1>3, <1>8 DEF FInv, Position, Want
    <2>4. bytes = to_be_bytes(announced) /\ wire' \o unsent' = body
      BY <1>2, <1>3, <2>1, <2>2, <2>3, CutOnce
    <2>5. from_be_bytes(bytes) = announced
      BY <2>1, <2>4
    <2>6. announced \in Nat /\ MaxBody \in Nat
      BY <1>2, FrameAssumption DEF Lengths, MaxLength
    <2>7. CASE Oversized(announced) /\ pc' = "err" /\ buf' = <<>> /\ alloc' = alloc
      <3>1. Types'
        BY <1>2, <1>3, <2>7, FrameAssumption DEF FInv, Types
      <3>2. Position'
        BY <1>2, <2>6, <2>7 DEF Position, Oversized
      <3>3. Time'
        BY <1>2, <1>5, <2>7 DEF Time, Reading
      <3> QED BY <3>1, <3>2, <3>3 DEF FInv
    <2>8. CASE /\ ~Oversized(announced) /\ alloc' = announced /\ buf' = <<>>
               /\ pc' = IF announced = 0 THEN "ok" ELSE "body"
      <3>1. Types'
        BY <1>2, <1>3, <2>6, <2>8, FrameAssumption DEF FInv, Types
      <3>2. Pending' = body'
        BY <1>2, <2>2, <2>4, <2>8, ConcatEmptySeq DEF Pending
      <3>3. Position'
        BY <1>2, <2>6, <2>8, <3>2 DEF Position, Oversized
      <3>4. pc' = "body" => Taken' = PrefixLen
        BY <2>8 DEF Taken, PrefixLen
      <3>5. Taken + k = PrefixLen
        BY <1>3, <1>5, <1>8, <2>3 DEF Taken
      <3>6. Time'
        BY <1>2, <1>5, <2>8, <3>4, <3>5, Products DEF Time, Reading, PrefixLen
      <3> QED BY <3>1, <3>3, <3>6 DEF FInv
    <2> QED BY <1>4, <1>8, <2>5, <2>7, <2>8 DEF Complete, Return
  <1> QED BY <1>2, <1>6, <1>7, <1>8 DEF Reading

\* Time passes only while read waits, and at most the timeout for each byte.
LEMMA TickStep ==
  ASSUME FInv, Tick
  PROVE  FInv'
  <1>1. /\ Reading /\ waited < IoTimeout /\ waited' = waited + 1
        /\ elapsed' \in {elapsed, elapsed + 1}
        /\ UNCHANGED <<announced, body, unsent, closed, wire, pc, buf, alloc>>
    BY DEF Tick, peer
  <1>2. Types'
    BY <1>1, FrameAssumption DEF FInv, Types
  <1>3. Position'
    BY <1>1 DEF FInv, Position, Pending, Reading
  <1>4. Time'
    <2>1. /\ Taken' = Taken /\ Taken \in Nat /\ Taken + 1 <= PrefixLen + MaxBody
          /\ elapsed \in Nat /\ waited \in Nat /\ elapsed <= Taken * IoTimeout + waited
      BY <1>1, TakenBound DEF Taken, FInv, Types, Time
    <2>2. /\ Taken * IoTimeout \in Nat /\ (PrefixLen + MaxBody) * IoTimeout \in Nat
          /\ Taken * IoTimeout + IoTimeout <= (PrefixLen + MaxBody) * IoTimeout
      <3>1. (Taken + 1) * IoTimeout <= (PrefixLen + MaxBody) * IoTimeout
        BY <2>1, Products
      <3> QED BY <2>1, <3>1, Products
    <2>3. elapsed' <= Taken * IoTimeout + waited'
      BY <1>1, <2>1, <2>2
    <2>4. elapsed' <= (PrefixLen + MaxBody) * IoTimeout
      BY <1>1, <2>1, <2>2, <2>3, Products
    <2> QED BY <2>1, <2>3, <2>4 DEF Time
  <1> QED BY <1>2, <1>3, <1>4 DEF FInv

\* The other steps leave what has been read alone.
LEMMA OtherSteps ==
  ASSUME FInv, ReadFails \/ Send \/ Close \/ UNCHANGED vars
  PROVE  FInv'
  <1>1. /\ UNCHANGED <<announced, body, buf, alloc, waited, elapsed>>
        /\ closed => closed'
        /\ \/ pc' = pc
           \/ pc' = "err" /\ (closed \/ waited >= IoTimeout) /\ UNCHANGED <<wire, unsent>>
    BY DEF ReadFails, TimedOut, Return, Send, Close, vars, peer
  <1>2. wire' \in Seq(Bytes) /\ unsent' \in Seq(Bytes) /\ wire' \o unsent' = wire \o unsent
    <2>1. CASE Send
      BY <2>1, SendMoves DEF Send, FInv, Types
    <2>2. CASE ReadFails \/ Close \/ UNCHANGED vars
      BY <2>2 DEF ReadFails, Close, vars, peer, FInv, Types
    <2> QED BY <2>1, <2>2
  <1>3. Types'
    BY <1>1, <1>2 DEF FInv, Types
  <1>4. Position'
    BY <1>1, <1>2 DEF FInv, Position, Pending
  <1>5. Time'
    BY <1>1 DEF FInv, Time, Taken, Reading
  <1> QED BY <1>3, <1>4, <1>5 DEF FInv

\* At the start everything is still to be sent.
LEMMA FrameInit == ASSUME Init PROVE FInv
  <1>1. /\ announced \in Lengths /\ to_be_bytes(announced) \in Seq(Bytes)
        /\ unsent = to_be_bytes(announced) \o body
        /\ wire = <<>> /\ buf = <<>> /\ pc = "len" /\ alloc = 0 /\ waited = 0 /\ elapsed = 0
    BY PrefixRoundTrips DEF Init
  <1>2. body \in Seq(Bytes)
    BY FrameAssumption DEF Init, Bodies
  <1>3. Types
    BY <1>1, <1>2, FrameAssumption DEF Types
  <1>4. Position
    BY <1>1, <1>3, ConcatEmptySeq DEF Types, Position, Pending, PrefixLen
  <1>5. Time
    BY <1>1, Products DEF Time, Taken
  <1> QED BY <1>3, <1>4, <1>5 DEF FInv

\* The invariant holds in every reachable state.
LEMMA FrameInv == Spec => []FInv
  <1>1. FInv /\ [Next]_vars => FInv'
    BY ReadStep, TickStep, OtherSteps DEF Next
  <1> QED BY <1>1, FrameInit, PTL DEF Spec

-----------------------------------------------------------------------------
(* The theorems *)

\* A returned body is the one sent, for every cut of the stream into reads.
THEOREM ReturnsWhatWasSent == Spec => []FrameIsExact
  <1>1. FInv => FrameIsExact
    <2> SUFFICES ASSUME FInv, pc = "ok" PROVE Len(buf) = announced /\ IsPrefix(buf, body)
      BY DEF FrameIsExact
    <2>1. /\ Len(buf) = announced /\ buf \o (wire \o unsent) = body
          /\ buf \in Seq(Bytes) /\ wire \o unsent \in Seq(Bytes)
      BY DEF FInv, Types, Position, Pending
    <2>2. Len(buf) <= Len(body) /\ \A i \in 1..Len(buf) : body[i] = buf[i]
      BY <2>1
    <2>3. SubSeq(buf, 1, Len(buf)) = SubSeq(body, 1, Len(buf))
      BY <2>1, <2>2
    <2> QED BY <2>1, <2>2, <2>3 DEF IsPrefix
  <1> QED BY <1>1, FrameInv, PTL

\* A frame that is refused though its peer is there and in time is above the
\* cap, for every cap.
THEOREM RefusesOnlyOversized == Spec => []CapIsExact
  <1>1. FInv => CapIsExact
    BY FrameAssumption DEF FInv, Types, Position, CapIsExact
  <1> QED BY <1>1, FrameInv, PTL

\* However slowly a peer sends, read_frame is done after the timeout of every
\* byte of the largest frame.
THEOREM ReadIsBounded == Spec => []TimeIsBounded
  <1>1. FInv => TimeIsBounded
    BY Products DEF FInv, Types, Time, TimeIsBounded, ElapsedCap
  <1> QED BY <1>1, FrameInv, PTL

-----------------------------------------------------------------------------
(* How far read_frame has come *)

\* Bytes that may still come, each of which may take a call of read and the
\* whole timeout, and what is left of the wait for the next.
BytesLeft == (PrefixLen + MaxBody) - Taken
Left ==
    IF Reading THEN BytesLeft * IoTimeout + BytesLeft + (IoTimeout - waited) + 1 ELSE 0

Counted == Left \in Nat

\* Its terms, while there is something to read.
LEMMA LeftTyped ==
  FInv => /\ Reading => BytesLeft \in Nat /\ BytesLeft * IoTimeout \in Nat /\ waited \in 0..IoTimeout
          /\ Left \in Nat
          /\ Reading => Left > 0
  <1> SUFFICES ASSUME FInv
               PROVE  /\ Reading => BytesLeft \in Nat /\ BytesLeft * IoTimeout \in Nat /\ waited \in 0..IoTimeout
                      /\ Left \in Nat
                      /\ Reading => Left > 0
    OBVIOUS
  <1>1. CASE ~Reading
    BY <1>1 DEF Left
  <1>2. CASE Reading
    <2>1. BytesLeft \in Nat
      BY <1>2, TakenBound, Products DEF BytesLeft
    <2>2. BytesLeft * IoTimeout \in Nat /\ IoTimeout \in Nat
      BY <2>1, Products
    <2>3. waited \in 0..IoTimeout
      BY DEF FInv, Types
    <2>4. Left = BytesLeft * IoTimeout + BytesLeft + (IoTimeout - waited) + 1
      BY <1>2 DEF Left
    <2> HIDE DEF Left, BytesLeft
    <2> QED BY <1>2, <2>1, <2>2, <2>3, <2>4
  <1> QED BY <1>1, <1>2

\* A call of read that gets something leaves fewer bytes to wait for, or is the
\* last.
LEMMA ReadTakes ==
  ASSUME FInv, Read
  PROVE  waited' = 0 /\ (Reading' => Taken' > Taken)
  <1>1. PICK k \in 1..Len(wire) :
           /\ Len(buf) + k <= Want
           /\ LET bytes == buf \o SubSeq(wire, 1, k)
              IN  IF Len(bytes) = Want THEN Complete(bytes)
                  ELSE buf' = bytes /\ UNCHANGED <<pc, alloc>>
    BY DEF Read
  <1> DEFINE bytes == buf \o SubSeq(wire, 1, k)
  <1>2. wire \in Seq(Bytes) /\ buf \in Seq(Bytes) /\ unsent \in Seq(Bytes) /\ Reading /\ waited' = 0
    BY DEF Read, FInv, Types
  <1>3. Len(bytes) = Len(buf) + k
    BY <1>2, ReadMoves, Zenon
  <1>4. IF Len(bytes) = Want THEN Complete(bytes) ELSE buf' = bytes /\ UNCHANGED <<pc, alloc>>
    BY <1>1
  <1>5. k \in Nat \ {0} /\ Len(buf) \in Nat
    BY <1>2
  <1> HIDE DEF bytes
  <1>6. CASE Len(bytes) # Want
    <2>1. pc' = pc /\ Len(buf') = Len(buf) + k
      BY <1>3, <1>4, <1>6
    <2> QED BY <1>2, <1>5, <2>1 DEF Taken, PrefixLen
  <1>7. CASE Len(bytes) = Want /\ pc = "body"
    <2>1. pc' = "ok"
      BY <1>4, <1>7 DEF Complete, Return
    <2> QED BY <1>2, <2>1 DEF Reading
  <1>8. CASE Len(bytes) = Want /\ pc = "len"
    <2>1. pc' \in {"err", "ok"} \/ (pc' = "body" /\ buf' = <<>>)
      BY <1>4, <1>8 DEF Complete, Return
    <2>2. Taken = Len(buf) /\ Len(buf) < PrefixLen
      BY <1>8 DEF Taken, FInv, Position
    <2>3. pc' = "body" /\ buf' = <<>> => Taken' = PrefixLen
      BY DEF Taken, PrefixLen
    <2> QED BY <1>2, <1>5, <2>1, <2>2, <2>3 DEF Reading, PrefixLen
  <1> QED BY <1>2, <1>6, <1>7, <1>8 DEF Reading

\* One byte less outweighs any wait.
LEMMA FewerBytes ==
  ASSUME NEW m \in Nat, NEW n \in Nat, m + 1 <= n, NEW w \in 0..IoTimeout
  PROVE  m * IoTimeout + m + (IoTimeout - 0) + 1 < n * IoTimeout + n + (IoTimeout - w) + 1
  <1>1. m + 1 \in Nat /\ (m + 1) * IoTimeout <= n * IoTimeout
    BY Products
  <1>2. (m + 1) * IoTimeout = m * IoTimeout + IoTimeout
    BY Products
  <1>3. m * IoTimeout \in Nat /\ n * IoTimeout \in Nat /\ IoTimeout \in Nat
    BY Products
  <1> QED BY <1>1, <1>2, <1>3

\* Every call of read and every tick of the clock brings the return of read_frame
\* nearer, from a distance that the cap and the timeout bound, and nothing the
\* peer does puts it off: what FrameEnds rests on besides fairness.
THEOREM FrameAdvances ==
  Spec => [][/\ Left \in 0..((PrefixLen + MaxBody + 1) * (IoTimeout + 1))
             /\ Read \/ ReadFails \/ Tick => Left' < Left
             /\ Left' <= Left]_vars
  <1> DEFINE Bound == (PrefixLen + MaxBody + 1) * (IoTimeout + 1)
  <1>1. ASSUME FInv PROVE Left \in 0..Bound
    <2>1. CASE ~Reading
      <3>1. Left = 0
        BY <2>1 DEF Left
      <3>2. Bound \in Nat
        BY Products
      <3> QED BY <3>1, <3>2
    <2>2. CASE Reading
      <3> DEFINE top == PrefixLen + MaxBody
      <3>1. /\ BytesLeft \in Nat /\ BytesLeft * IoTimeout \in Nat /\ waited \in 0..IoTimeout
            /\ Left \in Nat
        BY <1>1, <2>2, LeftTyped
      <3>2. BytesLeft <= top /\ top \in Nat /\ IoTimeout \in Nat
        BY <1>1, <2>2, TakenBound, Products DEF BytesLeft
      <3>3. BytesLeft * IoTimeout <= top * IoTimeout /\ top * IoTimeout \in Nat
        BY <3>1, <3>2, Products
      <3>4. Left = BytesLeft * IoTimeout + BytesLeft + (IoTimeout - waited) + 1
        BY <2>2 DEF Left
      <3>5. Bound = top * IoTimeout + top + IoTimeout + 1
        <4> HIDE DEF top
        <4>1. (top + 1) * (IoTimeout + 1) = top * IoTimeout + top + IoTimeout + 1
          BY <3>2
        <4> QED BY <4>1 DEF top
      <3> HIDE DEF top, Bound, Left, BytesLeft
      <3>6. Left <= Bound
        BY <3>1, <3>2, <3>3, <3>4, <3>5
      <3> QED BY <3>1, <3>2, <3>3, <3>5, <3>6
    <2> QED BY <2>1, <2>2
  <1>2. ASSUME FInv, FInv', Read PROVE Left' < Left
    <2>1. Left \in Nat /\ Left > 0 /\ Reading
      BY <1>2, LeftTyped DEF Read
    <2>2. CASE ~Reading'
      <3>1. Left' = 0
        BY <2>2 DEF Left
      <3> QED BY <2>1, <3>1
    <2>3. CASE Reading'
      <3>1. waited' = 0 /\ Taken' > Taken
        BY <1>2, <2>3, ReadTakes
      <3>2. Taken \in Nat /\ Taken + 1 <= PrefixLen + MaxBody /\ PrefixLen + MaxBody \in Nat
        BY <1>2, <2>1, TakenBound, Products
      <3>3. Taken' \in Nat /\ Taken' + 1 <= PrefixLen + MaxBody
        BY <1>2, <2>3, FrameAssumption DEF FInv, Types, Position, Reading, Taken, PrefixLen
      <3>4. PICK m \in Nat, n \in Nat :
               m = (PrefixLen + MaxBody) - Taken' /\ n = (PrefixLen + MaxBody) - Taken
        BY <3>2, <3>3
      <3>5. m + 1 <= n
        BY <3>1, <3>2, <3>3, <3>4
      <3>6. waited \in 0..IoTimeout
        BY <1>2 DEF FInv, Types
      <3>7. Left = n * IoTimeout + n + (IoTimeout - waited) + 1
        BY <2>1, <3>4 DEF Left, BytesLeft
      <3>8. Left' = m * IoTimeout + m + (IoTimeout - waited') + 1
        BY <2>3, <3>4 DEF Left, BytesLeft
      <3>9. Left' = m * IoTimeout + m + (IoTimeout - 0) + 1
        BY <3>1, <3>8
      <3> QED BY <3>5, <3>6, <3>7, <3>9, FewerBytes
    <2> QED BY <2>2, <2>3
  <1>3. ASSUME FInv, ReadFails PROVE Left' < Left
    <2>1. Left \in Nat /\ Left > 0
      BY <1>3, LeftTyped DEF ReadFails
    <2>2. Left' = 0
      BY <1>3 DEF Left, ReadFails, Return, Reading
    <2> QED BY <2>1, <2>2
  <1>4. ASSUME FInv, Tick PROVE Left' < Left
    <2>1. Reading /\ Reading' /\ waited' = waited + 1 /\ BytesLeft' = BytesLeft
      BY <1>4 DEF Tick, Reading, BytesLeft, Taken, PrefixLen
    <2>2. BytesLeft \in Nat /\ BytesLeft * IoTimeout \in Nat /\ waited \in 0..IoTimeout /\ IoTimeout \in Nat
      BY <1>4, <2>1, LeftTyped, Products
    <2>3. Left = BytesLeft * IoTimeout + BytesLeft + (IoTimeout - waited) + 1
      BY <2>1 DEF Left
    <2>4. Left' = BytesLeft * IoTimeout + BytesLeft + (IoTimeout - (waited + 1)) + 1
      BY <2>1 DEF Left
    <2> HIDE DEF Left, BytesLeft
    <2> QED BY <2>2, <2>3, <2>4
  <1>5. ASSUME Send \/ Close \/ UNCHANGED vars PROVE Left' = Left
    <2>1. UNCHANGED <<pc, buf, waited>>
      BY <1>5 DEF Send, Close, vars
    <2> QED BY <2>1 DEF Left, Reading, BytesLeft, Taken
  <1>6. ASSUME FInv, FInv', Counted, Counted', [Next]_vars
        PROVE  /\ Left \in 0..Bound
               /\ Read \/ ReadFails \/ Tick => Left' < Left
               /\ Left' <= Left
    <2>1. Left \in Nat /\ Left \in 0..Bound /\ Left' \in Nat
      BY <1>1, <1>6 DEF Counted
    <2>2. Read \/ ReadFails \/ Tick => Left' < Left
      BY <1>2, <1>3, <1>4, <1>6
    <2>3. CASE Read \/ ReadFails \/ Tick
      BY <2>1, <2>2, <2>3
    <2>4. CASE Send \/ Close \/ UNCHANGED vars
      BY <1>5, <2>1, <2>2, <2>4
    <2> QED BY <1>6, <2>1, <2>2, <2>3, <2>4 DEF Next
  <1>7. FInv /\ FInv' /\ Counted /\ Counted' /\ [Next]_vars =>
          [/\ Left \in 0..Bound
           /\ Read \/ ReadFails \/ Tick => Left' < Left
           /\ Left' <= Left]_vars
    BY <1>6
  <1>8. FInv => Counted
    BY LeftTyped DEF Counted
  <1> QED BY FrameInv, <1>7, <1>8, PTL DEF Spec
=============================================================================
