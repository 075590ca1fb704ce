---------------------------- MODULE FramingProofs ----------------------------
(***************************************************************************)
(* Proofs about Framing, for every size of header, block and payload and   *)
(* every number of packets.                                                *)
(***************************************************************************)
EXTENDS Framing, FiniteSetTheorems, SequenceTheorems, WellFoundedInduction, TLAPS

-----------------------------------------------------------------------------
(***************************************************************************)
(* Where packets begin                                                     *)
(***************************************************************************)

\* The induction used here: a set of numbers that is not empty has a least one.
LEMMA Least ==
    ASSUME NEW T \in SUBSET Nat, T # {}
    PROVE  \E m \in T : \A k \in T : m <= k
<1> DEFINE R == {ss \in Nat \X Nat : ss[1] < ss[2]}
<1>1. IsWellFoundedOn(R, Nat)
  BY ONLY NatLessThanWellFounded DEF OpToRel
<1>2. \A y, z \in Nat : y < z => <<y, z>> \in R
  OBVIOUS
<1> HIDE DEF R
<1>3. PICK x \in T : \A y \in T : ~(<<y, x>> \in R)
  BY <1>1, WFMin, Zenon
<1>4. \A y \in T : ~(y < x)
  BY <1>2, <1>3
<1> QED
  BY <1>4

\* The definition of StartOf has a solution, up to any packet.
LEMMA StartsExist ==
    ASSUME NEW s, NEW n \in Nat \ {0}
    PROVE  \E f : f = [k \in 1 .. n |-> IF k = 1 THEN 0 ELSE f[k - 1] + HeaderSize + s[k - 1].len]
<1> DEFINE Starts(m, f) ==
               f = [k \in 1 .. m |-> IF k = 1 THEN 0 ELSE f[k - 1] + HeaderSize + s[k - 1].len]
           Bad == {m \in Nat : m # 0 /\ ~ \E f : Starts(m, f)}
<1>1. ASSUME Bad # {} PROVE FALSE
  <2>1. PICK m \in Bad : \A k \in Bad : m <= k
    <3> HIDE DEF Starts
    <3> QED
      BY <1>1, Least
  <2>2. CASE m = 1
    <3>1. Starts(1, [k \in 1 .. 1 |-> 0])
      OBVIOUS
    <3> QED
      BY <2>1, <2>2, <3>1
  <2>3. CASE m # 1
    <3>1. PICK f : Starts(m - 1, f)
      <4> HIDE DEF Starts
      <4> QED
        BY <2>1, <2>3
    <3> DEFINE h == [k \in 1 .. m |->
                        IF k = m THEN f[m - 1] + HeaderSize + s[m - 1].len ELSE f[k]]
    <3>2. h = [k \in 1 .. m |-> IF k = 1 THEN 0 ELSE h[k - 1] + HeaderSize + s[k - 1].len]
      BY <2>1, <2>3, <3>1
    <3>3. Starts(m, h)
      BY <3>2
    <3> QED
      BY <2>1, <3>3
  <2> QED
    BY <2>2, <2>3
<1>2. \E f : Starts(n, f)
  <2> HIDE DEF Starts
  <2> QED
    BY <1>1
<1> QED
  BY <1>2

LEMMA StartEquations ==
    ASSUME stream \in Seq(Packets)
    PROVE  /\ StartOf[1] = 0
           /\ \A k \in 1 .. Len(stream) : StartOf[k + 1] = StartOf[k] + HeaderSize + stream[k].len
<1> DEFINE n == Len(stream) + 1
<1>1. n \in Nat \ {0} /\ Len(stream) \in Nat
  OBVIOUS
<1>2. StartOf = [k \in 1 .. n |-> IF k = 1 THEN 0 ELSE StartOf[k - 1] + HeaderSize + stream[k - 1].len]
  BY <1>1, StartsExist DEF StartOf
<1> HIDE DEF n
<1>3. 1 \in 1 .. n
  BY <1>1
<1>4. StartOf[1] = 0
  BY <1>2, <1>3
<1>5. ASSUME NEW k \in 1 .. Len(stream) PROVE StartOf[k + 1] = StartOf[k] + HeaderSize + stream[k].len
  <2>1. k + 1 \in 1 .. n /\ k + 1 # 1 /\ (k + 1) - 1 = k
    BY <1>1 DEF n
  <2> QED
    BY <1>2, <2>1
<1> QED
  BY <1>4, <1>5

LEMMA PacketFacts ==
    ASSUME stream \in Seq(Packets)
    PROVE  /\ Len(stream) \in Nat
           /\ \A k \in 1 .. Len(stream) : stream[k].len \in Nat /\ stream[k].len \in 0 .. MaxPayload
<1>1. Len(stream) \in Nat
  OBVIOUS
<1>2. ASSUME NEW k \in 1 .. Len(stream) PROVE stream[k] \in Packets
  BY <1>2
<1> QED
  BY <1>1, <1>2, FramingBounds DEF Packets

LEMMA StartNatural ==
    ASSUME stream \in Seq(Packets)
    PROVE  \A k \in 1 .. Len(stream) + 1 : StartOf[k] \in Nat
<1> DEFINE Bad == {k \in 1 .. Len(stream) + 1 : StartOf[k] \notin Nat}
<1> SUFFICES ASSUME Bad # {} PROVE FALSE
  OBVIOUS
<1>1. Len(stream) \in Nat
  OBVIOUS
<1>2. PICK m \in Bad : \A k \in Bad : m <= k
  <2>1. Bad \in SUBSET Nat
    BY <1>1
  <2> QED
    BY <2>1, Least
<1>3. m # 1
  BY <1>2, StartEquations
<1>4. m - 1 \in 1 .. Len(stream) /\ (m - 1) + 1 = m
  BY <1>1, <1>2, <1>3
<1>5. StartOf[m - 1] \in Nat
  BY <1>1, <1>2, <1>4
<1>6. StartOf[m] = StartOf[m - 1] + HeaderSize + stream[m - 1].len
  BY <1>4, StartEquations
<1>7. stream[m - 1].len \in Nat
  BY <1>4, PacketFacts
<1> QED
  BY <1>2, <1>5, <1>6, <1>7, FramingBounds

\* A packet begins where those before it have ended.
LEMMA StartIncreases ==
    ASSUME stream \in Seq(Packets), NEW k \in 1 .. Len(stream), NEW m \in k + 1 .. Len(stream) + 1
    PROVE  StartOf[k] + HeaderSize + stream[k].len <= StartOf[m]
<1> DEFINE E == StartOf[k] + HeaderSize + stream[k].len
           Bad == {j \in k + 1 .. Len(stream) + 1 : ~(E <= StartOf[j])}
<1>1. Len(stream) \in Nat
  OBVIOUS
<1>2. E \in Nat /\ E = StartOf[k + 1]
  BY <1>1, StartNatural, StartEquations, PacketFacts, FramingBounds
<1> HIDE DEF E
<1> SUFFICES ASSUME Bad # {} PROVE FALSE
  BY DEF E
<1>3. PICK j \in Bad : \A i \in Bad : j <= i
  <2>1. Bad \in SUBSET Nat
    BY <1>1
  <2> QED
    BY <2>1, Least
<1>4. j # k + 1
  BY <1>2, <1>3
<1>5. j - 1 \in k + 1 .. Len(stream) /\ j - 1 \in 1 .. Len(stream) /\ (j - 1) + 1 = j
  BY <1>1, <1>3, <1>4
<1>6. E <= StartOf[j - 1]
  BY <1>3, <1>5
<1>7. /\ StartOf[j] = StartOf[j - 1] + HeaderSize + stream[j - 1].len
      /\ StartOf[j - 1] \in Nat /\ stream[j - 1].len \in Nat
  BY <1>5, StartEquations, StartNatural, PacketFacts
<1>8. ASSUME NEW e \in Nat, NEW s \in Nat, NEW h \in Nat, NEW l \in Nat, e <= s
      PROVE  e <= s + h + l
  BY <1>8
<1>9. E <= StartOf[j - 1] + HeaderSize + stream[j - 1].len
  <2>1. E \in Nat /\ StartOf[j - 1] \in Nat /\ HeaderSize \in Nat /\ stream[j - 1].len \in Nat
    BY <1>2, <1>7, FramingBounds
  <2> QED
    BY <2>1, <1>6, <1>8, Zenon
<1>10. E <= StartOf[j]
  BY <1>9, <1>7, Zenon
<1> QED
  BY <1>3, <1>10

\* A header tells its packet.
LEMMA HeaderTells ==
    ASSUME stream \in Seq(Packets), NEW k \in 1 .. Len(stream)
    PROVE  Announced(HeaderOf(k)) = {k}
<1> SUFFICES ASSUME NEW j \in 1 .. Len(stream), HeaderOf(k) = HeaderOf(j) PROVE j = k
  BY DEF Announced
<1>1. 1 \in 1 .. HeaderSize
  BY FramingBounds
<1>2. StartOf[k] + 1 = StartOf[j] + 1
  BY <1>1 DEF HeaderOf, Bytes
<1>3. StartOf[k] \in Nat /\ StartOf[j] \in Nat /\ StartOf[j] = StartOf[k]
  BY <1>2, StartNatural
<1>4. ~(j < k) /\ ~(k < j)
  <2>1. ASSUME NEW a \in 1 .. Len(stream), NEW b \in 1 .. Len(stream), a < b
        PROVE  StartOf[a] < StartOf[b]
    <3>1. b \in a + 1 .. Len(stream) + 1
      BY <2>1
    <3>2. StartOf[a] + HeaderSize + stream[a].len <= StartOf[b]
      BY <3>1, StartIncreases
    <3>3. StartOf[a] \in Nat /\ StartOf[b] \in Nat /\ stream[a].len \in Nat
      BY StartNatural, PacketFacts
    <3> QED
      BY <3>2, <3>3, FramingBounds, SMTT(30)
  <2> QED
    BY <1>3, <2>1
<1> QED
  BY <1>4

\* Adjacent bytes.
LEMMA BytesFacts ==
    ASSUME NEW p \in Nat, NEW n \in Nat, NEW m \in Nat
    PROVE  /\ Bytes(p, n) \in Seq(Nat) /\ Len(Bytes(p, n)) = n
           /\ Bytes(p, n) \o Bytes(p + n, m) = Bytes(p, n + m)
<1>1. \A i, j \in Nat : Bytes(i, j) \in Seq(Nat) /\ Len(Bytes(i, j)) = j
  BY DEF Bytes
<1> DEFINE u == Bytes(p, n)
           v == Bytes(p + n, m)
           b == u \o v
           c == Bytes(p, n + m)
<1>2. /\ u \in Seq(Nat) /\ Len(u) = n /\ \A i \in 1 .. n : u[i] = p + i
      /\ v \in Seq(Nat) /\ Len(v) = m /\ \A i \in 1 .. m : v[i] = p + n + i
      /\ c \in Seq(Nat) /\ Len(c) = n + m /\ \A i \in 1 .. n + m : c[i] = p + i
  BY <1>1 DEF Bytes
<1> HIDE DEF u, v, c
<1>3. b \in Seq(Nat) /\ Len(b) = n + m /\ \A i \in 1 .. n + m : b[i] = c[i]
  <2>1. u \in Seq(Nat) /\ v \in Seq(Nat)
    BY <1>2
  <2>2. /\ b \in Seq(Nat) /\ Len(b) = Len(u) + Len(v)
        /\ \A i \in 1 .. Len(u) + Len(v) : b[i] = IF i <= Len(u) THEN u[i] ELSE v[i - Len(u)]
    BY <2>1, ConcatProperties, Zenon
  <2> HIDE DEF b
  <2>3. ASSUME NEW i \in 1 .. n + m PROVE b[i] = c[i]
    <3>1. b[i] = IF i <= n THEN u[i] ELSE v[i - n]
      BY <1>2, <2>2
    <3>2. CASE i <= n
      BY <1>2, <3>1, <3>2
    <3>3. CASE ~(i <= n)
      <4>1. i - n \in 1 .. m /\ p + n + (i - n) = p + i
        BY <3>3
      <4> QED
        BY <1>2, <3>1, <3>3, <4>1
    <3> QED
      BY <3>2, <3>3
  <2> QED
    BY <1>2, <2>2, <2>3
<1>4. b = c
  <2> HIDE DEF b
  <2> QED
    BY <1>2, <1>3, SeqEqual
<1> QED
  BY <1>1, <1>4 DEF u, v, c

LEMMA NoBytes == \A p : Bytes(p, 0) = << >>
<1> SUFFICES ASSUME NEW p PROVE Bytes(p, 0) = << >>
  OBVIOUS
<1>1. Bytes(p, 0) \in Seq(Nat) /\ Len(Bytes(p, 0)) = 0
  BY DEF Bytes
<1> QED
  BY <1>1, EmptySeq

-----------------------------------------------------------------------------
(***************************************************************************)
(* The invariant                                                           *)
(***************************************************************************)
Current  == Len(handled) + 1
Consumed == arrived - ActiveSize(readBuffer)
End      == StartOf[Len(stream) + 1]

BufferOK ==
    /\ readBuffer \in [rpos : Nat, wpos : Nat, size : Nat]
    /\ readBuffer.rpos <= readBuffer.wpos /\ readBuffer.wpos <= readBuffer.size
    /\ readBuffer.size = BlockSize
    /\ pc = "idle" => readBuffer.rpos = 0 /\ readBuffer.wpos = 0
    /\ arrived \in Nat /\ ActiveSize(readBuffer) <= arrived /\ arrived <= End

HistoryOK ==
    /\ handled \in Seq(Seq(Nat)) /\ Len(handled) <= Len(stream)
    /\ \A k \in 1 .. Len(handled) : handled[k] = PayloadOf(k)
    /\ \A k \in 1 .. Len(handled) - 1 : stream[k].fate = "ok"

\* The two buffers hold the beginning of a header and that of the payload behind it.
PartsOK ==
    /\ Len(header) \in 0 .. HeaderSize /\ size \in 0 .. MaxPayload
    /\ Len(payload) \in Nat /\ Len(payload) <= size
    /\ header = Bytes(StartOf[Current], Len(header))
    /\ payload = Bytes(StartOf[Current] + HeaderSize, Len(payload))
    /\ Len(header) < HeaderSize => payload = << >> /\ size = 0
    /\ Len(header) = HeaderSize => Current <= Len(stream)

\* While the socket is open, what was taken out of the read buffer is the packets
\* handled and the two parts; a header is complete only while bytes of its payload
\* miss, or in the part of the loop that will handle it.
Reading ==
    /\ Consumed = StartOf[Current] + Len(header) + Len(payload)
    /\ \A k \in 1 .. Len(handled) : stream[k].fate = "ok"
    /\ Len(header) = HeaderSize => size = stream[Current].len
    /\ Len(header) = HeaderSize /\ pc # "payload" => Len(payload) < size
    /\ pc = "payload" => Len(header) = HeaderSize /\ (Len(payload) < size \/ payload = << >>)

\* The inductive invariant.
FrameInv ==
    /\ stream \in Seq(Packets) /\ pc \in {"idle", "loop", "payload", "closed"}
    /\ BufferOK /\ HistoryOK /\ PartsOK
    /\ pc # "closed" => Reading

\* What it says in numbers.
LEMMA FrameFacts ==
    ASSUME FrameInv
    PROVE  /\ Len(stream) \in Nat /\ Len(handled) \in Nat /\ Current \in 1 .. Len(stream) + 1
           /\ StartOf[Current] \in Nat /\ End \in Nat
           /\ Len(header) \in Nat /\ Len(payload) \in Nat /\ size \in Nat
           /\ ActiveSize(readBuffer) \in Nat /\ Consumed \in Nat /\ arrived \in Nat
           /\ Consumed + ActiveSize(readBuffer) = arrived
<1>1. /\ Len(stream) \in Nat /\ Len(handled) \in Nat /\ Current \in 1 .. Len(stream) + 1
  BY DEF FrameInv, HistoryOK, Current
<1>2. StartOf[Current] \in Nat /\ End \in Nat
  BY <1>1, StartNatural DEF FrameInv, End
<1>3. Len(header) \in Nat /\ Len(payload) \in Nat /\ size \in Nat
  BY FramingBounds DEF FrameInv, PartsOK
<1>4. ActiveSize(readBuffer) \in Nat /\ ActiveSize(readBuffer) <= arrived /\ arrived \in Nat
  BY DEF FrameInv, BufferOK, ActiveSize
<1>5. Consumed \in Nat /\ Consumed + ActiveSize(readBuffer) = arrived
  BY <1>4 DEF Consumed
<1> QED
  BY <1>1, <1>2, <1>3, <1>4, <1>5

LEMMA LesserFacts ==
    ASSUME NEW a \in Nat, NEW b \in Nat
    PROVE  /\ Lesser(a, b) \in Nat /\ Lesser(a, b) <= a /\ Lesser(a, b) <= b
           /\ Lesser(a, b) = a \/ Lesser(a, b) = b
BY DEF Lesser

LEMMA StartSame == ASSUME stream' = stream PROVE StartOf' = StartOf /\ End' = End
BY DEF StartOf, End

\* Bytes are taken out of the read buffer.
LEMMA ReadSome ==
    ASSUME FrameInv, NEW n \in Nat, n <= ActiveSize(readBuffer),
           readBuffer' = ReadCompleted(readBuffer, n), UNCHANGED <<stream, arrived>>, pc' # "idle"
    PROVE  BufferOK' /\ Consumed' = Consumed + n
<1>1. /\ readBuffer' = [rpos |-> readBuffer.rpos + n, wpos |-> readBuffer.wpos, size |-> readBuffer.size]
      /\ readBuffer.rpos \in Nat /\ readBuffer.wpos \in Nat /\ readBuffer.size \in Nat
      /\ arrived \in Nat
  BY DEF FrameInv, BufferOK, ReadCompleted, Buffer
<1>2. BufferOK'
  BY <1>1, StartSame DEF FrameInv, BufferOK, ActiveSize
<1> QED
  BY <1>1, <1>2 DEF Consumed, ActiveSize

\* All of them are, and the buffer is as at the beginning.
LEMMA ReadAll ==
    ASSUME FrameInv, UNCHANGED <<stream, arrived>>,
           readBuffer' = AsyncRead(ReadCompleted(readBuffer, ActiveSize(readBuffer)))
    PROVE  BufferOK' /\ Consumed' = arrived /\ ActiveSize(readBuffer)' = 0
<1>1. /\ readBuffer.rpos \in Nat /\ readBuffer.wpos \in Nat /\ readBuffer.size = BlockSize
      /\ arrived \in Nat /\ arrived <= End /\ BlockSize \in Nat \ {0}
  BY FramingBounds DEF FrameInv, BufferOK
<1> DEFINE b == ReadCompleted(readBuffer, ActiveSize(readBuffer))
<1>2. b.rpos = b.wpos /\ b.size = BlockSize /\ b.wpos \in Nat
  BY <1>1 DEF ReadCompleted, ActiveSize, Buffer
<1> HIDE DEF b
<1>3. Normalize(b) = [rpos |-> 0, wpos |-> 0, size |-> BlockSize]
  BY <1>2 DEF Normalize, ActiveSize, Buffer
<1>4. RemainingSpace(Normalize(b)) # 0
  BY <1>1, <1>3 DEF RemainingSpace
<1>5. readBuffer' = [rpos |-> 0, wpos |-> 0, size |-> BlockSize]
  BY <1>3, <1>4 DEF AsyncRead, EnsureFreeSpace, b
<1>6. BufferOK'
  BY <1>1, <1>5, StartSame DEF BufferOK, ActiveSize
<1> QED
  BY <1>1, <1>5, <1>6 DEF Consumed, ActiveSize

-----------------------------------------------------------------------------
(***************************************************************************)
(* Step by step                                                            *)
(***************************************************************************)
LEMMA InitFrame == Init => FrameInv
<1> SUFFICES ASSUME Init PROVE FrameInv
  OBVIOUS
<1>1. /\ arrived = 0 /\ header = << >> /\ payload = << >> /\ size = 0 /\ handled = << >> /\ pc = "idle"
      /\ readBuffer = [rpos |-> 0, wpos |-> 0, size |-> BlockSize]
      /\ HeaderSize \in Nat \ {0} /\ BlockSize \in Nat \ {0} /\ MaxPayload \in Nat
  BY FramingBounds DEF Init
<1>2. stream \in Seq(Packets)
  <2>1. PICK n \in 1 .. MaxSent : stream \in [1 .. n -> Packets]
    BY DEF Init
  <2> QED
    BY <2>1
<1>3. Len(stream) \in Nat /\ End \in Nat /\ StartOf[1] = 0
  BY <1>2, StartNatural, StartEquations DEF End
<1>4. Len(header) = 0 /\ Len(payload) = 0 /\ Len(handled) = 0
  BY <1>1
<1>5. Current = 1
  BY <1>4 DEF Current
<1>6. BufferOK
  BY <1>1, <1>3 DEF BufferOK, ActiveSize
<1>7. HistoryOK
  <2>1. handled \in Seq(Seq(Nat))
    BY <1>1
  <2> QED
    BY <1>3, <1>4, <2>1 DEF HistoryOK
<1>8. PartsOK
  BY <1>1, <1>4, NoBytes DEF PartsOK
<1>9. Reading
  BY <1>1, <1>3, <1>4, <1>5 DEF Reading, Consumed, ActiveSize
<1> QED
  BY <1>1, <1>2, <1>6, <1>7, <1>8, <1>9 DEF FrameInv

\* What depends on the stream and the packets handled only.
LEMMA HistorySame ==
    ASSUME FrameInv, UNCHANGED <<stream, handled>>
    PROVE  HistoryOK' /\ Current' = Current /\ StartOf'[Current'] = StartOf[Current]
<1>1. StartOf' = StartOf
  BY StartSame
<1>2. \A k : PayloadOf(k)' = PayloadOf(k)
  BY <1>1 DEF PayloadOf, Bytes
<1>3. Current' = Current
  BY DEF Current
<1>4. HistoryOK'
  BY <1>2 DEF FrameInv, HistoryOK
<1> QED
  BY <1>1, <1>3, <1>4

LEMMA PartsSame ==
    ASSUME FrameInv, UNCHANGED <<stream, handled, header, payload, size>>
    PROVE  PartsOK'
BY HistorySame DEF FrameInv, PartsOK, Bytes

LEMMA ReadHandlerInternalFrame ==
    ASSUME FrameInv, ReadHandlerInternal
    PROVE  FrameInv'
<1>1. PICK n \in 1 .. RemainingSpace(readBuffer) :
         /\ arrived + n <= End /\ arrived' = arrived + n
         /\ readBuffer' = WriteCompleted(readBuffer, n)
  BY DEF ReadHandlerInternal, End
<1>2. /\ pc = "idle" /\ pc' = "loop" /\ UNCHANGED <<stream, header, payload, size, handled>>
  BY DEF ReadHandlerInternal
<1>3. /\ readBuffer.rpos = 0 /\ readBuffer.wpos = 0 /\ readBuffer.size = BlockSize /\ BlockSize \in Nat
      /\ arrived \in Nat
  BY <1>2, FramingBounds DEF FrameInv, BufferOK
<1>4. n \in Nat /\ n <= BlockSize /\ readBuffer' = [rpos |-> 0, wpos |-> n, size |-> BlockSize]
  BY <1>1, <1>3 DEF RemainingSpace, WriteCompleted, Buffer
<1>5. BufferOK'
  BY <1>1, <1>2, <1>3, <1>4, StartSame DEF BufferOK, ActiveSize
<1>6. Consumed' = Consumed
  BY <1>1, <1>3, <1>4 DEF Consumed, ActiveSize
<1>7. Reading'
  BY <1>2, <1>6, HistorySame DEF FrameInv, Reading
<1> QED
  BY <1>2, <1>5, <1>7, HistorySame, PartsSame DEF FrameInv

LEMMA LoopEndsFrame ==
    ASSUME FrameInv, LoopEnds
    PROVE  FrameInv'
<1>1. /\ pc = "loop" /\ pc' = "idle" /\ UNCHANGED <<stream, arrived, header, payload, size, handled>>
      /\ ActiveSize(readBuffer) = 0 /\ readBuffer' = AsyncRead(readBuffer)
  BY DEF LoopEnds
<1>2. readBuffer' = AsyncRead(ReadCompleted(readBuffer, ActiveSize(readBuffer)))
  <2>1. readBuffer \in [rpos : Nat, wpos : Nat, size : Nat]
    BY DEF FrameInv, BufferOK
  <2>2. ReadCompleted(readBuffer, 0) = readBuffer
    BY <2>1 DEF ReadCompleted, Buffer
  <2> QED
    BY <1>1, <2>2
<1>3. BufferOK' /\ Consumed' = arrived
  BY <1>1, <1>2, ReadAll
<1>4. Consumed' = Consumed
  BY <1>1, <1>3, FrameFacts
<1>5. Reading'
  BY <1>1, <1>4, HistorySame DEF FrameInv, Reading
<1> QED
  BY <1>1, <1>3, <1>5, HistorySame, PartsSame DEF FrameInv

LEMMA HeaderPresentFrame ==
    ASSUME FrameInv, HeaderPresent
    PROVE  FrameInv'
<1>1. /\ pc = "loop" /\ pc' = "payload" /\ Len(header) = HeaderSize
      /\ UNCHANGED <<stream, arrived, readBuffer, header, payload, size, handled>>
  BY DEF HeaderPresent
<1>2. BufferOK'
  BY <1>1, StartSame DEF FrameInv, BufferOK
<1>3. Reading'
  BY <1>1, HistorySame DEF FrameInv, Reading, Consumed
<1> QED
  BY <1>1, <1>2, <1>3, HistorySame, PartsSame DEF FrameInv

\* The next byte belongs to a packet.
LEMMA PacketIsThere ==
    ASSUME FrameInv, Reading, ActiveSize(readBuffer) > 0
    PROVE  Current \in 1 .. Len(stream)
<1>1. ASSUME Current = Len(stream) + 1 PROVE FALSE
  <2>1. Consumed = End + Len(header) + Len(payload) /\ arrived <= End
    BY <1>1 DEF Reading, End, FrameInv, BufferOK
  <2>2. /\ Len(header) \in Nat /\ Len(payload) \in Nat /\ End \in Nat /\ arrived \in Nat
        /\ Consumed \in Nat /\ Consumed + ActiveSize(readBuffer) = arrived
        /\ ActiveSize(readBuffer) \in Nat
    BY FrameFacts
  <2> QED
    BY <2>1, <2>2
<1> QED
  BY <1>1, FrameFacts

LEMMA ReadHeaderFrame ==
    ASSUME FrameInv, ReadHeader
    PROVE  FrameInv'
<1> DEFINE a == ActiveSize(readBuffer)
           h == Len(header)
           r == HeaderSize - h
           n == Lesser(a, r)
           p == StartOf[Current]
<1>1. /\ pc = "loop" /\ a > 0 /\ h < HeaderSize /\ header' = header \o Unread(n)
      /\ UNCHANGED <<stream, arrived, payload, handled>>
      /\ \/ Len(header') < HeaderSize /\ Break(n) /\ UNCHANGED size
         \/ /\ Len(header') = HeaderSize /\ readBuffer' = ReadCompleted(readBuffer, n)
            /\ IF Accepts(header') THEN HeaderAccepted(header') ELSE pc' = "closed" /\ UNCHANGED size
  BY DEF ReadHeader
<1>2. a \in Nat /\ h \in Nat /\ p \in Nat /\ HeaderSize \in Nat
  BY FrameFacts, FramingBounds
<1>3. Reading /\ Current \in 1 .. Len(stream)
  BY <1>1, PacketIsThere DEF FrameInv
<1>4. payload = << >> /\ size = 0 /\ Len(payload) = 0 /\ Consumed = p + h
  <2>1. payload = << >> /\ size = 0 /\ Len(payload) = 0
    BY <1>1 DEF FrameInv, PartsOK
  <2> QED
    BY <1>2, <1>3, <2>1 DEF Reading
<1>5. r \in Nat /\ h + r = HeaderSize
  BY <1>1, <1>2
<1>6. header = Bytes(p, h) /\ Unread(n) = Bytes(p + h, n)
  BY <1>4 DEF FrameInv, PartsOK, Unread, Consumed
<1>7. /\ stream' \in Seq(Packets) /\ HistoryOK' /\ Current' = Current /\ StartOf'[Current'] = p
  BY <1>1, HistorySame DEF FrameInv
<1>8. arrived = Consumed + a
  BY FrameFacts
<1>9. HeaderOf(Current) = Bytes(p, HeaderSize)
  BY DEF HeaderOf
<1>10. Break(n) /\ n = a => readBuffer' = AsyncRead(ReadCompleted(readBuffer, ActiveSize(readBuffer))) /\ pc' = "idle"
  BY DEF Break
<1>11. n <= a /\ n \in Nat /\ readBuffer' = ReadCompleted(readBuffer, n) /\ pc' # "idle"
       => BufferOK' /\ Consumed' = Consumed + n
  BY <1>1, ReadSome
<1> HIDE DEF a, h, r, p
<1>12. n \in Nat /\ n <= a /\ n <= r /\ (n = a \/ n = r)
  BY <1>2, <1>5, LesserFacts
<1> HIDE DEF n
<1>13. header' = Bytes(p, h + n) /\ Len(header') = h + n
  <2>1. h + n \in Nat
    BY <1>2, <1>12
  <2>2. Bytes(p, h) \o Bytes(p + h, n) = Bytes(p, h + n)
    BY <1>2, <1>12, BytesFacts, Zenon
  <2>3. Len(Bytes(p, h + n)) = h + n
    BY <1>2, <2>1, BytesFacts, Zenon
  <2> QED
    BY <1>1, <1>6, <2>2, <2>3, Zenon
<1>14. payload' = Bytes(StartOf'[Current'] + HeaderSize, Len(payload')) /\ Len(payload') = 0
  BY <1>1, <1>4, NoBytes
<1>15. CASE Len(header') < HeaderSize
  <2>1. n = a /\ Break(n) /\ size' = 0
    BY <1>1, <1>2, <1>4, <1>5, <1>12, <1>13, <1>15
  <2>2. pc' = "idle" /\ BufferOK' /\ Consumed' = arrived
    BY <1>1, <1>10, <2>1, ReadAll
  <2>3. PartsOK'
    BY <1>1, <1>2, <1>4, <1>7, <1>12, <1>13, <1>14, <1>15, <2>1, FramingBounds DEF PartsOK, Bytes
  <2>4. Consumed' = StartOf'[Current'] + Len(header') + Len(payload')
    <3>1. Consumed' = p + h + n
      BY <1>2, <1>4, <1>8, <2>1, <2>2
    <3>2. p + h + n = p + (h + n) + 0
      BY <1>2, <1>12
    <3> QED
      BY <1>7, <1>13, <1>14, <3>1, <3>2
  <2>5. Reading'
    BY <1>1, <1>3, <1>15, <2>2, <2>4 DEF Reading
  <2> QED
    BY <1>7, <2>2, <2>3, <2>5 DEF FrameInv
<1>16. CASE Len(header') = HeaderSize
  <2>1. /\ readBuffer' = ReadCompleted(readBuffer, n)
        /\ IF Accepts(header') THEN HeaderAccepted(header') ELSE pc' = "closed" /\ UNCHANGED size
    BY <1>1, <1>16
  <2>2. header' = HeaderOf(Current)
    BY <1>9, <1>13, <1>16
  <2>3. Announced(header') = {Current}
    BY <1>3, <2>2, HeaderTells DEF FrameInv
  <2>4. (CHOOSE k \in Announced(header') : TRUE) = Current
    BY <2>3
  <2>5. \/ pc' = "payload" /\ size' = stream[Current].len
        \/ pc' = "closed" /\ size' = 0
    BY <1>4, <2>1, <2>4 DEF HeaderAccepted, LengthIn
  <2>6. BufferOK' /\ Consumed' = Consumed + n
    BY <1>11, <1>12, <2>1, <2>5
  <2>7. stream[Current].len \in 0 .. MaxPayload /\ MaxPayload \in Nat
    BY <1>3, PacketFacts, FramingBounds DEF FrameInv
  <2>8. PartsOK'
    <3>1. header' = Bytes(StartOf'[Current'], Len(header'))
      BY <1>7, <1>13
    <3>2. size' \in 0 .. MaxPayload /\ 0 <= size'
      BY <2>5, <2>7
    <3>3. Current' <= Len(stream')
      BY <1>1, <1>3, <1>7
    <3> QED
      BY <1>2, <1>14, <1>16, <3>1, <3>2, <3>3 DEF PartsOK
  <2>9. Consumed' = StartOf'[Current'] + Len(header') + Len(payload')
    <3>1. Consumed' = p + h + n
      BY <1>2, <1>4, <2>6
    <3>2. p + h + n = p + (h + n) + 0
      BY <1>2, <1>12
    <3> QED
      BY <1>7, <1>13, <1>14, <3>1, <3>2
  <2>10. pc' = "payload" => Reading'
    BY <1>1, <1>3, <1>4, <1>7, <1>16, <2>5, <2>9 DEF Reading
  <2> QED
    BY <1>7, <2>5, <2>6, <2>8, <2>10 DEF FrameInv
<1> QED
  BY <1>1, <1>15, <1>16

LEMMA ReadPayloadFrame ==
    ASSUME FrameInv, ReadPayload
    PROVE  FrameInv'
<1> DEFINE a == ActiveSize(readBuffer)
           l == Len(payload)
           r == size - l
           n == Lesser(a, r)
           c == Current
           p == StartOf[c]
           q == p + HeaderSize
           data == payload \o Unread(n)
<1>1. /\ pc = "payload" /\ UNCHANGED <<stream, arrived>>
      /\ \/ l + n < size /\ payload' = data /\ Break(n) /\ UNCHANGED <<header, size, handled>>
         \/ l + n = size /\ readBuffer' = ReadCompleted(readBuffer, n) /\ HandlePacket(data)
  BY DEF ReadPayload
<1>2. a \in Nat /\ l \in Nat /\ size \in Nat /\ p \in Nat /\ HeaderSize \in Nat /\ q \in Nat
  BY FrameFacts, FramingBounds, SMTT(30)
<1>3. /\ Reading /\ Len(header) = HeaderSize /\ header = HeaderOf(c) /\ c \in 1 .. Len(stream)
      /\ size = stream[c].len /\ (l < size \/ payload = << >>)
  BY <1>1, FrameFacts DEF FrameInv, PartsOK, Reading, HeaderOf
<1>4. l <= size /\ Consumed = p + HeaderSize + l /\ size \in 0 .. MaxPayload
  BY <1>3 DEF FrameInv, PartsOK, Reading
<1>5. r \in Nat /\ l + r = size
  BY <1>2, <1>4
<1>6. payload = Bytes(q, l) /\ Unread(n) = Bytes(Consumed, n)
  BY DEF FrameInv, PartsOK, Unread, Consumed
<1>7. stream' \in Seq(Packets) /\ StartOf' = StartOf
  BY <1>1, StartSame DEF FrameInv
<1>8. arrived = Consumed + a
  BY FrameFacts
<1>9. PayloadOf(c) = Bytes(q, size)
  BY <1>3 DEF PayloadOf
<1>10. Break(n) /\ n = a => readBuffer' = AsyncRead(ReadCompleted(readBuffer, ActiveSize(readBuffer))) /\ pc' = "idle"
  BY DEF Break
<1>11. n <= a /\ n \in Nat /\ readBuffer' = ReadCompleted(readBuffer, n) /\ pc' # "idle"
       => BufferOK' /\ Consumed' = Consumed + n
  BY <1>1, ReadSome
<1>12. /\ handled \in Seq(Seq(Nat)) /\ c = Len(handled) + 1
       /\ \A k \in 1 .. Len(handled) : handled[k] = PayloadOf(k) /\ stream[k].fate = "ok"
  BY <1>3 DEF FrameInv, HistoryOK, Reading, Current
<1>13. Consumed = q + l
  BY <1>2, <1>4
<1> HIDE DEF a, l, r, c, p
<1>14. n \in Nat /\ n <= a /\ n <= r /\ (n = a \/ n = r)
  BY <1>2, <1>5, LesserFacts
<1> HIDE DEF n
<1>15. data = Bytes(q, l + n) /\ Len(data) = l + n /\ data \in Seq(Nat)
  <2> HIDE DEF q
  <2>1. l + n \in Nat
    BY <1>2, <1>14
  <2>2. Bytes(q, l) \o Bytes(q + l, n) = Bytes(q, l + n)
    BY <1>2, <1>14, BytesFacts, Zenon
  <2>3. Len(Bytes(q, l + n)) = l + n /\ Bytes(q, l + n) \in Seq(Nat)
    BY <1>2, <2>1, BytesFacts, Zenon
  <2> QED
    BY <1>6, <1>13, <2>2, <2>3, Zenon
<1> HIDE DEF data
<1>16. CASE l + n < size
  <2>1. n = a /\ payload' = data /\ Break(n) /\ UNCHANGED <<header, size, handled>>
    BY <1>1, <1>2, <1>5, <1>14, <1>16
  <2>2. pc' = "idle" /\ BufferOK' /\ Consumed' = arrived
    BY <1>1, <1>10, <2>1, ReadAll
  <2>3. HistoryOK' /\ Current' = c /\ StartOf'[Current'] = p
    BY <1>1, <2>1, HistorySame DEF c, p
  <2>4. Len(payload') = l + n /\ payload' = Bytes(q, Len(payload'))
    BY <1>15, <2>1
  <2>5. PartsOK'
    <3>1. header' = Bytes(StartOf'[Current'], Len(header'))
      BY <1>3, <2>1, <2>3 DEF HeaderOf, p
    <3>2. Current' <= Len(stream')
      BY <1>1, <1>3, <2>3
    <3>3. Len(payload') \in Nat /\ Len(payload') <= size
      BY <1>2, <1>14, <1>16, <2>4
    <3> QED
      BY <1>2, <1>3, <1>4, <2>1, <2>3, <2>4, <3>1, <3>2, <3>3 DEF PartsOK
  <2>6. Consumed' = StartOf'[Current'] + Len(header') + Len(payload')
    <3>1. Consumed' = p + HeaderSize + l + n
      BY <1>2, <1>4, <1>8, <2>1, <2>2
    <3>2. p + HeaderSize + l + n = p + HeaderSize + (l + n)
      BY <1>2, <1>14
    <3> QED
      BY <1>3, <2>1, <2>3, <2>4, <3>1, <3>2
  <2>7. Reading'
    BY <1>1, <1>3, <1>12, <1>16, <2>1, <2>2, <2>3, <2>4, <2>6 DEF Reading
  <2> QED
    BY <1>7, <2>2, <2>3, <2>5, <2>7 DEF FrameInv
<1>17. CASE l + n = size
  <2>1. /\ readBuffer' = ReadCompleted(readBuffer, n)
        /\ handled' = Append(handled, data) /\ header' = << >> /\ payload' = << >> /\ size' = 0
        /\ pc' = IF \E k \in Announced(header) : stream[k].fate = "ok" THEN "loop" ELSE "closed"
    <3>1. ~(l + n < size)
      BY <1>2, <1>14, <1>17
    <3> QED
      BY <1>1, <3>1 DEF HandlePacket
  <2>2. Announced(header) = {c}
    BY <1>3, HeaderTells DEF FrameInv
  <2>3. pc' \in {"loop", "closed"} /\ (pc' = "loop" => stream[c].fate = "ok")
    BY <2>1, <2>2
  <2>4. BufferOK' /\ Consumed' = Consumed + n
    BY <1>11, <1>14, <2>1, <2>3
  <2>5. /\ handled' \in Seq(Seq(Nat)) /\ Len(handled') = Len(handled) + 1
        /\ handled'[c] = data /\ \A k \in 1 .. Len(handled) : handled'[k] = handled[k]
    <3>0. handled \in Seq(Seq(Nat)) /\ data \in Seq(Nat)
      BY <1>12, <1>15
    <3>1. /\ Append(handled, data) \in Seq(Seq(Nat))
          /\ Len(Append(handled, data)) = Len(handled) + 1
          /\ Append(handled, data)[Len(handled) + 1] = data
          /\ \A k \in 1 .. Len(handled) : Append(handled, data)[k] = handled[k]
      BY <3>0, AppendProperties
    <3> QED
      BY <1>12, <2>1, <3>1
  <2>6. \A k : PayloadOf(k)' = PayloadOf(k)
    BY <1>1, <1>7 DEF PayloadOf
  <2>7. Len(handled) \in Nat /\ Len(handled') = c /\ Len(handled') - 1 = Len(handled)
        /\ \A k \in 1 .. c : k \in 1 .. Len(handled) \/ k = c
    BY <1>12, <2>5
  <2>8. HistoryOK'
    <3>1. \A k \in 1 .. Len(handled') : handled'[k] = PayloadOf(k)'
      BY <1>9, <1>12, <1>15, <1>17, <2>5, <2>6, <2>7
    <3>2. \A k \in 1 .. Len(handled') - 1 : stream'[k].fate = "ok"
      BY <1>1, <1>12, <2>7
    <3> QED
      BY <1>1, <1>3, <2>5, <2>7, <3>1, <3>2 DEF HistoryOK
  <2>9. Current' = c + 1 /\ StartOf'[Current'] = q + size
    <3>1. StartOf[c + 1] = StartOf[c] + HeaderSize + stream[c].len
      BY <1>3, StartEquations DEF FrameInv
    <3> QED
      BY <1>3, <1>7, <2>7, <3>1 DEF Current, p
  <2>10. Len(header') = 0 /\ Len(payload') = 0 /\ 0 \in 0 .. MaxPayload
    BY <2>1, FramingBounds
  <2>11. PartsOK'
    BY <2>1, <2>10, NoBytes, FramingBounds DEF PartsOK
  <2>12. pc' = "loop" => Reading'
    <3>1. Consumed' = q + size
      BY <1>2, <1>13, <1>14, <1>17, <2>4
    <3>2. q + size = q + size + 0 + 0
      BY <1>2
    <3>3. Consumed' = StartOf'[Current'] + Len(header') + Len(payload')
      BY <2>9, <2>10, <3>1, <3>2
    <3>4. pc' = "loop" => \A k \in 1 .. Len(handled') : stream'[k].fate = "ok"
      BY <1>1, <1>12, <2>3, <2>7
    <3> QED
      BY <2>10, <3>3, <3>4, FramingBounds DEF Reading
  <2> QED
    BY <1>7, <2>3, <2>4, <2>8, <2>11, <2>12 DEF FrameInv
<1> QED
  BY <1>1, <1>16, <1>17

LEMMA NextFrame == FrameInv /\ [Next]_vars => FrameInv'
<1> SUFFICES ASSUME FrameInv, [Next]_vars PROVE FrameInv'
  OBVIOUS
<1>1. CASE UNCHANGED vars
  <2>1. UNCHANGED <<stream, arrived, readBuffer, header, payload, size, handled, pc>>
    BY <1>1 DEF vars
  <2>2. BufferOK'
    BY <2>1, StartSame DEF FrameInv, BufferOK
  <2>3. pc # "closed" => Reading'
    BY <2>1, HistorySame DEF FrameInv, Reading, Consumed
  <2> QED
    BY <2>1, <2>2, <2>3, HistorySame, PartsSame DEF FrameInv
<1> QED
  BY <1>1, ReadHandlerInternalFrame, LoopEndsFrame, ReadHeaderFrame, HeaderPresentFrame,
     ReadPayloadFrame DEF Next, Done

THEOREM FrameInvariant == Spec => []FrameInv
BY InitFrame, NextFrame, PTL DEF Spec

\* In whatever chunks the stream of the server arrives, ReadDataHandler() gets the
\* payloads of its packets, whole, in their order and up to the first bad one, and
\* the read buffer is never outgrown.
THEOREM FramingCorrect == Spec => []FramingInv
<1>1. FrameInv => FramingInv
  <2> SUFFICES ASSUME FrameInv PROVE FramingInv
    OBVIOUS
  <2>1. TypeOK
    <3>1. arrived \in 0 .. StartOf[Len(stream) + 1]
      BY FrameFacts DEF FrameInv, BufferOK, End
    <3>2. Len(header) <= HeaderSize /\ Len(payload) <= size /\ size \in 0 .. MaxPayload
      BY FramingBounds DEF FrameInv, PartsOK
    <3> QED
      BY <3>1, <3>2 DEF TypeOK, FrameInv, BufferOK
  <2>2. PacketsAsSent /\ NothingAfterBad
    <3>1. DOMAIN handled = 1 .. Len(handled)
      BY DEF FrameInv, HistoryOK
    <3> QED
      BY <3>1 DEF FrameInv, HistoryOK, PacketsAsSent, NothingAfterBad
  <2>3. HeaderInStep
    BY DEF FrameInv, PartsOK, HeaderInStep, HeaderOf, Current
  <2>4. ReadBufferKeepsSize
    BY DEF FrameInv, BufferOK, ReadBufferKeepsSize
  <2> QED
    BY <2>1, <2>2, <2>3, <2>4 DEF FramingInv
<1> QED
  BY <1>1, FrameInvariant, PTL

\* ReadHandler() never comes to an ASSERT at a break of its loop with bytes left in the
\* buffer.
THEOREM NoAbort == Spec => []AssertsHold
<1>1. FrameInv => AssertsHold
  BY DEF FrameInv, AssertsHold
<1> QED
  BY <1>1, FrameInvariant, PTL

\* Whenever a read is outstanding, every packet that has arrived was handled.
THEOREM Prompt == Spec => []HandledPromptly
<1>1. FrameInv => HandledPromptly
  <2> SUFFICES ASSUME FrameInv, pc = "idle"
               PROVE  Len(handled) = Cardinality({k \in 1 .. Len(stream) : StartOf[k + 1] <= arrived})
    BY DEF HandledPromptly
  <2> DEFINE h == Len(handled)
  <2>1. /\ Len(stream) \in Nat /\ h \in Nat /\ h <= Len(stream) /\ Current = h + 1
        /\ Len(header) \in Nat /\ Len(payload) \in Nat /\ StartOf[h + 1] \in Nat /\ arrived \in Nat
        /\ \A k \in 1 .. Len(stream) + 1 : StartOf[k] \in Nat
    BY FrameFacts, StartNatural DEF FrameInv, HistoryOK, Current
  <2>2. arrived = StartOf[h + 1] + Len(header) + Len(payload)
    <3>1. ActiveSize(readBuffer) = 0
      BY DEF FrameInv, BufferOK, ActiveSize
    <3> QED
      BY <2>1, <3>1 DEF FrameInv, Reading, Consumed
  <2>3. ASSUME NEW k \in 1 .. h PROVE StartOf[k + 1] <= arrived
    <3>1. k \in 1 .. Len(stream) /\ h + 1 \in k + 1 .. Len(stream) + 1
      BY <2>1
    <3>2. /\ StartOf[k] + HeaderSize + stream[k].len <= StartOf[h + 1]
          /\ StartOf[k + 1] = StartOf[k] + HeaderSize + stream[k].len
      BY <3>1, StartIncreases, StartEquations DEF FrameInv
    <3> QED
      BY <2>1, <2>2, <3>1, <3>2, SMTT(30)
  <2>4. ASSUME NEW k \in h + 1 .. Len(stream) PROVE ~(StartOf[k + 1] <= arrived)
    <3>1. h + 1 \in 1 .. Len(stream) /\ k + 1 \in (h + 1) + 1 .. Len(stream) + 1
      BY <2>1
    <3>2. StartOf[h + 1] + HeaderSize + stream[h + 1].len <= StartOf[k + 1]
      BY <3>1, StartIncreases DEF FrameInv
    <3>3. stream[h + 1].len \in Nat /\ StartOf[k + 1] \in Nat /\ HeaderSize \in Nat
      BY <2>1, <3>1, PacketFacts, FramingBounds DEF FrameInv
    <3>4. Len(header) + Len(payload) < HeaderSize + stream[h + 1].len
      <4>1. CASE Len(header) = HeaderSize
        BY <2>1, <3>3, <4>1 DEF FrameInv, Reading
      <4>2. CASE Len(header) # HeaderSize
        <5>1. Len(header) < HeaderSize /\ Len(payload) = 0
          BY <2>1, <3>3, <4>2 DEF FrameInv, PartsOK
        <5> QED
          BY <2>1, <3>3, <5>1
      <4> QED
        BY <4>1, <4>2
    <3>5. \A s, e, f, g, l, t \in Nat :
             s + g + l <= t /\ e + f < g + l => ~(t <= s + e + f)
      OBVIOUS
    <3> QED
      BY <2>1, <2>2, <3>2, <3>3, <3>4, <3>5, Zenon
  <2>5. {k \in 1 .. Len(stream) : StartOf[k + 1] <= arrived} = 1 .. h
    <3>1. ASSUME NEW k \in 1 .. Len(stream) PROVE StartOf[k + 1] <= arrived <=> k \in 1 .. h
      <4>1. k \in 1 .. h \/ k \in h + 1 .. Len(stream)
        BY <2>1
      <4>2. k \in h + 1 .. Len(stream) => k \notin 1 .. h
        BY <2>1
      <4> QED
        BY <2>3, <2>4, <4>1, <4>2
    <3>2. 1 .. h \subseteq 1 .. Len(stream)
      BY <2>1
    <3> QED
      BY <3>1, <3>2
  <2>6. Cardinality(1 .. h) = h
    <3>0. h \in Int /\ 1 \in Int
      BY <2>1
    <3> HIDE DEF h
    <3>1. Cardinality(1 .. h) = IF 1 > h THEN 0 ELSE h - 1 + 1
      BY <3>0, FS_Interval
    <3> QED
      BY <2>1, <3>1
  <2> QED
    BY <2>5, <2>6
<1> QED
  BY <1>1, FrameInvariant, PTL
=============================================================================
