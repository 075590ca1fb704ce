--------------------------- MODULE PacketsProofs ---------------------------
(***************************************************************************)
(* Proofs about the packets of Library, for every set of values and any    *)
(* number of items; the facts about numbers and sequences they rest on are *)
(* those of LibraryProofs.                                                 *)
(***************************************************************************)
EXTENDS LibraryProofs

-----------------------------------------------------------------------------
(***************************************************************************)
(* Packets: numbers in bytes                                               *)
(***************************************************************************)
ShiftedOf(n, k, f) == f = [i \in 0 .. k |-> IF i = 0 THEN n ELSE f[i - 1] \div 256]
ShiftedFrom(n, k) == CHOOSE f : ShiftedOf(n, k, f)

LEMMA ShiftSteps ==
    ASSUME NEW n \in Int, NEW k \in Nat
    PROVE  /\ Packet!Shifted(n, k) = ShiftedFrom(n, k)[k]
           /\ \A i \in 0 .. k : ShiftedFrom(n, k)[i] \in Int
           /\ \A i \in 0 .. k :
                ShiftedFrom(n, k)[i] = IF i = 0 THEN n ELSE ShiftedFrom(n, k)[i - 1] \div 256
<1> DEFINE D == [p \in (1 .. k) \X Int |-> p[2] \div 256]
           r == ShiftedFrom(n, k)
<1>1. D \in [(1 .. k) \X Int -> Int]
  OBVIOUS
<1>2. PICK f \in [0 .. k -> Int] : Stepwise(k, n, D, f)
  <2> HIDE DEF D
  <2> QED
    BY <1>1, StepsExist
<1>3. \A i \in 0 .. k : f[i] = IF i = 0 THEN n ELSE f[i - 1] \div 256
  <2> TAKE i \in 0 .. k
  <2>1. CASE i = 0
    BY <1>2, <2>1 DEF Stepwise
  <2>2. CASE i # 0
    <3>1. i \in 1 .. k /\ i - 1 \in 0 .. k
      BY <2>2
    <3>2. f[i] = D[<<i, f[i - 1]>>] /\ <<i, f[i - 1]>> \in (1 .. k) \X Int
      BY <1>2, <3>1 DEF Stepwise
    <3>3. D[<<i, f[i - 1]>>] = f[i - 1] \div 256
      BY <3>2
    <3> QED
      BY <2>2, <3>2, <3>3
  <2> QED
    BY <2>1, <2>2
<1>4. ShiftedOf(n, k, f)
  BY <1>2, <1>3 DEF ShiftedOf
<1>5. ShiftedOf(n, k, r)
  BY <1>4, Zenon DEF ShiftedFrom
<1>6. Packet!Shifted(n, k) = r[k]
  BY Zenon DEF Packet!Shifted, ShiftedOf, ShiftedFrom
<1> HIDE DEF r
<1>7. \A i \in 0 .. k : r[i] = IF i = 0 THEN n ELSE r[i - 1] \div 256
  BY <1>5, Zenon DEF ShiftedOf
<1> DEFINE P == {i \in 0 .. k : r[i] \in Int}
<1>8. 0 \in P
  BY <1>7
<1>9. ASSUME NEW i \in 1 .. k, i - 1 \in P PROVE i \in P
  <2>1. i \in 0 .. k /\ i # 0 /\ r[i - 1] \in Int
    BY <1>9
  <2>2. r[i] = r[i - 1] \div 256
    BY <1>7, <2>1
  <2> QED
    BY <2>1, <2>2
<1>10. \A i \in 0 .. k : r[i] \in Int
  <2>1. \A i \in 0 .. k : i \in P
    <3> HIDE DEF P
    <3> QED
      BY <1>8, <1>9, Climb
  <2> QED
    BY <2>1
<1> QED
  BY <1>6, <1>7, <1>10 DEF r

\* A shift by one byte more divides once more.
\* A shift by one byte more divides by 256 once more.  As a predicate it can be cited for
\* any k without being applied to k + 1, k + 2 and so on.
Shifts(n, k) ==
    /\ Packet!Shifted(n, k) \in Int /\ Packet!Shifted(n, 0) = n
    /\ Packet!Shifted(n, k + 1) = Packet!Shifted(n, k) \div 256

LEMMA ShiftByOne ==
    ASSUME NEW n \in Int, NEW k \in Nat
    PROVE  Shifts(n, k)
<1> DEFINE r == ShiftedFrom(n, k)
           s == ShiftedFrom(n, k + 1)
<1>1. Packet!Shifted(n, k) = r[k] /\ (\A i \in 0 .. k : r[i] \in Int)
  BY ShiftSteps
<1>2. \A i \in 0 .. k : r[i] = IF i = 0 THEN n ELSE r[i - 1] \div 256
  BY ShiftSteps
<1>3. k + 1 \in Nat
  OBVIOUS
<1>4. Packet!Shifted(n, k + 1) = s[k + 1]
  BY <1>3, ShiftSteps
<1>5. \A i \in 0 .. k + 1 : s[i] = IF i = 0 THEN n ELSE s[i - 1] \div 256
  BY <1>3, ShiftSteps
<1>6. Packet!Shifted(n, 0) = n
  <2>1. 0 \in Nat /\ 0 \in 0 .. 0
    OBVIOUS
  <2>2. Packet!Shifted(n, 0) = ShiftedFrom(n, 0)[0]
    BY <2>1, ShiftSteps
  <2>3. \A i \in 0 .. 0 : ShiftedFrom(n, 0)[i] = IF i = 0 THEN n ELSE ShiftedFrom(n, 0)[i - 1] \div 256
    BY <2>1, ShiftSteps
  <2> QED
    BY <2>1, <2>2, <2>3
<1> HIDE DEF r, s
<1> DEFINE P == {i \in 0 .. k : s[i] = r[i]}
<1>7. 0 \in P
  BY <1>2, <1>5
<1>8. ASSUME NEW i \in 1 .. k, i - 1 \in P PROVE i \in P
  <2>1. i \in 0 .. k /\ i \in 0 .. k + 1 /\ i # 0 /\ s[i - 1] = r[i - 1]
    BY <1>8
  <2>2. r[i] = r[i - 1] \div 256 /\ s[i] = s[i - 1] \div 256
    BY <1>2, <1>5, <2>1
  <2> QED
    BY <2>1, <2>2
<1>9. s[k] = r[k]
  <2>1. \A i \in 0 .. k : i \in P
    <3> HIDE DEF P
    <3> QED
      BY <1>7, <1>8, Climb
  <2> QED
    BY <2>1
<1>10. s[k + 1] = s[k] \div 256
  <2>1. k + 1 \in 0 .. k + 1 /\ k + 1 # 0 /\ (k + 1) - 1 = k
    OBVIOUS
  <2> QED
    BY <1>5, <2>1
<1> QED
  BY <1>1, <1>4, <1>6, <1>9, <1>10 DEF Shifts

LEMMA ShiftGoesOn ==
    ASSUME NEW n \in Int, NEW k \in Nat
    PROVE  /\ Packet!Shifted(n, k) \in Int /\ Packet!Shifted(n, 0) = n
           /\ Packet!Shifted(n, k + 1) = Packet!Shifted(n, k) \div 256
<1>1. Shifts(n, k)
  BY ShiftByOne
<1> QED
  BY <1>1 DEF Shifts

NumberOf(bytes, top, f) ==
    f = [i \in 0 .. Len(bytes) |-> IF i = 0 THEN IF top THEN -1 ELSE 0
                                   ELSE bytes[Len(bytes) + 1 - i] + 256 * f[i - 1]]
NumberFrom(bytes, top) == CHOOSE f : NumberOf(bytes, top, f)
Negative(bytes, signed) == signed /\ bytes[Len(bytes)] >= 128

LEMMA NumberSteps ==
    ASSUME NEW bytes \in Seq(Int), NEW signed
    PROVE  /\ Packet!Number(bytes, signed) = NumberFrom(bytes, Negative(bytes, signed))[Len(bytes)]
           /\ \A i \in 0 .. Len(bytes) :
                NumberFrom(bytes, Negative(bytes, signed))[i] =
                    IF i = 0 THEN IF Negative(bytes, signed) THEN -1 ELSE 0
                    ELSE bytes[Len(bytes) + 1 - i] + 256 * NumberFrom(bytes, Negative(bytes, signed))[i - 1]
<1> DEFINE n == Len(bytes)
           top == Negative(bytes, signed)
           x == IF top THEN -1 ELSE 0
           D == [p \in (1 .. n) \X Int |-> bytes[n + 1 - p[1]] + 256 * p[2]]
           r == NumberFrom(bytes, top)
<1>0. n \in Nat /\ x \in Int
  OBVIOUS
<1>1. D \in [(1 .. n) \X Int -> Int]
  <2>1. \A i \in 1 .. n, a \in Int : bytes[n + 1 - i] + 256 * a \in Int
    <3> TAKE i \in 1 .. n, a \in Int
    <3>1. n + 1 - i \in 1 .. n
      BY <1>0
    <3>2. bytes[n + 1 - i] \in Int
      BY <3>1
    <3> QED
      BY <3>2
  <2> QED
    BY <2>1
<1>2. PICK f \in [0 .. n -> Int] : Stepwise(n, x, D, f)
  <2> HIDE DEF D, x, n
  <2> QED
    BY <1>0, <1>1, StepsExist
<1>3. \A i \in 0 .. n : f[i] = IF i = 0 THEN x ELSE bytes[n + 1 - i] + 256 * f[i - 1]
  <2> TAKE i \in 0 .. n
  <2> HIDE DEF x
  <2>1. CASE i = 0
    BY <1>2, <2>1 DEF Stepwise
  <2>2. CASE i # 0
    <3>1. i \in 1 .. n /\ i - 1 \in 0 .. n
      BY <2>2
    <3>2. f[i] = D[<<i, f[i - 1]>>] /\ <<i, f[i - 1]>> \in (1 .. n) \X Int
      BY <1>2, <3>1 DEF Stepwise
    <3>3. D[<<i, f[i - 1]>>] = bytes[n + 1 - i] + 256 * f[i - 1]
      BY <3>2
    <3> QED
      BY <2>2, <3>2, <3>3
  <2> QED
    BY <2>1, <2>2
<1>4. NumberOf(bytes, top, f)
  <2> HIDE DEF top
  <2> QED
    BY <1>2, <1>3 DEF NumberOf
<1>5. NumberOf(bytes, top, r)
  BY <1>4, Zenon DEF NumberFrom
<1>6. Packet!Number(bytes, signed) = r[n]
  BY Zenon DEF Packet!Number, NumberOf, NumberFrom, Negative
<1> HIDE DEF r
<1>7. \A i \in 0 .. n : r[i] = IF i = 0 THEN x ELSE bytes[n + 1 - i] + 256 * r[i - 1]
  BY <1>5, Zenon DEF NumberOf
<1> QED
  BY <1>6, <1>7 DEF r

\* A number has the bytes that LittleEndian() gives it, if its highest byte is one.
Small(top, signed) == top \in (IF signed THEN -128 .. 127 ELSE 0 .. 255)

LEMMA BytesOfNumber ==
    ASSUME NEW n \in Int, NEW width \in Nat
    PROVE  /\ Packet!LittleEndian(n, width) \in Seq(Int)
           /\ Len(Packet!LittleEndian(n, width)) = width
           /\ \A i \in 1 .. width : Packet!LittleEndian(n, width)[i] = (Packet!Shifted(n, i - 1) % 256)
<1> DEFINE bytes == Packet!LittleEndian(n, width)
<1>1. bytes = [i \in 1 .. width |-> Packet!Shifted(n, i - 1) % 256]
  BY DEF Packet!LittleEndian
<1>2. \A i \in 1 .. width : Packet!Shifted(n, i - 1) % 256 \in Int
  <2> TAKE i \in 1 .. width
  <2>1. i - 1 \in Nat
    OBVIOUS
  <2>2. Packet!Shifted(n, i - 1) \in Int
    BY <2>1, ShiftGoesOn
  <2> QED
    BY <2>2
<1> HIDE DEF bytes
<1>3. bytes \in [1 .. width -> Int]
  BY <1>1, <1>2
<1> QED
  BY <1>1, <1>3 DEF bytes

LEMMA BytesAreInts ==
    ASSUME NEW n \in Int, NEW width \in Nat
    PROVE  /\ Packet!LittleEndian(n, width) \in Seq(Int)
           /\ Len(Packet!LittleEndian(n, width)) = width
BY BytesOfNumber

LEMMA NumberReturns ==
    ASSUME NEW n \in Int, NEW width \in Nat \ {0}, NEW signed \in BOOLEAN,
           Small(Packet!Shifted(n, width - 1), signed)
    PROVE  Packet!Number(Packet!LittleEndian(n, width), signed) = n
<1> DEFINE bytes == Packet!LittleEndian(n, width)
           neg == Negative(bytes, signed)
           r == NumberFrom(bytes, neg)
           S(k) == Packet!Shifted(n, k)
<1>1. ASSUME NEW k \in Nat PROVE S(k) \in Int /\ S(k + 1) = S(k) \div 256
  <2>1. Shifts(n, k)
    BY <1>1, ShiftByOne
  <2> QED
    BY <2>1 DEF Shifts
<1>2. bytes \in Seq(Int) /\ Len(bytes) = width /\ \A i \in 1 .. width : bytes[i] = (S(i - 1) % 256)
  BY BytesOfNumber
<1>3. Small(S(width - 1), signed) /\ S(0) = n
  BY ShiftGoesOn
<1>4. bytes \in Seq(Int)
  BY <1>2
<1>5. Packet!Number(bytes, signed) = r[Len(bytes)]
  BY <1>4, NumberSteps
<1>6. \A i \in 0 .. Len(bytes) :
        r[i] = IF i = 0 THEN IF neg THEN -1 ELSE 0 ELSE bytes[Len(bytes) + 1 - i] + 256 * r[i - 1]
  BY <1>4, NumberSteps
<1>7. neg = (signed /\ bytes[width] >= 128)
  BY <1>2 DEF Negative
<1> HIDE DEF r, bytes, neg, S
<1>8. S(width) = IF neg THEN -1 ELSE 0
  <2>1. width - 1 \in Nat /\ (width - 1) + 1 = width /\ width \in 1 .. width
    OBVIOUS
  <2>2. S(width - 1) \in Int /\ S(width) = S(width - 1) \div 256
    BY <1>1, <2>1
  <2>3. bytes[width] = (S(width - 1) % 256)
    BY <1>2, <2>1
  <2> DEFINE a == S(width - 1)
  <2>4. a \in (IF signed THEN -128 .. 127 ELSE 0 .. 255) /\ a \in Int
    BY <1>3, <2>2 DEF Small
  <2>5. bytes[width] = (a % 256) /\ S(width) = a \div 256
    BY <2>2, <2>3
  <2> HIDE DEF a
  <2>6. CASE signed
    <3>1. neg = (a % 256 >= 128) /\ a \in -128 .. 127
      BY <1>7, <2>4, <2>5, <2>6
    <3>2. CASE a < 0
      <4>1. a \div 256 = -1 /\ a % 256 >= 128
        BY <3>1, <3>2
      <4> QED
        BY <2>5, <3>1, <4>1
    <3>3. CASE ~(a < 0)
      <4>1. a \div 256 = 0 /\ ~(a % 256 >= 128)
        BY <3>1, <3>3
      <4> QED
        BY <2>5, <3>1, <4>1
    <3> QED
      BY <3>2, <3>3
  <2>7. CASE ~signed
    <3>1. ~neg
      BY <1>7, <2>7
    <3> QED
      BY <2>4, <2>5, <2>7, <3>1
  <2> QED
    BY <2>6, <2>7
<1> DEFINE P == {i \in 0 .. width : r[i] = S(width - i)}
<1>9. 0 \in P
  BY <1>2, <1>6, <1>8
<1>10. ASSUME NEW i \in 1 .. width, i - 1 \in P PROVE i \in P
  <2> DEFINE k == width - i
  <2>1. k \in Nat /\ k + 1 = width - (i - 1) /\ width + 1 - i = k + 1 /\ k + 1 \in 1 .. width /\ (k + 1) - 1 = k
    OBVIOUS
  <2>2. r[i - 1] = S(k + 1)
    BY <1>10, <2>1
  <2> HIDE DEF k
  <2>3. S(k) \in Int /\ r[i - 1] = S(k) \div 256
    BY <1>1, <2>1, <2>2
  <2>4. bytes[width + 1 - i] = (S(k) % 256)
    BY <1>2, <2>1
  <2>5. r[i] = bytes[width + 1 - i] + 256 * r[i - 1]
    BY <1>2, <1>6
  <2>6. r[i] = S(k)
    BY <2>3, <2>4, <2>5
  <2> QED
    BY <2>6 DEF k
<1>11. r[width] = S(0)
  <2>1. \A i \in 0 .. width : i \in P
    <3> HIDE DEF P
    <3> QED
      BY <1>9, <1>10, Climb
  <2>2. r[width] = S(width - width)
    BY <2>1
  <2> QED
    BY <2>2
<1> QED
  BY <1>2, <1>3, <1>5, <1>11 DEF bytes

-----------------------------------------------------------------------------
(***************************************************************************)
(* Packets: guids                                                          *)
(***************************************************************************)
Guids == [1 .. 8 -> 0 .. 255]
Strings == Seq(Int) \ {<< >>}

Grown(bytes, i, n) == <<bytes[1] + Packet!Bit[i]>> \o Tail(bytes) \o <<n>>
PackedOf(guid, f) ==
    f = [i \in 0 .. 8 |-> IF i = 0 THEN <<0>>
                          ELSE IF guid[i] = 0 THEN f[i - 1]
                          ELSE <<f[i - 1][1] + Packet!Bit[i]>> \o Tail(f[i - 1]) \o <<guid[i]>>]
PackedFrom(guid) == CHOOSE f : PackedOf(guid, f)

\* A byte behind the others and a bit in the mask.
LEMMA GrownByOne ==
    ASSUME NEW bytes \in Strings, NEW i \in 1 .. 8, NEW n \in Int
    PROVE  /\ Grown(bytes, i, n) \in Strings /\ Len(Grown(bytes, i, n)) = Len(bytes) + 1
           /\ Grown(bytes, i, n)[1] = bytes[1] + Packet!Bit[i]
           /\ \A j \in 2 .. Len(bytes) : Grown(bytes, i, n)[j] = bytes[j]
           /\ Grown(bytes, i, n)[Len(bytes) + 1] = n
<1>1. Packet!Bit[i] \in Int
  BY DEF Packet!Bit
<1> DEFINE m == bytes[1] + Packet!Bit[i]
           t == Tail(bytes)
           x == <<m>> \o t
           y == x \o <<n>>
<1>2. bytes \in Seq(Int) /\ bytes # << >> /\ Len(bytes) \in Nat /\ Len(bytes) >= 1 /\ bytes[1] \in Int
  BY DEF Strings
<1>3. m \in Int /\ <<m>> \in Seq(Int) /\ Len(<<m>>) = 1 /\ <<m>>[1] = m
  BY <1>1, <1>2
<1>4. t \in Seq(Int) /\ Len(t) = Len(bytes) - 1 /\ \A j \in 1 .. Len(bytes) - 1 : t[j] = bytes[j + 1]
  BY <1>2
<1> HIDE DEF m, t
<1>5. /\ x \in Seq(Int) /\ Len(x) = Len(bytes) /\ x[1] = m
      /\ \A j \in 1 .. Len(bytes) : j > 1 => x[j] = t[j - 1]
  <2>1. /\ x \in Seq(Int) /\ Len(x) = Len(<<m>>) + Len(t)
        /\ \A j \in 1 .. Len(<<m>>) : x[j] = <<m>>[j]
        /\ \A j \in 1 .. Len(<<m>>) + Len(t) : j > Len(<<m>>) => j - Len(<<m>>) \in 1 .. Len(t) /\ x[j] = t[j - Len(<<m>>)]
    BY <1>3, <1>4, Joined
  <2> QED
    BY <1>2, <1>3, <1>4, <2>1
<1>6. \A j \in 2 .. Len(bytes) : x[j] = bytes[j]
  BY <1>2, <1>4, <1>5
<1> HIDE DEF x
<1>7. /\ y \in Seq(Int) /\ Len(y) = Len(bytes) + 1
      /\ \A j \in 1 .. Len(bytes) : y[j] = x[j]
      /\ y[Len(bytes) + 1] = n
  BY <1>2, <1>5
<1>8. Grown(bytes, i, n) = y
  BY DEF Grown, y, x, m, t
<1> HIDE DEF y
<1>9. y[1] = m /\ y # << >> /\ \A j \in 2 .. Len(bytes) : y[j] = bytes[j]
  <2>1. 1 \in 1 .. Len(bytes) /\ y[1] = x[1] /\ y # << >>
    BY <1>2, <1>7
  <2>2. \A j \in 2 .. Len(bytes) : j \in 1 .. Len(bytes)
    OBVIOUS
  <2> QED
    BY <1>5, <1>6, <1>7, <2>1, <2>2
<1> HIDE DEF y
<1> QED
  BY <1>7, <1>8, <1>9 DEF Strings, m

LEMMA PackSteps ==
    ASSUME NEW guid \in Guids
    PROVE  /\ Packet!PackGUID(guid) = PackedFrom(guid)[8]
           /\ PackedFrom(guid)[0] = <<0>>
           /\ \A i \in 0 .. 8 : PackedFrom(guid)[i] \in Strings
           /\ \A i \in 1 .. 8 :
                PackedFrom(guid)[i] = IF guid[i] = 0 THEN PackedFrom(guid)[i - 1]
                                      ELSE Grown(PackedFrom(guid)[i - 1], i, guid[i])
<1> DEFINE D == [p \in (1 .. 8) \X Strings |-> IF guid[p[1]] = 0 THEN p[2] ELSE Grown(p[2], p[1], guid[p[1]])]
           r == PackedFrom(guid)
<1>0. \A i \in 1 .. 8 : guid[i] \in Int
  BY DEF Guids
<1>1. D \in [(1 .. 8) \X Strings -> Strings]
  <2>1. \A i \in 1 .. 8, s \in Strings : Grown(s, i, guid[i]) \in Strings
    BY <1>0, GrownByOne
  <2> QED
    BY <2>1
<1>2. <<0>> \in Strings
  BY DEF Strings
<1>3. PICK f \in [0 .. 8 -> Strings] : Stepwise(8, <<0>>, D, f)
  <2> HIDE DEF D
  <2>1. 8 \in Nat
    OBVIOUS
  <2> QED
    BY <1>1, <1>2, <2>1, StepsExist
<1>4. \A i \in 1 .. 8 : f[i] = IF guid[i] = 0 THEN f[i - 1] ELSE Grown(f[i - 1], i, guid[i])
  <2> TAKE i \in 1 .. 8
  <2>1. i - 1 \in 0 .. 8
    OBVIOUS
  <2>2. f[i] = D[<<i, f[i - 1]>>] /\ <<i, f[i - 1]>> \in (1 .. 8) \X Strings
    BY <1>3, <2>1 DEF Stepwise
  <2> QED
    BY <2>2
<1>5. PackedOf(guid, f)
  <2>1. f[0] = <<0>>
    BY <1>3 DEF Stepwise
  <2>2. \A i \in 0 .. 8 : f[i] = IF i = 0 THEN <<0>>
                          ELSE IF guid[i] = 0 THEN f[i - 1]
                          ELSE <<f[i - 1][1] + Packet!Bit[i]>> \o Tail(f[i - 1]) \o <<guid[i]>>
    <3> TAKE i \in 0 .. 8
    <3>1. i # 0 => i \in 1 .. 8
      OBVIOUS
    <3> QED
      BY <1>4, <2>1, <3>1, Zenon DEF Grown
  <2> QED
    BY <1>3, <2>2, Zenon DEF PackedOf
<1>6. PackedOf(guid, r)
  BY <1>5, Zenon DEF PackedFrom
<1>7. Packet!PackGUID(guid) = r[8]
  BY Zenon DEF Packet!PackGUID, PackedOf, PackedFrom
<1> HIDE DEF r
<1>8. r[0] = <<0>>
  <2>1. 0 \in 0 .. 8
    OBVIOUS
  <2> QED
    BY <1>6, <2>1, Zenon DEF PackedOf
<1>9. \A i \in 1 .. 8 : r[i] = IF guid[i] = 0 THEN r[i - 1] ELSE Grown(r[i - 1], i, guid[i])
  <2> TAKE i \in 1 .. 8
  <2>1. i \in 0 .. 8 /\ i # 0
    OBVIOUS
  <2> QED
    BY <1>6, <2>1, Zenon DEF PackedOf, Grown
<1> DEFINE P == {i \in 0 .. 8 : r[i] \in Strings}
<1>10. 0 \in P
  BY <1>2, <1>8
<1>11. ASSUME NEW i \in 1 .. 8, i - 1 \in P PROVE i \in P
  <2>1. i \in 0 .. 8 /\ r[i - 1] \in Strings /\ guid[i] \in Int
    BY <1>0, <1>11
  <2>2. Grown(r[i - 1], i, guid[i]) \in Strings
    BY <2>1, GrownByOne
  <2> QED
    BY <1>9, <2>1, <2>2
<1>12. \A i \in 0 .. 8 : r[i] \in Strings
  <2>1. \A i \in 0 .. 8 : i \in P
    <3> HIDE DEF P
    <3>1. 8 \in Nat
      OBVIOUS
    <3> QED
      BY <1>10, <1>11, <3>1, Climb
  <2> QED
    BY <2>1
<1> QED
  BY <1>7, <1>8, <1>9, <1>12 DEF r

\* What PackGUID() leaves: a bit for each byte that is not zero, and those bytes.
Sum(c1, c2, c3, c4, c5, c6, c7, c8) ==
    c1 + 2 * c2 + 4 * c3 + 8 * c4 + 16 * c5 + 32 * c6 + 64 * c7 + 128 * c8
BitsTell(n, c1, c2, c3, c4, c5, c6, c7, c8) ==
    /\ (n \div 1) % 2 = c1 /\ (n \div 2) % 2 = c2 /\ (n \div 4) % 2 = c3 /\ (n \div 8) % 2 = c4
    /\ (n \div 16) % 2 = c5 /\ (n \div 32) % 2 = c6 /\ (n \div 64) % 2 = c7 /\ (n \div 128) % 2 = c8

LEMMA MaskTells ==
    ASSUME NEW guid \in Guids, NEW i \in 1 .. 8
    PROVE  (PackedFrom(guid)[8][1] \div Packet!Bit[i]) % 2 = IF guid[i] = 0 THEN 0 ELSE 1
<1> DEFINE m(k) == PackedFrom(guid)[k][1]
           b(k) == IF guid[k] = 0 THEN 0 ELSE 1
<1>1. m(0) = 0
  BY PackSteps
<1>2. ASSUME NEW k \in 1 .. 8 PROVE m(k) = m(k - 1) + Packet!Bit[k] * b(k) /\ m(k) \in Int
  <2> DEFINE s == PackedFrom(guid)[k - 1]
             t == PackedFrom(guid)[k]
  <2>1. k - 1 \in 0 .. 8 /\ k \in 0 .. 8 /\ guid[k] \in Int /\ Packet!Bit[k] \in Int
    BY DEF Packet!Bit, Guids
  <2>2. s \in Strings /\ t \in Strings
    BY <2>1, PackSteps
  <2>3. t = IF guid[k] = 0 THEN s ELSE Grown(s, k, guid[k])
    BY PackSteps
  <2> HIDE DEF s, t
  <2>4. Grown(s, k, guid[k])[1] = s[1] + Packet!Bit[k]
    BY <2>1, <2>2, GrownByOne
  <2>5. s[1] \in Int /\ t[1] \in Int
    BY <2>2 DEF Strings
  <2>6. t[1] = s[1] + Packet!Bit[k] * b(k)
    BY <2>1, <2>3, <2>4, <2>5
  <2> QED
    BY <2>5, <2>6 DEF s, t
<1>3. \A k \in 1 .. 8 : b(k) \in {0, 1}
  OBVIOUS
<1> HIDE DEF m, b
<1>4. m(1) = b(1) /\ m(1) \in Int
  BY <1>1, <1>2, <1>3 DEF Packet!Bit
<1>5. m(2) = b(1) + 2 * b(2)
  BY <1>2, <1>3, <1>4 DEF Packet!Bit
<1>6. m(3) = b(1) + 2 * b(2) + 4 * b(3)
  BY <1>2, <1>3, <1>5 DEF Packet!Bit
<1>7. m(4) = b(1) + 2 * b(2) + 4 * b(3) + 8 * b(4)
  BY <1>2, <1>3, <1>6 DEF Packet!Bit
<1>8. m(5) = b(1) + 2 * b(2) + 4 * b(3) + 8 * b(4) + 16 * b(5)
  BY <1>2, <1>3, <1>7 DEF Packet!Bit
<1>9. m(6) = b(1) + 2 * b(2) + 4 * b(3) + 8 * b(4) + 16 * b(5) + 32 * b(6)
  BY <1>2, <1>3, <1>8 DEF Packet!Bit
<1>10. m(7) = b(1) + 2 * b(2) + 4 * b(3) + 8 * b(4) + 16 * b(5) + 32 * b(6) + 64 * b(7)
  BY <1>2, <1>3, <1>9 DEF Packet!Bit
<1>11. m(8) = b(1) + 2 * b(2) + 4 * b(3) + 8 * b(4) + 16 * b(5) + 32 * b(6) + 64 * b(7) + 128 * b(8)
  BY <1>2, <1>3, <1>10 DEF Packet!Bit
<1>12. ASSUME NEW c1 \in {0, 1}, NEW c2 \in {0, 1}, NEW c3 \in {0, 1}, NEW c4 \in {0, 1},
              NEW c5 \in {0, 1}, NEW c6 \in {0, 1}, NEW c7 \in {0, 1}, NEW c8 \in {0, 1}
       PROVE  BitsTell(Sum(c1, c2, c3, c4, c5, c6, c7, c8), c1, c2, c3, c4, c5, c6, c7, c8)
  <2> DEFINE n == Sum(c1, c2, c3, c4, c5, c6, c7, c8)
  <2>0. n = c1 + 2 * c2 + 4 * c3 + 8 * c4 + 16 * c5 + 32 * c6 + 64 * c7 + 128 * c8 /\ n \in Int
    BY DEF Sum
  <2> HIDE DEF n
  <2>1. (n \div 1) % 2 = c1
    BY <2>0
  <2>2. (n \div 2) % 2 = c2
    BY <2>0
  <2>3. (n \div 4) % 2 = c3
    BY <2>0
  <2>4. (n \div 8) % 2 = c4
    BY <2>0
  <2>5. (n \div 16) % 2 = c5
    BY <2>0
  <2>6. (n \div 32) % 2 = c6
    BY <2>0
  <2>7. (n \div 64) % 2 = c7
    BY <2>0
  <2>8. (n \div 128) % 2 = c8
    BY <2>0
  <2> QED
    BY <2>1, <2>2, <2>3, <2>4, <2>5, <2>6, <2>7, <2>8 DEF BitsTell, n
<1>13. m(8) = Sum(b(1), b(2), b(3), b(4), b(5), b(6), b(7), b(8))
  BY <1>11 DEF Sum
<1>14. BitsTell(m(8), b(1), b(2), b(3), b(4), b(5), b(6), b(7), b(8))
  <2>1. /\ b(1) \in {0, 1} /\ b(2) \in {0, 1} /\ b(3) \in {0, 1} /\ b(4) \in {0, 1}
        /\ b(5) \in {0, 1} /\ b(6) \in {0, 1} /\ b(7) \in {0, 1} /\ b(8) \in {0, 1}
    BY <1>3
  <2> QED
    BY <1>12, <1>13, <2>1
<1>15. i \in {1, 2, 3, 4, 5, 6, 7, 8}
  OBVIOUS
<1>16. (m(8) \div Packet!Bit[i]) % 2 = b(i)
  BY <1>14, <1>15 DEF Packet!Bit, BitsTell
<1> QED
  BY <1>16 DEF m, b

LEMMA PackKeeps ==
    ASSUME NEW guid \in Guids
    PROVE  /\ Packet!PackGUID(guid) = PackedFrom(guid)[8]
           /\ PackedFrom(guid)[8] \in Strings /\ Len(PackedFrom(guid)[0]) = 1
           /\ \A i \in 0 .. 8 : Len(PackedFrom(guid)[i]) \in 1 .. Len(PackedFrom(guid)[8])
           /\ \A i \in 1 .. 8 : guid[i] = 0 => PackedFrom(guid)[i] = PackedFrom(guid)[i - 1]
           /\ \A i \in 1 .. 8 : guid[i] # 0 =>
                /\ Len(PackedFrom(guid)[i]) = Len(PackedFrom(guid)[i - 1]) + 1
                /\ PackedFrom(guid)[8][Len(PackedFrom(guid)[i])] = guid[i]
<1> DEFINE r == PackedFrom(guid)
           n(k) == Len(r[k])
<1>1. /\ Packet!PackGUID(guid) = r[8] /\ r[0] = <<0>> /\ \A i \in 0 .. 8 : r[i] \in Strings
  BY PackSteps
<1>2. \A i \in 1 .. 8 : r[i] = IF guid[i] = 0 THEN r[i - 1] ELSE Grown(r[i - 1], i, guid[i])
  BY PackSteps
<1>3. \A i \in 1 .. 8 : guid[i] \in Int
  BY DEF Guids
<1> HIDE DEF r
<1>4. \A i \in 0 .. 8 : n(i) \in Nat /\ n(i) >= 1
  <2> TAKE i \in 0 .. 8
  <2>1. r[i] \in Strings
    BY <1>1
  <2> QED
    BY <2>1 DEF Strings
<1>5. ASSUME NEW i \in 1 .. 8
      PROVE  /\ n(i) >= n(i - 1) /\ \A j \in 2 .. n(i - 1) : r[i][j] = r[i - 1][j]
             /\ guid[i] = 0 => r[i] = r[i - 1]
             /\ guid[i] # 0 => n(i) = n(i - 1) + 1 /\ r[i][n(i)] = guid[i]
  <2>1. i - 1 \in 0 .. 8 /\ i \in 0 .. 8
    OBVIOUS
  <2>2. CASE guid[i] = 0
    <3>1. r[i] = r[i - 1]
      BY <1>2, <2>2
    <3> QED
      BY <1>4, <2>1, <2>2, <3>1
  <2>3. CASE guid[i] # 0
    <3> DEFINE s == r[i - 1]
               y == guid[i]
    <3>1. r[i] = Grown(s, i, y)
      BY <1>2, <2>3
    <3>2. s \in Strings /\ y \in Int
      BY <1>1, <1>3, <2>1
    <3> HIDE DEF s, y
    <3>3. Len(Grown(s, i, y)) = Len(s) + 1 /\ \A j \in 2 .. Len(s) : Grown(s, i, y)[j] = s[j]
      BY <3>2, GrownByOne
    <3>4. Grown(s, i, y)[Len(s) + 1] = y
      BY <3>2, GrownByOne
    <3>5. n(i) = n(i - 1) + 1 /\ r[i][n(i)] = guid[i] /\ \A j \in 2 .. n(i - 1) : r[i][j] = r[i - 1][j]
      BY <3>1, <3>3, <3>4 DEF s, y
    <3> QED
      BY <1>4, <2>1, <2>3, <3>5
  <2> QED
    BY <2>2, <2>3
<1> DEFINE P == {i \in 0 .. 8 : \A k \in 0 .. i : n(k) <= n(i) /\ \A j \in 2 .. n(k) : r[i][j] = r[k][j]}
<1>6. 0 \in P
  <2>1. \A k \in 0 .. 0 : k = 0
    OBVIOUS
  <2> QED
    BY <1>4, <2>1
<1>7. ASSUME NEW i \in 1 .. 8, i - 1 \in P PROVE i \in P
  <2>1. ASSUME NEW k \in 0 .. i PROVE n(k) <= n(i) /\ \A j \in 2 .. n(k) : r[i][j] = r[k][j]
    <3>1. CASE k = i
      BY <1>4, <3>1
    <3>2. CASE k # i
      <4>1. k \in 0 .. i - 1 /\ k \in 0 .. 8 /\ i - 1 \in 0 .. 8 /\ i \in 0 .. 8
        BY <3>2
      <4>2. n(k) <= n(i - 1) /\ \A j \in 2 .. n(k) : r[i - 1][j] = r[k][j]
        BY <1>7, <4>1
      <4>3. n(i) >= n(i - 1) /\ \A j \in 2 .. n(i - 1) : r[i][j] = r[i - 1][j]
        BY <1>5
      <4>4. n(k) \in Nat /\ n(i) \in Nat /\ n(i - 1) \in Nat
        BY <1>4, <4>1
      <4>5. \A j \in 2 .. n(k) : j \in 2 .. n(i - 1)
        BY <4>2, <4>4
      <4> HIDE DEF n
      <4> QED
        BY <4>2, <4>3, <4>4, <4>5
    <3> QED
      BY <3>1, <3>2
  <2> QED
    BY <2>1
<1>8. \A k \in 0 .. 8 : n(k) <= n(8) /\ \A j \in 2 .. n(k) : r[8][j] = r[k][j]
  <2>1. \A i \in 0 .. 8 : i \in P
    <3> HIDE DEF P
    <3>1. 8 \in Nat
      OBVIOUS
    <3> QED
      BY <1>6, <1>7, <3>1, Climb
  <2>2. 8 \in P
    BY <2>1
  <2> QED
    BY <2>2
<1>9. \A i \in 0 .. 8 : n(i) \in 1 .. n(8)
  <2> TAKE i \in 0 .. 8
  <2>1. n(i) \in Nat /\ n(i) >= 1 /\ n(i) <= n(8)
    BY <1>4, <1>8
  <2>2. n(8) \in Nat
    BY <1>4
  <2> HIDE DEF n
  <2> QED
    BY <2>1, <2>2
<1>10. ASSUME NEW i \in 1 .. 8, guid[i] # 0 PROVE n(i) = n(i - 1) + 1 /\ r[8][n(i)] = guid[i]
  <2>1. n(i) = n(i - 1) + 1 /\ r[i][n(i)] = guid[i]
    BY <1>5, <1>10
  <2>2. i \in 0 .. 8 /\ i - 1 \in 0 .. 8
    OBVIOUS
  <2>3. n(i) \in 2 .. n(i)
    BY <1>4, <2>1, <2>2
  <2>4. r[8][n(i)] = r[i][n(i)]
    BY <1>8, <2>2, <2>3
  <2> QED
    BY <2>1, <2>4
<1>11. n(0) = 1 /\ r[8] \in Strings /\ \A i \in 1 .. 8 : guid[i] = 0 => r[i] = r[i - 1]
  BY <1>1, <1>5
<1>12. Packet!PackGUID(guid) = r[8]
  BY <1>1
<1> QED
  BY <1>9, <1>10, <1>11, <1>12 DEF r

Buffers == [storage : Seq(Int), rpos : Nat, wpos : Nat, opcode : Packet!Opcodes]
Answers(b) == [rpos : b.rpos .. Packet!Size(b), value : {<< >>} \cup {<<s>> : s \in Seq(Int)}]

NextByte(b, i, r) ==
    IF r.value = << >> THEN r
    ELSE IF (b.storage[b.rpos + 1] \div Packet!Bit[i]) % 2 = 0
    THEN Packet!Gives(r.rpos, Append(r.value[1], 0))
    ELSE IF r.rpos + 1 > Packet!Size(b) THEN Packet!Throws(r.rpos)
    ELSE Packet!Gives(r.rpos + 1, Append(r.value[1], b.storage[r.rpos + 1]))
ReadOf(b, f) ==
    f = [i \in 0 .. 8 |-> IF i = 0 THEN Packet!Gives(b.rpos + 1, << >>) ELSE NextByte(b, i, f[i - 1])]
ReadFrom(b) == CHOOSE f : ReadOf(b, f)

\* The bytes that are there begin at the position.
Has(b, bytes) ==
    /\ b.rpos + Len(bytes) <= Packet!Size(b)
    /\ \A j \in 1 .. Len(bytes) : b.storage[b.rpos + j] = bytes[j]

LEMMA NextByteAnswers ==
    ASSUME NEW b \in Buffers, NEW i \in 1 .. 8, NEW r \in Answers(b)
    PROVE  NextByte(b, i, r) \in Answers(b)
<1> DEFINE n == Packet!Size(b)
<1>1. /\ b.rpos \in Nat /\ b.storage \in Seq(Int) /\ n \in Nat
      /\ \A j \in 1 .. n : b.storage[j] \in Int
  BY DEF Buffers, Packet!Size
<1>2. r.rpos \in b.rpos .. n /\ r.rpos \in Nat /\ r.value \in {<< >>} \cup {<<s>> : s \in Seq(Int)}
  BY <1>1 DEF Answers
<1> HIDE DEF n
<1>3. ASSUME NEW pos \in b.rpos .. n, NEW s \in Seq(Int) PROVE Packet!Gives(pos, s) \in Answers(b)
  BY <1>3 DEF Packet!Gives, Answers, n
<1>4. Packet!Throws(r.rpos) \in Answers(b)
  BY <1>2 DEF Packet!Throws, Answers, n
<1>5. r.value # << >> => r.value[1] \in Seq(Int)
  BY <1>2
<1>6. CASE r.value = << >>
  BY <1>6 DEF NextByte
<1>7. CASE r.value # << >> /\ (b.storage[b.rpos + 1] \div Packet!Bit[i]) % 2 = 0
  <2>1. Append(r.value[1], 0) \in Seq(Int)
    BY <1>5, <1>7
  <2> QED
    BY <1>2, <1>3, <1>7, <2>1 DEF NextByte
<1>8. CASE r.value # << >> /\ ~((b.storage[b.rpos + 1] \div Packet!Bit[i]) % 2 = 0) /\ r.rpos + 1 > n
  BY <1>4, <1>8 DEF NextByte, n
<1>9. CASE r.value # << >> /\ ~((b.storage[b.rpos + 1] \div Packet!Bit[i]) % 2 = 0) /\ ~(r.rpos + 1 > n)
  <2>1. r.rpos + 1 \in 1 .. n /\ r.rpos + 1 \in b.rpos .. n
    BY <1>1, <1>2, <1>9
  <2>2. b.storage[r.rpos + 1] \in Int
    BY <1>1, <2>1
  <2>3. Append(r.value[1], b.storage[r.rpos + 1]) \in Seq(Int)
    BY <1>5, <1>9, <2>2
  <2>4. Packet!Gives(r.rpos + 1, Append(r.value[1], b.storage[r.rpos + 1])) \in Answers(b)
    BY <1>3, <2>1, <2>3
  <2> QED
    BY <1>9, <2>4 DEF NextByte, n
<1> QED
  BY <1>6, <1>7, <1>8, <1>9

LEMMA ReadSteps ==
    ASSUME NEW b \in Buffers, b.rpos + 1 <= Packet!Size(b)
    PROVE  /\ Packet!ReadPackGUID(b) = ReadFrom(b)[8]
           /\ ReadFrom(b)[0] = Packet!Gives(b.rpos + 1, << >>)
           /\ \A i \in 0 .. 8 : ReadFrom(b)[i] \in Answers(b)
           /\ \A i \in 1 .. 8 : ReadFrom(b)[i] = NextByte(b, i, ReadFrom(b)[i - 1])
<1> DEFINE X == Answers(b)
           x == Packet!Gives(b.rpos + 1, << >>)
           D == [p \in (1 .. 8) \X X |-> NextByte(b, p[1], p[2])]
           r == ReadFrom(b)
<1>1. x \in X
  <2>1. b.rpos + 1 \in b.rpos .. Packet!Size(b)
    BY DEF Buffers, Packet!Size
  <2>2. << >> \in Seq(Int)
    OBVIOUS
  <2> QED
    BY <2>1, <2>2 DEF Packet!Gives, Answers
<1>2. D \in [(1 .. 8) \X X -> X]
  <2>1. \A i \in 1 .. 8, a \in X : NextByte(b, i, a) \in X
    BY NextByteAnswers
  <2> HIDE DEF X
  <2> QED
    BY <2>1
<1> HIDE DEF X, x
<1>3. PICK f \in [0 .. 8 -> X] : Stepwise(8, x, D, f)
  <2> HIDE DEF D
  <2>1. 8 \in Nat
    OBVIOUS
  <2> QED
    BY <1>1, <1>2, <2>1, StepsExist
<1>4. \A i \in 1 .. 8 : f[i] = NextByte(b, i, f[i - 1])
  <2> TAKE i \in 1 .. 8
  <2>1. i - 1 \in 0 .. 8
    OBVIOUS
  <2>2. f[i] = D[<<i, f[i - 1]>>] /\ <<i, f[i - 1]>> \in (1 .. 8) \X X
    BY <1>3, <2>1 DEF Stepwise
  <2> QED
    BY <2>2
<1>5. ReadOf(b, f)
  <2>1. f[0] = x
    BY <1>3 DEF Stepwise
  <2>2. \A i \in 0 .. 8 : f[i] = IF i = 0 THEN x ELSE NextByte(b, i, f[i - 1])
    <3> TAKE i \in 0 .. 8
    <3>1. i # 0 => i \in 1 .. 8
      OBVIOUS
    <3> QED
      BY <1>4, <2>1, <3>1
  <2> QED
    BY <1>3, <2>2, Zenon DEF ReadOf, x
<1>6. ReadOf(b, r)
  BY <1>5, Zenon DEF ReadFrom
<1>7. Packet!ReadPackGUID(b) = r[8]
  <2>1. ~(b.rpos + 1 > Packet!Size(b))
    BY DEF Buffers, Packet!Size
  <2> QED
    BY <2>1, Zenon DEF Packet!ReadPackGUID, ReadOf, ReadFrom, NextByte
<1> HIDE DEF r
<1>8. r[0] = x
  <2>1. 0 \in 0 .. 8
    OBVIOUS
  <2> QED
    BY <1>6, <2>1, Zenon DEF ReadOf, x
<1>9. \A i \in 1 .. 8 : r[i] = NextByte(b, i, r[i - 1])
  <2> TAKE i \in 1 .. 8
  <2>1. i \in 0 .. 8 /\ i # 0
    OBVIOUS
  <2> QED
    BY <1>6, <2>1, Zenon DEF ReadOf
<1> DEFINE P == {i \in 0 .. 8 : r[i] \in X}
<1>10. 0 \in P
  BY <1>1, <1>8
<1>11. ASSUME NEW i \in 1 .. 8, i - 1 \in P PROVE i \in P
  <2>1. i \in 0 .. 8 /\ r[i - 1] \in X
    BY <1>11
  <2>2. NextByte(b, i, r[i - 1]) \in X
    BY <2>1, NextByteAnswers DEF X
  <2> QED
    BY <1>9, <2>1, <2>2
<1>12. \A i \in 0 .. 8 : r[i] \in X
  <2>1. \A i \in 0 .. 8 : i \in P
    <3> HIDE DEF P
    <3>1. 8 \in Nat
      OBVIOUS
    <3> QED
      BY <1>10, <1>11, <3>1, Climb
  <2> QED
    BY <2>1
<1> QED
  BY <1>7, <1>8, <1>9, <1>12 DEF r, X, x

\* A guid is read as it was packed.
LEMMA GuidReturns ==
    ASSUME NEW b \in Buffers, NEW guid \in Guids, Has(b, Packet!PackGUID(guid))
    PROVE  Packet!ReadPackGUID(b) = Packet!Gives(b.rpos + Len(Packet!PackGUID(guid)), guid)
<1> DEFINE c == PackedFrom(guid)
           r == ReadFrom(b)
           n(i) == Len(c[i])
           mark == c[8][1]
           Good(i, s) == /\ s \in Seq(Int) /\ Len(s) = i /\ \A j \in 1 .. i : s[j] = guid[j]
                         /\ r[i] = Packet!Gives(b.rpos + n(i), s)
<1>1. /\ Packet!PackGUID(guid) = c[8] /\ c[8] \in Strings /\ n(0) = 1
      /\ \A i \in 0 .. 8 : n(i) \in 1 .. n(8)
  BY PackKeeps
<1>2. \A i \in 1 .. 8 : guid[i] = 0 => c[i] = c[i - 1]
  BY PackKeeps
<1>3. \A i \in 1 .. 8 : guid[i] # 0 => n(i) = n(i - 1) + 1 /\ c[8][n(i)] = guid[i]
  BY PackKeeps
<1>4. \A i \in 1 .. 8 : (mark \div Packet!Bit[i]) % 2 = IF guid[i] = 0 THEN 0 ELSE 1
  BY MaskTells
<1>5. n(8) \in Nat /\ n(8) >= 1
  BY <1>1 DEF Strings
<1>6. /\ b.rpos + n(8) <= Packet!Size(b) /\ b.rpos \in Nat /\ Packet!Size(b) \in Nat
      /\ \A j \in 1 .. n(8) : b.storage[b.rpos + j] = c[8][j]
  BY <1>1 DEF Has, Buffers, Packet!Size
<1>7. b.rpos + 1 <= Packet!Size(b)
  BY <1>5, <1>6
<1>8. b.storage[b.rpos + 1] = mark
  BY <1>5, <1>6
<1>9. Packet!ReadPackGUID(b) = r[8] /\ r[0] = Packet!Gives(b.rpos + 1, << >>)
  BY <1>7, ReadSteps
<1>10. \A i \in 1 .. 8 : r[i] = NextByte(b, i, r[i - 1])
  BY <1>7, ReadSteps
<1>11. \A i \in 1 .. 8 : guid[i] \in Int
  BY DEF Guids
<1> HIDE DEF c, r, mark
<1> DEFINE P == {i \in 0 .. 8 : \E s : Good(i, s)}
<1>12. 0 \in P
  <2>1. Good(0, << >>)
    BY <1>1, <1>9
  <2> HIDE DEF Good
  <2> QED
    BY <2>1
<1>13. ASSUME NEW i \in 1 .. 8, i - 1 \in P PROVE i \in P
  <2>1. i - 1 \in 0 .. 8 /\ i \in 0 .. 8
    OBVIOUS
  <2>2. PICK s : Good(i - 1, s)
    BY <1>13
  <2> DEFINE a == b.rpos + n(i - 1)
             t == Append(s, guid[i])
  <2>3. /\ s \in Seq(Int) /\ Len(s) = i - 1 /\ \A j \in 1 .. i - 1 : s[j] = guid[j]
        /\ r[i - 1] = Packet!Gives(a, s)
    BY <2>2
  <2>4. n(i - 1) \in Nat /\ n(i) \in Nat /\ n(i) >= 1 /\ n(i) <= n(8)
    <3>1. n(i - 1) \in 1 .. n(8) /\ n(i) \in 1 .. n(8)
      BY <1>1, <2>1
    <3> HIDE DEF n
    <3> QED
      BY <1>5, <3>1
  <2> HIDE DEF a
  <2>5. /\ r[i - 1].value = <<s>> /\ r[i - 1].value # << >> /\ r[i - 1].rpos = a
        /\ r[i - 1].value[1] = s
    BY <2>3 DEF Packet!Gives
  <2>6. t \in Seq(Int) /\ Len(t) = i /\ \A j \in 1 .. i : t[j] = guid[j]
    <3> DEFINE y == guid[i]
    <3>1. y \in Int /\ t = Append(s, y)
      BY <1>11
    <3> HIDE DEF y, t
    <3>2. t \in Seq(Int) /\ Len(t) = i /\ (\A j \in 1 .. i - 1 : t[j] = s[j]) /\ t[i] = y
      BY <2>3, <3>1
    <3>3. \A j \in 1 .. i : j \in 1 .. i - 1 \/ j = i
      OBVIOUS
    <3> QED
      BY <2>3, <3>2, <3>3 DEF y
  <2>7. r[i] = NextByte(b, i, r[i - 1])
    BY <1>10
  <2>8. CASE guid[i] = 0
    <3>1. (b.storage[b.rpos + 1] \div Packet!Bit[i]) % 2 = 0
      BY <1>4, <1>8, <2>8
    <3>2. r[i] = Packet!Gives(a, Append(s, 0))
      BY <2>5, <2>7, <3>1 DEF NextByte
    <3>3. a = b.rpos + n(i)
      BY <1>2, <2>8 DEF a
    <3>4. Good(i, t)
      BY <2>6, <2>8, <3>2, <3>3
    <3> QED
      BY <2>1, <3>4
  <2>9. CASE guid[i] # 0
    <3>1. ~((b.storage[b.rpos + 1] \div Packet!Bit[i]) % 2 = 0)
      BY <1>4, <1>8, <2>9
    <3>2. n(i) = n(i - 1) + 1 /\ c[8][n(i)] = guid[i]
      BY <1>3, <2>9
    <3> HIDE DEF n
    <3>3. a + 1 = b.rpos + n(i) /\ ~(a + 1 > Packet!Size(b)) /\ n(i) \in 1 .. n(8)
      BY <1>5, <1>6, <2>4, <3>2 DEF a
    <3>4. b.storage[a + 1] = guid[i]
      BY <1>6, <3>2, <3>3
    <3>5. r[i] = Packet!Gives(a + 1, Append(s, b.storage[a + 1]))
      BY <2>5, <2>7, <3>1, <3>3 DEF NextByte
    <3>6. r[i] = Packet!Gives(b.rpos + n(i), t)
      BY <3>3, <3>4, <3>5
    <3>7. Good(i, t)
      BY <2>6, <3>6
    <3> QED
      BY <2>1, <3>7
  <2> QED
    BY <2>8, <2>9
<1>14. 8 \in P
  <2>1. \A i \in 0 .. 8 : i \in P
    <3> HIDE DEF P
    <3>1. 8 \in Nat
      OBVIOUS
    <3> QED
      BY <1>12, <1>13, <3>1, Climb
  <2> QED
    BY <2>1
<1>15. PICK s : Good(8, s)
  BY <1>14
<1>16. s = guid
  <2>1. s \in [1 .. 8 -> Int] /\ \A j \in 1 .. 8 : s[j] = guid[j]
    <3>1. s \in Seq(Int) /\ Len(s) = 8 /\ \A j \in 1 .. 8 : s[j] = guid[j]
      BY <1>15
    <3>2. s \in [1 .. Len(s) -> Int]
      BY <3>1, LenProperties
    <3> QED
      BY <3>1, <3>2
  <2>2. guid \in [1 .. 8 -> 0 .. 255]
    BY DEF Guids
  <2>3. DOMAIN s = 1 .. 8 /\ DOMAIN guid = 1 .. 8
    BY <2>1, <2>2
  <2>4. s = [j \in 1 .. 8 |-> s[j]] /\ guid = [j \in 1 .. 8 |-> guid[j]]
    BY <2>1, <2>2
  <2> QED
    BY <2>1, <2>4
<1> QED
  BY <1>1, <1>9, <1>15, <1>16

-----------------------------------------------------------------------------
(***************************************************************************)
(* Packets: the types                                                      *)
(***************************************************************************)
IntegralNames == {"uint8", "uint16", "uint32", "uint64", "int8", "int16", "int32", "int64"}

LEMMA Integrals == Packet!Integral = IntegralNames
BY DEF Packet!Integral, Packet!Width, IntegralNames

LEMMA IntegralItem ==
    ASSUME NEW t \in IntegralNames, NEW v
    PROVE  /\ Packet!Width[t] \in {1, 2, 4, 8} /\ t \notin {"bool", "string", "guid", "time", "float"}
           /\ Packet!Encode(t, v) = Packet!LittleEndian(v, Packet!Width[t])
           /\ Packet!IsValue(t, v) =>
                v \in Int /\ Small(Packet!Shifted(v, Packet!Width[t] - 1), t \in Packet!Signed)
           /\ Packet!Kept(t, v) = <<v>>
<1>1. \/ t = "uint8" \/ t = "uint16" \/ t = "uint32" \/ t = "uint64"
      \/ t = "int8" \/ t = "int16" \/ t = "int32" \/ t = "int64"
  BY DEF IntegralNames
<1>2. t \notin {"bool", "string", "guid", "time", "float"}
  BY <1>1
<1>3. Packet!Width[t] \in {1, 2, 4, 8}
  BY <1>1 DEF Packet!Width
<1>4. Packet!Encode(t, v) = Packet!LittleEndian(v, Packet!Width[t])
  <2>1. Packet!Encode("uint8", v) = Packet!LittleEndian(v, Packet!Width["uint8"])
    BY DEF Packet!Encode, Packet!Integral, Packet!Width
  <2>2. Packet!Encode("uint16", v) = Packet!LittleEndian(v, Packet!Width["uint16"])
    BY DEF Packet!Encode, Packet!Integral, Packet!Width
  <2>3. Packet!Encode("uint32", v) = Packet!LittleEndian(v, Packet!Width["uint32"])
    BY DEF Packet!Encode, Packet!Integral, Packet!Width
  <2>4. Packet!Encode("uint64", v) = Packet!LittleEndian(v, Packet!Width["uint64"])
    BY DEF Packet!Encode, Packet!Integral, Packet!Width
  <2>5. Packet!Encode("int8", v) = Packet!LittleEndian(v, Packet!Width["int8"])
    BY DEF Packet!Encode, Packet!Integral, Packet!Width
  <2>6. Packet!Encode("int16", v) = Packet!LittleEndian(v, Packet!Width["int16"])
    BY DEF Packet!Encode, Packet!Integral, Packet!Width
  <2>7. Packet!Encode("int32", v) = Packet!LittleEndian(v, Packet!Width["int32"])
    BY DEF Packet!Encode, Packet!Integral, Packet!Width
  <2>8. Packet!Encode("int64", v) = Packet!LittleEndian(v, Packet!Width["int64"])
    BY DEF Packet!Encode, Packet!Integral, Packet!Width
  <2> QED
    BY <1>1, <2>1, <2>2, <2>3, <2>4, <2>5, <2>6, <2>7, <2>8, Zenon
<1>5. Packet!IsValue(t, v) =>
        v \in Int /\ Small(Packet!Shifted(v, Packet!Width[t] - 1), t \in Packet!Signed)
  <2>1. Packet!IsValue("uint8", v) =>
          v \in Int /\ Small(Packet!Shifted(v, Packet!Width["uint8"] - 1), "uint8" \in Packet!Signed)
    BY DEF Packet!IsValue, Packet!Integral, Packet!Width, Packet!Signed, Small
  <2>2. Packet!IsValue("uint16", v) =>
          v \in Int /\ Small(Packet!Shifted(v, Packet!Width["uint16"] - 1), "uint16" \in Packet!Signed)
    BY DEF Packet!IsValue, Packet!Integral, Packet!Width, Packet!Signed, Small
  <2>3. Packet!IsValue("uint32", v) =>
          v \in Int /\ Small(Packet!Shifted(v, Packet!Width["uint32"] - 1), "uint32" \in Packet!Signed)
    BY DEF Packet!IsValue, Packet!Integral, Packet!Width, Packet!Signed, Small
  <2>4. Packet!IsValue("uint64", v) =>
          v \in Int /\ Small(Packet!Shifted(v, Packet!Width["uint64"] - 1), "uint64" \in Packet!Signed)
    BY DEF Packet!IsValue, Packet!Integral, Packet!Width, Packet!Signed, Small
  <2>5. Packet!IsValue("int8", v) =>
          v \in Int /\ Small(Packet!Shifted(v, Packet!Width["int8"] - 1), "int8" \in Packet!Signed)
    BY DEF Packet!IsValue, Packet!Integral, Packet!Width, Packet!Signed, Small
  <2>6. Packet!IsValue("int16", v) =>
          v \in Int /\ Small(Packet!Shifted(v, Packet!Width["int16"] - 1), "int16" \in Packet!Signed)
    BY DEF Packet!IsValue, Packet!Integral, Packet!Width, Packet!Signed, Small
  <2>7. Packet!IsValue("int32", v) =>
          v \in Int /\ Small(Packet!Shifted(v, Packet!Width["int32"] - 1), "int32" \in Packet!Signed)
    BY DEF Packet!IsValue, Packet!Integral, Packet!Width, Packet!Signed, Small
  <2>8. Packet!IsValue("int64", v) =>
          v \in Int /\ Small(Packet!Shifted(v, Packet!Width["int64"] - 1), "int64" \in Packet!Signed)
    BY DEF Packet!IsValue, Packet!Integral, Packet!Width, Packet!Signed, Small
  <2> QED
    BY <1>1, <2>1, <2>2, <2>3, <2>4, <2>5, <2>6, <2>7, <2>8, Zenon
<1>6. Packet!Kept(t, v) = <<v>>
  <2>1. Packet!Kept("uint8", v) = <<v>>
    BY DEF Packet!Kept
  <2>2. Packet!Kept("uint16", v) = <<v>>
    BY DEF Packet!Kept
  <2>3. Packet!Kept("uint32", v) = <<v>>
    BY DEF Packet!Kept
  <2>4. Packet!Kept("uint64", v) = <<v>>
    BY DEF Packet!Kept
  <2>5. Packet!Kept("int8", v) = <<v>>
    BY DEF Packet!Kept
  <2>6. Packet!Kept("int16", v) = <<v>>
    BY DEF Packet!Kept
  <2>7. Packet!Kept("int32", v) = <<v>>
    BY DEF Packet!Kept
  <2>8. Packet!Kept("int64", v) = <<v>>
    BY DEF Packet!Kept
  <2> QED
    BY <1>1, <2>1, <2>2, <2>3, <2>4, <2>5, <2>6, <2>7, <2>8, Zenon
<1> QED
  BY <1>2, <1>3, <1>4, <1>5, <1>6

LEMMA OtherItems ==
    ASSUME NEW v
    PROVE  /\ Packet!Encode("bool", v) = <<IF v THEN 1 ELSE 0>>
           /\ Packet!Encode("string", v) = Append(v, 0)
           /\ Packet!Encode("guid", v) = Packet!PackGUID(v)
           /\ Packet!Encode("time", v) = Packet!PackedTime(v)
           /\ Packet!Encode("float", v) = v
<1>1. Packet!Encode("bool", v) = <<IF v THEN 1 ELSE 0>>
  BY DEF Packet!Encode, Packet!Integral, Packet!Width
<1>2. Packet!Encode("string", v) = Append(v, 0)
  BY DEF Packet!Encode, Packet!Integral, Packet!Width
<1>3. Packet!Encode("guid", v) = Packet!PackGUID(v)
  BY DEF Packet!Encode, Packet!Integral, Packet!Width
<1>4. Packet!Encode("time", v) = Packet!PackedTime(v)
  BY DEF Packet!Encode, Packet!Integral, Packet!Width
<1>5. Packet!Encode("float", v) = v
  BY DEF Packet!Encode, Packet!Integral, Packet!Width
<1> QED
  BY <1>1, <1>2, <1>3, <1>4, <1>5

Moments == [year : Int, mon : 0 .. 11, mday : 1 .. 31, wday : 0 .. 6, hour : 0 .. 23, min : 0 .. 59,
            sec : 0 .. 60, isdst : BOOLEAN]

LEMMA OtherValues ==
    ASSUME NEW v
    PROVE  /\ Packet!IsValue("bool", v) = (v \in BOOLEAN)
           /\ Packet!IsValue("string", v) = (v \in Seq(1 .. 255))
           /\ Packet!IsValue("guid", v) = (v \in Guids)
           /\ Packet!IsValue("time", v) = (v \in Moments)
           /\ Packet!IsValue("float", v) = (v \in [1 .. 4 -> 0 .. 255])
<1>1. Packet!IsValue("bool", v) = (v \in BOOLEAN)
  BY DEF Packet!IsValue, Packet!Integral, Packet!Width
<1>2. Packet!IsValue("string", v) = (v \in Seq(1 .. 255))
  BY DEF Packet!IsValue, Packet!Integral, Packet!Width
<1>3. Packet!IsValue("guid", v) = (v \in Guids)
  BY DEF Packet!IsValue, Packet!Integral, Packet!Width, Guids
<1>4. Packet!IsValue("time", v) = (v \in Moments)
  BY DEF Packet!IsValue, Packet!Integral, Packet!Width, Moments
<1>5. Packet!IsValue("float", v) = (v \in [1 .. 4 -> 0 .. 255])
  BY DEF Packet!IsValue, Packet!Integral, Packet!Width
<1> QED
  BY <1>1, <1>2, <1>3, <1>4, <1>5

LEMMA OtherKept ==
    ASSUME NEW v
    PROVE  /\ Packet!Kept("bool", v) = <<v>> /\ Packet!Kept("guid", v) = <<v>>
           /\ Packet!Kept("string", v) = IF Packet!ValidUtf8(v) THEN <<v>> ELSE << >>
           /\ Packet!Kept("float", v) = IF Packet!Finite(v) THEN <<v>> ELSE << >>
<1>1. Packet!Kept("bool", v) = <<v>>
  BY DEF Packet!Kept
<1>2. Packet!Kept("guid", v) = <<v>>
  BY DEF Packet!Kept
<1>3. Packet!Kept("string", v) = IF Packet!ValidUtf8(v) THEN <<v>> ELSE << >>
  BY DEF Packet!Kept
<1>4. Packet!Kept("float", v) = IF Packet!Finite(v) THEN <<v>> ELSE << >>
  BY DEF Packet!Kept
<1> QED
  BY <1>1, <1>2, <1>3, <1>4

\* Bytes that are there are what is read.
LEMMA Slice ==
    ASSUME NEW s \in Seq(Int), NEW pos \in Nat, NEW bytes \in Seq(Int), pos + Len(bytes) <= Len(s),
           \A j \in 1 .. Len(bytes) : s[pos + j] = bytes[j]
    PROVE  SubSeq(s, pos + 1, pos + Len(bytes)) = bytes
<1> DEFINE n == Len(bytes)
           x == SubSeq(s, pos + 1, pos + n)
<1>1. n \in Nat /\ Len(s) \in Nat
  OBVIOUS
<1> HIDE DEF n
<1>2. x \in Seq(Int) /\ Len(x) = n /\ \A j \in 1 .. n : x[j] = s[pos + j]
  BY <1>1 DEF n
<1> HIDE DEF x
<1>3. x = bytes
  BY <1>2, SeqEqual DEF n
<1> QED
  BY <1>3 DEF x, n

\* The packed time as a number.
TimeNumber(t) == t.mon * 1048576 + (t.mday - 1) * 16384 + t.wday * 2048 + t.hour * 64 + t.min

LEMMA TimeHasFour ==
    ASSUME NEW t \in Moments
    PROVE  /\ TimeNumber(t) \in Int /\ Small(Packet!Shifted(TimeNumber(t), 2), FALSE)
           /\ Packet!PackedTime(t) = Packet!LittleEndian(TimeNumber(t), 3) \o <<(t.year - 100) % 256>>
           /\ Packet!PackedTime(t) \in Seq(Int) /\ Len(Packet!PackedTime(t)) = 4
           /\ SubSeq(Packet!PackedTime(t), 1, 3) = Packet!LittleEndian(TimeNumber(t), 3)
           /\ Packet!PackedTime(t)[4] = (t.year - 100) % 256
<1> DEFINE n == TimeNumber(t)
           low == Packet!LittleEndian(n, 3)
           y == (t.year - 100) % 256
           z == low \o <<y>>
<1>1. /\ t.mon \in 0 .. 11 /\ t.mday \in 1 .. 31 /\ t.wday \in 0 .. 6 /\ t.hour \in 0 .. 23
      /\ t.min \in 0 .. 59 /\ t.year \in Int
  BY DEF Moments
<1>2. n \in Int /\ 0 <= n /\ n < 16777216
  <2> DEFINE a == t.mon
             b == t.mday
             c == t.wday
             d == t.hour
             e == t.min
  <2>1. n = a * 1048576 + (b - 1) * 16384 + c * 2048 + d * 64 + e
    BY SMT DEF TimeNumber
  <2>2. a \in 0 .. 11 /\ b \in 1 .. 31 /\ c \in 0 .. 6 /\ d \in 0 .. 23 /\ e \in 0 .. 59
    BY <1>1
  <2> HIDE DEF n, a, b, c, d, e
  <2> QED
    BY <2>1, <2>2, SMT
<1>3. 2^20 = 1048576 /\ 2^14 = 16384 /\ 2^11 = 2048 /\ 2^6 = 64
  BY SMT
<1>4. Packet!PackedTime(t) = z
  BY <1>3, SMT DEF Packet!PackedTime, TimeNumber
<1>5. y \in Int
  BY <1>1
<1> HIDE DEF n, y
<1>6. n \in Int /\ 3 \in Nat
  BY <1>2, SMT
<1>7. low \in Seq(Int) /\ Len(low) = 3
  BY <1>6, BytesAreInts
<1>8. Small(Packet!Shifted(n, 2), FALSE)
  <2>1. 0 \in Nat /\ 1 \in Nat /\ 0 + 1 = 1 /\ 1 + 1 = 2
    OBVIOUS
  <2>2. Packet!Shifted(n, 0) = n
    BY <1>6, <2>1, ShiftGoesOn
  <2>3. Packet!Shifted(n, 0 + 1) = Packet!Shifted(n, 0) \div 256
    BY <1>6, <2>1, ShiftGoesOn
  <2>4. Packet!Shifted(n, 1 + 1) = Packet!Shifted(n, 1) \div 256
    BY <1>6, <2>1, ShiftGoesOn
  <2>5. Packet!Shifted(n, 2) = (n \div 256) \div 256
    BY <2>1, <2>2, <2>3, <2>4
  <2>6. (n \div 256) \div 256 \in 0 .. 255
    BY <1>2, SMT
  <2> QED
    BY <2>5, <2>6 DEF Small
<1> HIDE DEF low
<1>9. /\ z \in Seq(Int) /\ Len(z) = 4 /\ z[4] = y
      /\ \A i \in 1 .. 3 : z[i] = low[i]
  <2> DEFINE one == <<y>>
  <2>1. one \in Seq(Int) /\ Len(one) = 1 /\ one[1] = y
    BY <1>5
  <2> HIDE DEF one
  <2>2. /\ low \o one \in Seq(Int) /\ Len(low \o one) = Len(low) + Len(one)
        /\ \A i \in 1 .. Len(low) : (low \o one)[i] = low[i]
        /\ \A i \in 1 .. Len(one) : (low \o one)[Len(low) + i] = one[i]
    <3>1. low \in Seq(Int) /\ one \in Seq(Int)
      BY <1>7, <2>1
    <3> QED
      BY <3>1, Joined
  <2>3. z = low \o one
    BY DEF one
  <2> HIDE DEF z
  <2>4. Len(z) = 4 /\ z \in Seq(Int) /\ \A i \in 1 .. 3 : z[i] = low[i]
    BY <1>7, <2>1, <2>2, <2>3
  <2>5. z[3 + 1] = one[1]
    BY <1>7, <2>1, <2>2, <2>3
  <2> QED
    BY <2>1, <2>4, <2>5
<1> HIDE DEF z
<1>10. SubSeq(z, 1, 3) = low
  <2>1. /\ 0 \in Nat /\ 0 + Len(low) <= Len(z) /\ 0 + 1 = 1 /\ 0 + Len(low) = 3
        /\ \A j \in 1 .. Len(low) : z[0 + j] = low[j]
    BY <1>7, <1>9
  <2>2. SubSeq(z, 0 + 1, 0 + Len(low)) = low
    BY <1>7, <1>9, <2>1, Slice
  <2> QED
    BY <2>1, <2>2
<1> QED
  BY <1>4, <1>6, <1>8, <1>9, <1>10 DEF n, y, z, low

\* mktime() gives a number of seconds.
LEMMA MkTimeIsNumber ==
    ASSUME NEW year \in Int, NEW mon \in Int, NEW mday \in Int, NEW hour \in Int, NEW min \in Int
    PROVE  Packet!MkTime(year, mon, mday, hour, min) \in Int
<1> DEFINE y == year + mon \div 12
           m == mon % 12
           leapDay == IF m > 1 /\ y % 4 = 0 THEN 1 ELSE 0
           before == Packet!DaysBefore[m + 1]
           days == 365 * (y - 70) + (y - 69) \div 4 + before + leapDay + mday - 1
<1>1. y \in Int /\ m \in 0 .. 11
  BY SMT
<1>2. leapDay \in Int
  OBVIOUS
<1>3. Packet!MkTime(year, mon, mday, hour, min) = 86400 * days + 3600 * hour + 60 * min
  BY DEF Packet!MkTime
<1> HIDE DEF m, leapDay
<1>4. before \in Int
  <2>1. /\ m = 0 \/ m = 1 \/ m = 2 \/ m = 3 \/ m = 4 \/ m = 5 \/ m = 6 \/ m = 7 \/ m = 8
           \/ m = 9 \/ m = 10 \/ m = 11
    BY <1>1
  <2> QED
    BY <2>1 DEF Packet!DaysBefore
<1> HIDE DEF y, before
<1>5. days \in Int
  BY <1>1, <1>2, <1>4, SMT
<1> HIDE DEF days
<1>6. 86400 * days + 3600 * hour + 60 * min \in Int
  BY <1>5, SMT
<1> QED
  BY <1>3, <1>6

\* What is kept of a moment, in its fields.
LEMMA KeptOfTime ==
    ASSUME NEW t \in Moments
    PROVE  Packet!Kept("time", t) =
             <<Packet!MkTime(100 + ((t.year - 100) % 32), t.mon, t.mday, t.hour, t.min)>>
<1> DEFINE year == 100 + ((t.year - 100) % 32)
           f == Packet!Folded(t)
           z == Packet!MkTime(year, t.mon, t.mday, t.hour, t.min)
           late == IF t.isdst THEN Packet!Hour ELSE 0
<1>1. /\ t.mon \in Int /\ t.mday \in Int /\ t.hour \in Int /\ t.min \in Int /\ t.sec \in Int
      /\ t.year \in Int
  BY DEF Moments
<1>2. /\ f.year = year /\ f.mon = t.mon /\ f.mday = t.mday /\ f.hour = t.hour
      /\ f.min = t.min /\ f.sec = t.sec /\ f.isdst = t.isdst
  BY DEF Packet!Folded, Moments
<1>3. year \in Int
  BY <1>1
<1> HIDE DEF f, year
<1>4. z \in Int
  BY <1>1, <1>3, MkTimeIsNumber
<1>5. late \in Int
  BY DEF Packet!Hour
<1>6. Packet!TimeOf(f) = z + t.sec - late
  BY <1>2, Zenon DEF Packet!TimeOf
<1>7. Packet!Kept("time", t) = <<Packet!TimeOf(f) - t.sec + late>>
  BY DEF Packet!Kept, f
<1> HIDE DEF z, late
<1>8. Packet!TimeOf(f) - t.sec + late = z
  BY <1>1, <1>4, <1>5, <1>6, SMT
<1>9. Packet!Kept("time", t) = <<z>>
  BY <1>7, <1>8
<1> QED
  BY <1>9 DEF z, year

LEMMA TimeReturns ==
    ASSUME NEW t \in Moments
    PROVE  <<Packet!UnpackedTime(Packet!PackedTime(t))>> = Packet!Kept("time", t)
<1> DEFINE n == TimeNumber(t)
           y == (t.year - 100) % 256
           x == t.year - 100
<1>1. /\ t.mon \in 0 .. 11 /\ t.mday \in 1 .. 31 /\ t.wday \in 0 .. 6 /\ t.hour \in 0 .. 23
      /\ t.min \in 0 .. 59 /\ t.year \in Int
  BY DEF Moments
<1>2. Packet!Number(SubSeq(Packet!PackedTime(t), 1, 3), FALSE) = n
  <2>1. n \in Int /\ Small(Packet!Shifted(n, 2), FALSE)
    BY TimeHasFour
  <2>2. 3 \in Nat \ {0} /\ 3 - 1 = 2 /\ FALSE \in BOOLEAN
    OBVIOUS
  <2>3. Packet!Number(Packet!LittleEndian(n, 3), FALSE) = n
    BY <2>1, <2>2, NumberReturns
  <2>4. SubSeq(Packet!PackedTime(t), 1, 3) = Packet!LittleEndian(n, 3)
    BY TimeHasFour
  <2> QED
    BY <2>3, <2>4
<1>3. Packet!PackedTime(t)[4] = y
  BY TimeHasFour
<1>4. 2^20 = 1048576 /\ 2^14 = 16384 /\ 2^6 = 64
  BY SMT
<1> DEFINE a == t.mon
           b == t.mday - 1
           c == t.wday
           d == t.hour
           e == t.min
<1>5. n = a * 1048576 + b * 16384 + c * 2048 + d * 64 + e
  BY SMT DEF TimeNumber
<1>6. a \in 0 .. 11 /\ b \in 0 .. 30 /\ c \in 0 .. 6 /\ d \in 0 .. 23 /\ e \in 0 .. 59 /\ x \in Int /\ y = (x % 256)
  BY <1>1
<1> HIDE DEF n, y, x
<1>7. /\ t.mon = a /\ t.mday = 1 + b /\ t.hour = d /\ t.min = e
  BY <1>1
<1> HIDE DEF a, b, c, d, e
<1>8. n \in Int /\ n \div 1048576 = a /\ (n \div 1048576) % 16 = a
  BY <1>5, <1>6, SMT
<1>9. (n \div 16384) % 64 = b
  BY <1>5, <1>6, SMT
<1>10. (n \div 64) % 32 = d
  <2> DEFINE k == a * 16384 + b * 256 + c * 32 + d
  <2>1. k \in Int /\ n = 64 * k + e
    BY <1>5, <1>6, SMT
  <2>2. (k % 32) = d
    BY <1>6, SMT
  <2> HIDE DEF k
  <2>3. n \div 64 = k
    BY <1>6, <2>1, SMT
  <2> QED
    BY <2>2, <2>3
<1>11. n % 64 = e
  BY <1>5, <1>6, SMT
<1>12. (y % 32) = (x % 32)
  BY <1>6
<1>13. Packet!UnpackedTime(Packet!PackedTime(t)) =
         Packet!MkTime(100 + (y % 32), (n \div 2^20) % 16, 1 + ((n \div 2^14) % 64),
                       (n \div 2^6) % 32, n % 64)
  BY <1>2, <1>3, Zenon DEF Packet!UnpackedTime
<1>14. Packet!Kept("time", t) = <<Packet!MkTime(100 + (x % 32), a, 1 + b, d, e)>>
  BY <1>7, KeptOfTime DEF x
<1> QED
  BY <1>4, <1>8, <1>9, <1>10, <1>11, <1>12, <1>13, <1>14

\* What a read of each type does.
Parsed(r, value) == IF r.value = << >> THEN r ELSE Packet!Gives(r.rpos, value)

LEMMA DecodeIntegral ==
    ASSUME NEW t \in IntegralNames, NEW b
    PROVE  Packet!Decode(b, t) =
             Parsed(Packet!ReadBytes(b, Packet!Width[t]),
                    Packet!Number(Packet!ReadBytes(b, Packet!Width[t]).value[1], t \in Packet!Signed))
<1> DEFINE Reads(x) ==
             Packet!Decode(b, x) =
               Parsed(Packet!ReadBytes(b, Packet!Width[x]),
                      Packet!Number(Packet!ReadBytes(b, Packet!Width[x]).value[1], x \in Packet!Signed))
<1>1. \/ t = "uint8" \/ t = "uint16" \/ t = "uint32" \/ t = "uint64"
      \/ t = "int8" \/ t = "int16" \/ t = "int32" \/ t = "int64"
  BY DEF IntegralNames
<1>2. Reads("uint8")
  BY DEF Packet!Decode, Packet!Integral, Packet!Width, Packet!Signed, Parsed
<1>3. Reads("uint16")
  BY DEF Packet!Decode, Packet!Integral, Packet!Width, Packet!Signed, Parsed
<1>4. Reads("uint32")
  BY DEF Packet!Decode, Packet!Integral, Packet!Width, Packet!Signed, Parsed
<1>5. Reads("uint64")
  BY DEF Packet!Decode, Packet!Integral, Packet!Width, Packet!Signed, Parsed
<1>6. Reads("int8")
  BY DEF Packet!Decode, Packet!Integral, Packet!Width, Packet!Signed, Parsed
<1>7. Reads("int16")
  BY DEF Packet!Decode, Packet!Integral, Packet!Width, Packet!Signed, Parsed
<1>8. Reads("int32")
  BY DEF Packet!Decode, Packet!Integral, Packet!Width, Packet!Signed, Parsed
<1>9. Reads("int64")
  BY DEF Packet!Decode, Packet!Integral, Packet!Width, Packet!Signed, Parsed
<1> HIDE DEF Reads
<1>10. Reads(t)
  BY <1>1, <1>2, <1>3, <1>4, <1>5, <1>6, <1>7, <1>8, <1>9
<1> QED
  BY <1>10 DEF Reads

LEMMA DecodeOthers ==
    ASSUME NEW b
    PROVE  /\ Packet!Decode(b, "string") = Packet!ReadCString(b)
           /\ Packet!Decode(b, "guid") = Packet!ReadPackGUID(b)
           /\ Packet!Decode(b, "bool") =
                Parsed(Packet!ReadBytes(b, 1), Packet!ReadBytes(b, 1).value[1][1] \in 1 .. 127)
           /\ Packet!Decode(b, "time") =
                Parsed(Packet!ReadBytes(b, 4), Packet!UnpackedTime(Packet!ReadBytes(b, 4).value[1]))
           /\ Packet!Decode(b, "float") =
                IF Packet!ReadBytes(b, 4).value = << >> \/ Packet!Finite(Packet!ReadBytes(b, 4).value[1])
                THEN Packet!ReadBytes(b, 4) ELSE Packet!Throws(Packet!ReadBytes(b, 4).rpos)
<1>1. Packet!Decode(b, "string") = Packet!ReadCString(b)
  BY DEF Packet!Decode, Packet!Integral, Packet!Width
<1>2. Packet!Decode(b, "guid") = Packet!ReadPackGUID(b)
  BY DEF Packet!Decode, Packet!Integral, Packet!Width
<1>3. Packet!Decode(b, "bool") =
        Parsed(Packet!ReadBytes(b, 1), Packet!ReadBytes(b, 1).value[1][1] \in 1 .. 127)
  BY DEF Packet!Decode, Packet!Integral, Packet!Width, Parsed
<1>4. Packet!Decode(b, "time") =
        Parsed(Packet!ReadBytes(b, 4), Packet!UnpackedTime(Packet!ReadBytes(b, 4).value[1]))
  BY DEF Packet!Decode, Packet!Integral, Packet!Width, Parsed
<1>5. Packet!Decode(b, "float") =
        IF Packet!ReadBytes(b, 4).value = << >> \/ Packet!Finite(Packet!ReadBytes(b, 4).value[1])
        THEN Packet!ReadBytes(b, 4) ELSE Packet!Throws(Packet!ReadBytes(b, 4).rpos)
  BY DEF Packet!Decode, Packet!Integral, Packet!Width
<1> QED
  BY <1>1, <1>2, <1>3, <1>4, <1>5

LEMMA TypesAre ==
    ASSUME NEW t \in Packet!Types
    PROVE  t \in IntegralNames \/ t = "bool" \/ t = "string" \/ t = "guid" \/ t = "time" \/ t = "float"
BY Integrals DEF Packet!Types

LEMMA OneInt ==
    ASSUME NEW x \in Int
    PROVE  <<x>> \in Seq(Int) /\ Len(<<x>>) = 1 /\ <<x>>[1] = x
OBVIOUS

LEMMA SeqOfInts ==
    ASSUME NEW n \in Nat, NEW v \in [1 .. n -> Int]
    PROVE  v \in Seq(Int) /\ Len(v) = n
OBVIOUS

LEMMA SeqWidens ==
    ASSUME NEW S \in SUBSET Int, NEW v \in Seq(S)
    PROVE  v \in Seq(Int)
<1>1. Len(v) \in Nat /\ v \in [1 .. Len(v) -> S]
  BY LenProperties
<1>2. v \in [1 .. Len(v) -> Int]
  BY <1>1
<1> QED
  BY <1>1, <1>2, SeqOfInts

\* A value has bytes.
LEMMA EncodeBytes ==
    ASSUME NEW t \in Packet!Types, NEW v, Packet!IsValue(t, v)
    PROVE  Packet!Encode(t, v) \in Seq(Int)
<1>1. CASE t \in IntegralNames
  <2> DEFINE w == Packet!Width[t]
  <2>1. w \in Nat /\ v \in Int /\ Packet!Encode(t, v) = Packet!LittleEndian(v, w)
    BY <1>1, IntegralItem
  <2> HIDE DEF w
  <2> QED
    BY <2>1, BytesOfNumber
<1>2. CASE t = "bool"
  <2> DEFINE x == IF v THEN 1 ELSE 0
  <2>1. Packet!Encode("bool", v) = <<x>>
    BY OtherItems
  <2>2. x \in Int
    OBVIOUS
  <2> HIDE DEF x
  <2> QED
    BY <1>2, <2>1, <2>2, OneInt
<1>3. CASE t = "string"
  <2>1. Packet!Encode("string", v) = Append(v, 0) /\ v \in Seq(1 .. 255)
    BY <1>3, OtherItems, OtherValues
  <2>2. 1 .. 255 \in SUBSET Int
    OBVIOUS
  <2>4. v \in Seq(Int)
    BY <2>1, <2>2, SeqWidens
  <2> QED
    BY <1>3, <2>1, <2>4
<1>4. CASE t = "guid"
  <2>1. Packet!Encode("guid", v) = Packet!PackGUID(v) /\ v \in Guids
    BY <1>4, OtherItems, OtherValues
  <2>2. Packet!PackGUID(v) \in Strings
    BY <2>1, PackKeeps
  <2> QED
    BY <1>4, <2>1, <2>2 DEF Strings
<1>5. CASE t = "time"
  <2>1. Packet!Encode("time", v) = Packet!PackedTime(v) /\ v \in Moments
    BY <1>5, OtherItems, OtherValues
  <2> QED
    BY <1>5, <2>1, TimeHasFour
<1>6. CASE t = "float"
  <2>1. Packet!Encode("float", v) = v /\ v \in [1 .. 4 -> 0 .. 255]
    BY <1>6, OtherItems, OtherValues
  <2>2. v \in [1 .. 4 -> Int]
    BY <2>1
  <2>3. v \in Seq(Int)
    <3>1. 4 \in Nat
      OBVIOUS
    <3> QED
      BY <2>2, <3>1, SeqOfInts
  <2> QED
    BY <1>6, <2>1, <2>3
<1> QED
  BY <1>1, <1>2, <1>3, <1>4, <1>5, <1>6, TypesAre

LEMMA ReadBytesReturns ==
    ASSUME NEW b \in Buffers, NEW bytes \in Seq(Int), Has(b, bytes)
    PROVE  Packet!ReadBytes(b, Len(bytes)) = Packet!Gives(b.rpos + Len(bytes), bytes)
<1> DEFINE n == Len(bytes)
<1>1. b.storage \in Seq(Int) /\ b.rpos \in Nat
  BY DEF Buffers
<1>2. b.rpos + n <= Len(b.storage) /\ \A j \in 1 .. n : b.storage[b.rpos + j] = bytes[j]
  BY DEF Has, Packet!Size
<1>3. SubSeq(b.storage, b.rpos + 1, b.rpos + n) = bytes
  BY <1>1, <1>2, Slice
<1>4. ~(b.rpos + n > Packet!Size(b))
  BY <1>1, <1>2 DEF Packet!Size
<1> QED
  BY <1>3, <1>4 DEF Packet!ReadBytes, Packet!BytesAt

\* Parsing what was read.
LEMMA ParsedReturns ==
    ASSUME NEW b \in Buffers, NEW bytes \in Seq(Int), Has(b, bytes), NEW value
    PROVE  /\ Packet!ReadBytes(b, Len(bytes)).value[1] = bytes
           /\ Packet!ReadBytes(b, Len(bytes)).value # << >>
           /\ Packet!ReadBytes(b, Len(bytes)).rpos = b.rpos + Len(bytes)
           /\ Parsed(Packet!ReadBytes(b, Len(bytes)), value) = Packet!Gives(b.rpos + Len(bytes), value)
<1> DEFINE r == Packet!ReadBytes(b, Len(bytes))
<1>1. r = Packet!Gives(b.rpos + Len(bytes), bytes)
  BY ReadBytesReturns
<1> HIDE DEF r
<1>2. r.value[1] = bytes /\ r.value # << >> /\ r.rpos = b.rpos + Len(bytes)
  BY <1>1 DEF Packet!Gives
<1> QED
  BY <1>2 DEF Parsed, r

\* A string is read up to its terminator.
LEMMA StringReturns ==
    ASSUME NEW b \in Buffers, NEW v \in Seq(1 .. 255), Has(b, Append(v, 0))
    PROVE  Packet!ReadCString(b) =
             [rpos |-> b.rpos + Len(v) + 1, value |-> IF Packet!ValidUtf8(v) THEN <<v>> ELSE << >>]
<1> DEFINE n == Len(v)
           s == b.storage
           p == b.rpos
           zeros == {i \in p + 1 .. Packet!Size(b) : s[i] = 0}
           end == p + n + 1
<1>1. p \in Nat /\ s \in Seq(Int) /\ Packet!Size(b) = Len(s) /\ Len(s) \in Nat
  BY DEF Buffers, Packet!Size
<1>2. n \in Nat /\ (\A j \in 1 .. n : v[j] \in 1 .. 255) /\ v \in Seq(Int)
  <2>1. 1 .. 255 \in SUBSET Int
    OBVIOUS
  <2>2. v \in Seq(Int)
    BY <2>1, SeqWidens
  <2>3. Len(v) \in Nat /\ v \in [1 .. Len(v) -> 1 .. 255]
    BY LenProperties
  <2>4. \A j \in 1 .. Len(v) : v[j] \in 1 .. 255
    BY <2>3
  <2> QED
    BY <2>2, <2>3, <2>4
<1>3. /\ Len(Append(v, 0)) = n + 1 /\ Append(v, 0)[n + 1] = 0
      /\ \A j \in 1 .. n : Append(v, 0)[j] = v[j]
  OBVIOUS
<1>4. end <= Len(s) /\ s[end] = 0 /\ \A j \in 1 .. n : s[p + j] = v[j]
  <2>1. p + Len(Append(v, 0)) <= Packet!Size(b)
    BY DEF Has
  <2>2. \A j \in 1 .. Len(Append(v, 0)) : s[p + j] = Append(v, 0)[j]
    BY DEF Has
  <2> HIDE DEF n, s, p
  <2>3. \A j \in 1 .. n + 1 : s[p + j] = Append(v, 0)[j]
    BY <1>3, <2>2
  <2>4. n + 1 \in 1 .. n + 1 /\ \A j \in 1 .. n : j \in 1 .. n + 1
    BY <1>2
  <2>5. s[p + (n + 1)] = 0 /\ p + (n + 1) = end
    BY <1>1, <1>2, <1>3, <2>3, <2>4
  <2> QED
    BY <1>1, <1>2, <1>3, <2>1, <2>3, <2>4, <2>5
<1> HIDE DEF n, s, p
<1>5. end \in zeros
  BY <1>1, <1>2, <1>4
<1>6. ASSUME NEW i \in zeros PROVE end <= i
  <2>1. i \in Int /\ i >= p + 1 /\ s[i] = 0
    BY <1>1
  <2>2. ASSUME i < end PROVE FALSE
    <3> DEFINE j == i - p
    <3>1. j \in 1 .. n /\ p + j = i
      BY <1>1, <1>2, <2>1, <2>2
    <3> HIDE DEF j
    <3> DEFINE y == v[j]
    <3>2. s[i] = y /\ y \in 1 .. 255
      BY <1>2, <1>4, <3>1
    <3> HIDE DEF y
    <3>3. y # 0
      BY <3>2
    <3> QED
      BY <2>1, <3>2, <3>3
  <2> QED
    BY <1>1, <1>2, <2>1, <2>2
<1>7. zeros \in SUBSET Int
  BY <1>1
<1>8. (CHOOSE i \in zeros : \A j \in zeros : i <= j) = end
  <2> HIDE DEF zeros, end
  <2> DEFINE c == CHOOSE i \in zeros : \A j \in zeros : i <= j
  <2>1. c \in zeros /\ \A j \in zeros : c <= j
    BY <1>5, <1>6
  <2> HIDE DEF c
  <2>2. c <= end /\ end <= c /\ c \in Int /\ end \in Int
    BY <1>5, <1>6, <1>7, <2>1
  <2>3. c = end
    BY <2>2
  <2> QED
    BY <2>3 DEF c
<1>9. zeros # {}
  BY <1>5
<1>10. SubSeq(s, p + 1, end - 1) = v
  <2>1. p + Len(v) <= Len(s) /\ \A j \in 1 .. Len(v) : s[p + j] = v[j]
    BY <1>1, <1>2, <1>4 DEF n
  <2>2. SubSeq(s, p + 1, p + Len(v)) = v
    BY <1>1, <1>2, <2>1, Slice
  <2>3. end - 1 = p + Len(v)
    BY <1>1, <1>2 DEF n
  <2> QED
    BY <2>2, <2>3
<1> DEFINE z == {i \in b.rpos + 1 .. Packet!Size(b) : b.storage[i] = 0}
           e == IF z = {} THEN Packet!Size(b) ELSE CHOOSE i \in z : \A j \in z : i <= j
           str == SubSeq(b.storage, b.rpos + 1, IF z = {} THEN e ELSE e - 1)
<1>11. Packet!ReadCString(b) = IF Packet!ValidUtf8(str) THEN Packet!Gives(e, str) ELSE Packet!Throws(e)
  BY Zenon DEF Packet!ReadCString
<1>12. z = zeros
  BY DEF s, p
<1> HIDE DEF z, zeros, end
<1>13. e = end
  BY <1>8, <1>9, <1>12
<1> HIDE DEF e
<1>14. str = v
  BY <1>9, <1>10, <1>12, <1>13 DEF s, p
<1> HIDE DEF str
<1>15. Packet!ReadCString(b) = [rpos |-> end, value |-> IF Packet!ValidUtf8(v) THEN <<v>> ELSE << >>]
  BY <1>11, <1>13, <1>14 DEF Packet!Gives, Packet!Throws
<1> QED
  BY <1>15 DEF end, n, p

\* A read returns what of the value is in its bytes, and goes on behind them.
LEMMA DecodeReturns ==
    ASSUME NEW b \in Buffers, NEW t \in Packet!Types, NEW v, Packet!IsValue(t, v),
           Has(b, Packet!Encode(t, v))
    PROVE  Packet!Decode(b, t) = [rpos |-> b.rpos + Len(Packet!Encode(t, v)), value |-> Packet!Kept(t, v)]
<1> DEFINE bytes == Packet!Encode(t, v)
<1>0. bytes \in Seq(Int)
  BY EncodeBytes
<1> HIDE DEF bytes
<1>1. Has(b, bytes)
  BY DEF bytes
<1> DEFINE r == Packet!ReadBytes(b, Len(bytes))
<1>2. r.value[1] = bytes /\ r.value # << >> /\ r.rpos = b.rpos + Len(bytes)
  BY <1>0, <1>1, ParsedReturns
<1>3. ASSUME NEW value PROVE Parsed(r, value) = Packet!Gives(b.rpos + Len(bytes), value)
  BY <1>0, <1>1, ParsedReturns
<1>4. CASE t \in IntegralNames
  <2> DEFINE w == Packet!Width[t]
             signed == t \in Packet!Signed
  <2>1. /\ w \in {1, 2, 4, 8} /\ bytes = Packet!LittleEndian(v, w)
        /\ v \in Int /\ Small(Packet!Shifted(v, w - 1), signed)
        /\ Packet!Kept(t, v) = <<v>>
    BY <1>4, IntegralItem DEF bytes
  <2>2. Packet!Decode(b, t) = Parsed(Packet!ReadBytes(b, w), Packet!Number(Packet!ReadBytes(b, w).value[1], signed))
    BY <1>4, DecodeIntegral
  <2>3. signed \in BOOLEAN
    OBVIOUS
  <2> HIDE DEF w, signed, r
  <2>4. w \in Nat \ {0} /\ w \in Nat
    BY <2>1
  <2>5. Len(bytes) = w
    BY <2>1, <2>4, BytesOfNumber
  <2>6. Packet!Number(bytes, signed) = v
    BY <2>1, <2>3, <2>4, NumberReturns
  <2>7. Packet!Decode(b, t) = Parsed(r, v)
    BY <1>2, <2>2, <2>5, <2>6 DEF r
  <2> QED
    BY <1>3, <2>1, <2>7 DEF Packet!Gives, bytes
<1>5. CASE t = "bool"
  <2>1. bytes = <<IF v THEN 1 ELSE 0>> /\ v \in BOOLEAN /\ Packet!Kept(t, v) = <<v>>
    BY <1>5, OtherItems, OtherValues, OtherKept DEF bytes
  <2>2. Packet!Decode(b, t) = Parsed(Packet!ReadBytes(b, 1), Packet!ReadBytes(b, 1).value[1][1] \in 1 .. 127)
    BY <1>5, DecodeOthers
  <2>3. Len(bytes) = 1 /\ bytes[1] = IF v THEN 1 ELSE 0
    BY <2>1
  <2>4. (bytes[1] \in 1 .. 127) = v
    <3>1. (v => bytes[1] = 1) /\ (~v => bytes[1] = 0)
      BY <2>3
    <3>2. 1 \in 1 .. 127 /\ 0 \notin 1 .. 127
      BY SMT
    <3>3. (v => bytes[1] \in 1 .. 127) /\ (~v => bytes[1] \notin 1 .. 127)
      BY <3>1, <3>2, Zenon
    <3> QED
      BY <2>1, <3>3
  <2>5. Packet!Decode(b, t) = Parsed(r, v)
    <3> HIDE DEF r
    <3> QED
      BY <1>2, <2>2, <2>3, <2>4 DEF r
  <2> HIDE DEF r
  <2> QED
    BY <1>3, <2>1, <2>5 DEF Packet!Gives, bytes
<1>6. CASE t = "string"
  <2>1. bytes = Append(v, 0) /\ v \in Seq(1 .. 255)
    BY <1>6, OtherItems, OtherValues DEF bytes
  <2>2. Packet!Decode(b, t) = Packet!ReadCString(b)
    BY <1>6, DecodeOthers
  <2>3. Packet!Kept(t, v) = IF Packet!ValidUtf8(v) THEN <<v>> ELSE << >>
    BY <1>6, OtherKept
  <2>4. Packet!ReadCString(b) =
          [rpos |-> b.rpos + Len(v) + 1, value |-> IF Packet!ValidUtf8(v) THEN <<v>> ELSE << >>]
    BY <1>1, <2>1, StringReturns
  <2>5. b.rpos + Len(v) + 1 = b.rpos + Len(bytes)
    <3>1. Len(Append(v, 0)) = Len(v) + 1 /\ Len(v) \in Nat
      BY <2>1
    <3>2. b.rpos \in Nat
      BY DEF Buffers
    <3>3. Len(bytes) = Len(v) + 1
      BY <2>1, <3>1
    <3> DEFINE n == Len(v)
    <3> HIDE DEF n
    <3>4. Len(bytes) = n + 1 /\ n \in Nat
      BY <3>1, <3>3 DEF n
    <3>5. b.rpos + n + 1 = b.rpos + Len(bytes)
      BY <3>2, <3>4
    <3> QED
      BY <3>5 DEF n
  <2> QED
    BY <2>2, <2>3, <2>4, <2>5 DEF bytes
<1>7. CASE t = "guid"
  <2>1. bytes = Packet!PackGUID(v) /\ v \in Guids /\ Packet!Kept(t, v) = <<v>>
    BY <1>7, OtherItems, OtherValues, OtherKept DEF bytes
  <2>2. Packet!Decode(b, t) = Packet!ReadPackGUID(b)
    BY <1>7, DecodeOthers
  <2>3. Packet!ReadPackGUID(b) = Packet!Gives(b.rpos + Len(bytes), v)
    BY <1>1, <2>1, GuidReturns
  <2> QED
    BY <2>1, <2>2, <2>3 DEF Packet!Gives, bytes
<1>8. CASE t = "time"
  <2>1. bytes = Packet!PackedTime(v) /\ v \in Moments
    BY <1>8, OtherItems, OtherValues DEF bytes
  <2>2. Packet!Decode(b, t) = Parsed(Packet!ReadBytes(b, 4), Packet!UnpackedTime(Packet!ReadBytes(b, 4).value[1]))
    BY <1>8, DecodeOthers
  <2>3. Len(bytes) = 4
    BY <2>1, TimeHasFour
  <2>4. <<Packet!UnpackedTime(bytes)>> = Packet!Kept(t, v)
    BY <1>8, <2>1, TimeReturns
  <2>5. Packet!Decode(b, t) = Parsed(r, Packet!UnpackedTime(bytes))
    <3> HIDE DEF r
    <3> QED
      BY <1>2, <2>2, <2>3 DEF r
  <2> HIDE DEF r
  <2> QED
    BY <1>3, <2>4, <2>5 DEF Packet!Gives, bytes
<1>9. CASE t = "float"
  <2>1. bytes = v /\ v \in [1 .. 4 -> 0 .. 255] /\ Packet!Kept(t, v) = IF Packet!Finite(v) THEN <<v>> ELSE << >>
    BY <1>9, OtherItems, OtherValues, OtherKept DEF bytes
  <2>2. Packet!Decode(b, t) =
          IF Packet!ReadBytes(b, 4).value = << >> \/ Packet!Finite(Packet!ReadBytes(b, 4).value[1])
          THEN Packet!ReadBytes(b, 4) ELSE Packet!Throws(Packet!ReadBytes(b, 4).rpos)
    BY <1>9, DecodeOthers
  <2>3. Len(bytes) = 4
    <3>0. v \in [1 .. 4 -> 0 .. 255]
      BY <2>1
    <3>1. v \in [1 .. 4 -> Int]
      BY <3>0
    <3>2. 4 \in Nat
      OBVIOUS
    <3>3. Len(v) = 4
      BY <3>1, <3>2, SeqOfInts
    <3> QED
      BY <2>1, <3>3
  <2>4. r = Packet!Gives(b.rpos + Len(bytes), bytes)
    BY <1>0, <1>1, ReadBytesReturns
  <2>5. Packet!Decode(b, t) = IF r.value = << >> \/ Packet!Finite(r.value[1]) THEN r ELSE Packet!Throws(r.rpos)
    BY <2>2, <2>3
  <2> HIDE DEF r
  <2> QED
    BY <1>2, <2>1, <2>4, <2>5 DEF Packet!Gives, Packet!Throws, bytes
<1> QED
  BY <1>4, <1>5, <1>6, <1>7, <1>8, <1>9, TypesAre

\* A read goes no further than the storage.
LEMMA DecodeStays ==
    ASSUME NEW b \in Buffers, NEW t \in Packet!Types, b.rpos <= Packet!Size(b)
    PROVE  Packet!Decode(b, t).rpos \in b.rpos .. Packet!Size(b)
<1> DEFINE p == b.rpos
           n == Packet!Size(b)
           Within_(r) == r.rpos \in p .. n
<1>1. p \in Nat /\ n \in Nat /\ p <= n
  BY DEF Buffers, Packet!Size
<1> HIDE DEF p, n
<1>2. ASSUME NEW k \in Nat PROVE Within_(Packet!ReadBytes(b, k))
  BY <1>1 DEF Packet!ReadBytes, Packet!Throws, Packet!Gives, p, n
<1>3. ASSUME NEW r, NEW value, Within_(r) PROVE Within_(Parsed(r, value))
  BY <1>3 DEF Parsed, Packet!Gives
<1>4. CASE t \in IntegralNames
  <2> DEFINE w == Packet!Width[t]
  <2>1. w \in Nat
    BY <1>4, IntegralItem
  <2>2. Packet!Decode(b, t) =
          Parsed(Packet!ReadBytes(b, w), Packet!Number(Packet!ReadBytes(b, w).value[1], t \in Packet!Signed))
    BY <1>4, DecodeIntegral
  <2> HIDE DEF w, Within_
  <2>3. Within_(Packet!Decode(b, t))
    BY <1>2, <1>3, <2>1, <2>2
  <2> QED
    BY <2>3 DEF Within_, p, n
<1>5. CASE t = "bool"
  <2>1. Packet!Decode(b, t) = Parsed(Packet!ReadBytes(b, 1), Packet!ReadBytes(b, 1).value[1][1] \in 1 .. 127)
    BY <1>5, DecodeOthers
  <2>2. 1 \in Nat
    BY SMTT(30)
  <2> HIDE DEF Within_
  <2>3. Within_(Packet!Decode(b, t))
    BY <1>2, <1>3, <2>1, <2>2
  <2> QED
    BY <2>3 DEF Within_, p, n
<1>6. CASE t = "string"
  <2>1. Packet!Decode(b, t) = Packet!ReadCString(b)
    BY <1>6, DecodeOthers
  <2> DEFINE zeros == {i \in b.rpos + 1 .. Packet!Size(b) : b.storage[i] = 0}
             c == CHOOSE i \in zeros : \A j \in zeros : i <= j
             e == IF zeros = {} THEN Packet!Size(b) ELSE c
             str == SubSeq(b.storage, b.rpos + 1, IF zeros = {} THEN e ELSE e - 1)
  <2>2. Packet!ReadCString(b) = IF Packet!ValidUtf8(str) THEN Packet!Gives(e, str) ELSE Packet!Throws(e)
    BY Zenon DEF Packet!ReadCString
  <2>3. \A i \in zeros : i \in Nat /\ p + 1 <= i /\ i <= n
    BY <1>1 DEF p, n
  <2>4. zeros # {} => c \in zeros
    <3>1. zeros \in SUBSET Nat
      BY <2>3
    <3> HIDE DEF zeros
    <3>2. ASSUME zeros # {} PROVE c \in zeros
      <4>1. \E m \in zeros : \A k \in zeros : m <= k
        BY <3>1, <3>2, Least
      <4> QED
        BY <4>1
    <3> QED
      BY <3>2
  <2> HIDE DEF zeros, c
  <2>5. e \in p .. n
    BY <1>1, <2>3, <2>4 DEF n
  <2> HIDE DEF str, e
  <2>6. Packet!ReadCString(b).rpos = e
    BY <2>2 DEF Packet!Gives, Packet!Throws
  <2> QED
    BY <2>1, <2>5, <2>6 DEF p, n
<1>7. CASE t = "guid"
  <2>1. Packet!Decode(b, t) = Packet!ReadPackGUID(b)
    BY <1>7, DecodeOthers
  <2>2. CASE b.rpos + 1 <= Packet!Size(b)
    <3>1. 8 \in 0 .. 8
      OBVIOUS
    <3>2. Packet!ReadPackGUID(b) = ReadFrom(b)[8] /\ ReadFrom(b)[8] \in Answers(b)
      BY <2>2, <3>1, ReadSteps
    <3> QED
      BY <2>1, <3>2 DEF Answers
  <2>3. CASE ~(b.rpos + 1 <= Packet!Size(b))
    <3>1. b.rpos + 1 > Packet!Size(b)
      BY <1>1, <2>3 DEF p, n
    <3>2. Packet!ReadPackGUID(b) = Packet!Throws(b.rpos)
      BY <3>1, Zenon DEF Packet!ReadPackGUID
    <3> QED
      BY <1>1, <2>1, <3>2 DEF Packet!Throws, p, n
  <2> QED
    BY <2>2, <2>3
<1>8. CASE t = "time"
  <2>1. Packet!Decode(b, t) = Parsed(Packet!ReadBytes(b, 4), Packet!UnpackedTime(Packet!ReadBytes(b, 4).value[1]))
    BY <1>8, DecodeOthers
  <2>2. 4 \in Nat
    OBVIOUS
  <2> HIDE DEF Within_
  <2>3. Within_(Packet!Decode(b, t))
    BY <1>2, <1>3, <2>1, <2>2
  <2> QED
    BY <2>3 DEF Within_, p, n
<1>9. CASE t = "float"
  <2> DEFINE r == Packet!ReadBytes(b, 4)
  <2>1. Packet!Decode(b, t) = IF r.value = << >> \/ Packet!Finite(r.value[1]) THEN r ELSE Packet!Throws(r.rpos)
    BY <1>9, DecodeOthers
  <2>2. 4 \in Nat
    OBVIOUS
  <2>3. Within_(r)
    BY <1>2, <2>2
  <2> HIDE DEF r
  <2>4. Within_(Packet!Decode(b, t))
    BY <2>1, <2>3 DEF Packet!Throws
  <2> QED
    BY <2>4 DEF p, n
<1> QED
  BY <1>4, <1>5, <1>6, <1>7, <1>8, <1>9, TypesAre

-----------------------------------------------------------------------------
(***************************************************************************)
(* Packets: items                                                          *)
(***************************************************************************)
Entries == UNION {{t} \X Values[t] : t \in DOMAIN Values}
BytesOf(x) == Packet!Encode(x[1], x[2])
SizeOf(x) == Len(BytesOf(x))

LEMMA EntryOf ==
    ASSUME NEW t \in DOMAIN Values, NEW v \in Values[t]
    PROVE  /\ <<t, v>> \in Entries /\ BytesOf(<<t, v>>) = Packet!Encode(t, v)
BY DEF Entries, BytesOf

LEMMA EntryHasBytes ==
    ASSUME NEW x \in Entries
    PROVE  /\ x[1] \in DOMAIN Values /\ x[2] \in Values[x[1]] /\ x = <<x[1], x[2]>>
           /\ x[1] \in Packet!Types /\ Packet!IsValue(x[1], x[2])
           /\ BytesOf(x) \in Seq(Int) /\ SizeOf(x) \in Nat
           /\ MaxItems * SizeOf(x) < Packet!MaxStorage
<1>1. PICK t \in DOMAIN Values : x \in {t} \X Values[t]
  BY DEF Entries
<1>2. x[1] = t /\ x[2] \in Values[t] /\ x = <<x[1], x[2]>>
  BY <1>1
<1>3. t \in Packet!Types /\ Packet!IsValue(t, x[2]) /\ MaxItems * Len(Packet!Encode(t, x[2])) < Packet!MaxStorage
  BY <1>2, ItemAssumption
<1>4. BytesOf(x) \in Seq(Int)
  <2>1. Packet!Encode(t, x[2]) \in Seq(Int)
    BY <1>3, EncodeBytes
  <2> QED
    BY <1>2, <2>1 DEF BytesOf
<1>5. SizeOf(x) \in Nat
  BY <1>4 DEF SizeOf
<1> QED
  BY <1>1, <1>2, <1>3, <1>4, <1>5 DEF SizeOf, BytesOf

\* Where the bytes of the first k items end.
Pos(items, k) == Packet!StartOf(items, k + 1)
StartsOf(items, n, f) ==
    f = [k \in 0 .. n |-> IF k = 0 THEN 0 ELSE f[k - 1] + Len(Packet!Encode(items[k][1], items[k][2]))]
StartsFrom(items, n) == CHOOSE f : StartsOf(items, n, f)

LEMMA StartSteps ==
    ASSUME NEW items \in Seq(Entries), NEW n \in 0 .. Len(items)
    PROVE  /\ Pos(items, n) = StartsFrom(items, n)[n]
           /\ \A k \in 0 .. n : StartsFrom(items, n)[k] \in Nat
           /\ \A k \in 0 .. n :
                StartsFrom(items, n)[k] = IF k = 0 THEN 0 ELSE StartsFrom(items, n)[k - 1] + SizeOf(items[k])
<1> DEFINE D == [p \in (1 .. n) \X Nat |-> p[2] + SizeOf(items[p[1]])]
           r == StartsFrom(items, n)
<1>0. n \in Nat /\ \A k \in 1 .. n : SizeOf(items[k]) \in Nat
  <2>1. \A k \in 1 .. n : items[k] \in Entries
    OBVIOUS
  <2> QED
    BY <2>1, EntryHasBytes
<1>1. D \in [(1 .. n) \X Nat -> Nat]
  BY <1>0
<1>2. PICK f \in [0 .. n -> Nat] : Stepwise(n, 0, D, f)
  <2> HIDE DEF D
  <2>1. 0 \in Nat
    OBVIOUS
  <2> QED
    BY <1>0, <1>1, <2>1, StepsExist
<1>3. \A k \in 0 .. n : f[k] = IF k = 0 THEN 0 ELSE f[k - 1] + SizeOf(items[k])
  <2> TAKE k \in 0 .. n
  <2>1. CASE k = 0
    BY <1>2, <2>1 DEF Stepwise
  <2>2. CASE k # 0
    <3>1. k \in 1 .. n /\ k - 1 \in 0 .. n
      BY <2>2
    <3>2. f[k] = D[<<k, f[k - 1]>>] /\ <<k, f[k - 1]>> \in (1 .. n) \X Nat
      BY <1>2, <3>1 DEF Stepwise
    <3>3. D[<<k, f[k - 1]>>] = f[k - 1] + SizeOf(items[k])
      BY <3>2
    <3> QED
      BY <2>2, <3>2, <3>3
  <2> QED
    BY <2>1, <2>2
<1>4. StartsOf(items, n, f)
  BY <1>2, <1>3, Zenon DEF StartsOf, SizeOf, BytesOf
<1>5. StartsOf(items, n, r)
  BY <1>4, Zenon DEF StartsFrom
<1>6. Pos(items, n) = r[n]
  <2>1. Packet!StartOf(items, n + 1) = StartsFrom(items, (n + 1) - 1)[(n + 1) - 1]
    BY Zenon DEF Packet!StartOf, StartsOf, StartsFrom
  <2>2. (n + 1) - 1 = n
    OBVIOUS
  <2> QED
    BY <2>1, <2>2 DEF Pos
<1> HIDE DEF r
<1>7. \A k \in 0 .. n : r[k] = IF k = 0 THEN 0 ELSE r[k - 1] + SizeOf(items[k])
  BY <1>5, Zenon DEF StartsOf, SizeOf, BytesOf
<1> DEFINE P == {k \in 0 .. n : r[k] \in Nat}
<1>8. 0 \in P
  BY <1>7
<1>9. ASSUME NEW k \in 1 .. n, k - 1 \in P PROVE k \in P
  <2>1. k \in 0 .. n /\ k # 0 /\ r[k - 1] \in Nat
    BY <1>9
  <2>2. r[k] = r[k - 1] + SizeOf(items[k])
    BY <1>7, <2>1
  <2> QED
    BY <1>0, <2>1, <2>2
<1>10. \A k \in 0 .. n : r[k] \in Nat
  <2>1. \A k \in 0 .. n : k \in P
    <3> HIDE DEF P
    <3> QED
      BY <1>0, <1>8, <1>9, Climb
  <2> QED
    BY <2>1
<1> QED
  BY <1>6, <1>7, <1>10 DEF r

LEMMA StartsAdd ==
    ASSUME NEW items \in Seq(Entries)
    PROVE  /\ Pos(items, 0) = 0
           /\ \A k \in 0 .. Len(items) : Pos(items, k) \in Nat
           /\ \A k \in 1 .. Len(items) : Pos(items, k) = Pos(items, k - 1) + SizeOf(items[k])
<1>1. Len(items) \in Nat /\ 0 \in 0 .. Len(items) /\ 0 \in 0 .. 0
  OBVIOUS
<1>2. Pos(items, 0) = 0
  <2>1. Pos(items, 0) = StartsFrom(items, 0)[0]
    BY <1>1, StartSteps
  <2>2. \A k \in 0 .. 0 : StartsFrom(items, 0)[k] = IF k = 0 THEN 0 ELSE StartsFrom(items, 0)[k - 1] + SizeOf(items[k])
    BY <1>1, StartSteps
  <2> QED
    BY <1>1, <2>1, <2>2
<1>3. \A k \in 0 .. Len(items) : Pos(items, k) \in Nat
  <2> TAKE k \in 0 .. Len(items)
  <2>1. Pos(items, k) = StartsFrom(items, k)[k]
    BY StartSteps
  <2>2. \A i \in 0 .. k : StartsFrom(items, k)[i] \in Nat
    BY StartSteps
  <2>3. k \in 0 .. k
    OBVIOUS
  <2> QED
    BY <2>1, <2>2, <2>3
<1>4. \A k \in 1 .. Len(items) : Pos(items, k) = Pos(items, k - 1) + SizeOf(items[k])
  <2> TAKE k \in 1 .. Len(items)
  <2> DEFINE r == StartsFrom(items, k)
             s == StartsFrom(items, k - 1)
  <2>1. k \in 0 .. Len(items) /\ k - 1 \in 0 .. Len(items) /\ k - 1 \in Nat /\ k \in 0 .. k /\ k # 0
    OBVIOUS
  <2>2. Pos(items, k) = r[k]
    BY <2>1, StartSteps
  <2>3. Pos(items, k - 1) = s[k - 1]
    BY <2>1, StartSteps
  <2>4. \A i \in 0 .. k : r[i] = IF i = 0 THEN 0 ELSE r[i - 1] + SizeOf(items[i])
    BY <2>1, StartSteps
  <2>5. \A i \in 0 .. k - 1 : s[i] = IF i = 0 THEN 0 ELSE s[i - 1] + SizeOf(items[i])
    BY <2>1, StartSteps
  <2> HIDE DEF r, s
  <2> DEFINE P == {i \in 0 .. k - 1 : r[i] = s[i]}
  <2>6. 0 \in P
    BY <2>1, <2>4, <2>5
  <2>7. ASSUME NEW i \in 1 .. k - 1, i - 1 \in P PROVE i \in P
    <3>1. i \in 0 .. k /\ i \in 0 .. k - 1 /\ i # 0 /\ r[i - 1] = s[i - 1]
      BY <2>7
    <3>2. r[i] = r[i - 1] + SizeOf(items[i]) /\ s[i] = s[i - 1] + SizeOf(items[i])
      BY <2>4, <2>5, <3>1
    <3> QED
      BY <3>1, <3>2
  <2>8. r[k - 1] = s[k - 1]
    <3>1. \A i \in 0 .. k - 1 : i \in P
      <4> HIDE DEF P
      <4> QED
        BY <2>1, <2>6, <2>7, Climb
    <3>2. k - 1 \in 0 .. k - 1
      BY <2>1
    <3> QED
      BY <3>1, <3>2
  <2>9. r[k] = r[k - 1] + SizeOf(items[k])
    BY <2>1, <2>4
  <2> QED
    BY <2>2, <2>3, <2>8, <2>9
<1> QED
  BY <1>2, <1>3, <1>4

LEMMA StartsGrow ==
    ASSUME NEW items \in Seq(Entries), NEW j \in 0 .. Len(items), NEW k \in j .. Len(items)
    PROVE  Pos(items, j) <= Pos(items, k)
<1> DEFINE n == Len(items)
           P == {i \in 0 .. n : i >= j => Pos(items, j) <= Pos(items, i)}
<1>1. n \in Nat /\ \A i \in 0 .. n : Pos(items, i) \in Nat
  BY StartsAdd
<1>2. \A i \in 1 .. n : Pos(items, i) = Pos(items, i - 1) + SizeOf(items[i]) /\ SizeOf(items[i]) \in Nat
  <2>1. \A i \in 1 .. n : items[i] \in Entries
    OBVIOUS
  <2> QED
    BY <2>1, StartsAdd, EntryHasBytes
<1> HIDE DEF n
<1>3. 0 \in P
  BY <1>1 DEF n
<1>4. ASSUME NEW i \in 1 .. n, i - 1 \in P PROVE i \in P
  <2>1. i \in 0 .. n /\ i - 1 \in 0 .. n
    BY <1>1
  <2>2. Pos(items, i) >= Pos(items, i - 1) /\ Pos(items, i) \in Nat /\ Pos(items, i - 1) \in Nat
    BY <1>1, <1>2, <2>1
  <2>3. Pos(items, j) \in Nat
    BY <1>1 DEF n
  <2>4. i >= j => i = j \/ i - 1 >= j
    BY <2>1
  <2> QED
    BY <1>4, <2>1, <2>2, <2>3, <2>4
<1>5. \A i \in 0 .. n : i \in P
  <2> HIDE DEF P
  <2> QED
    BY <1>1, <1>3, <1>4, Climb
<1>6. k \in 0 .. n /\ k >= j
  BY <1>1 DEF n
<1> QED
  BY <1>5, <1>6

LEMMA SameStarts ==
    ASSUME NEW a \in Seq(Entries), NEW b \in Seq(Entries), NEW n \in Nat, n <= Len(a), n <= Len(b),
           \A i \in 1 .. n : SizeOf(a[i]) = SizeOf(b[i])
    PROVE  \A i \in 0 .. n : Pos(a, i) = Pos(b, i)
<1> DEFINE P == {i \in 0 .. n : Pos(a, i) = Pos(b, i)}
<1>1. Pos(a, 0) = 0 /\ Pos(b, 0) = 0
  BY StartsAdd
<1>2. 0 \in P
  BY <1>1
<1>3. ASSUME NEW i \in 1 .. n, i - 1 \in P PROVE i \in P
  <2>1. i \in 1 .. Len(a) /\ i \in 1 .. Len(b) /\ i \in 0 .. n
    OBVIOUS
  <2>2. Pos(a, i) = Pos(a, i - 1) + SizeOf(a[i])
    BY <2>1, StartsAdd
  <2>3. Pos(b, i) = Pos(b, i - 1) + SizeOf(b[i])
    BY <2>1, StartsAdd
  <2>4. SizeOf(a[i]) = SizeOf(b[i]) /\ Pos(a, i - 1) = Pos(b, i - 1)
    BY <1>3
  <2> QED
    BY <2>1, <2>2, <2>3, <2>4
<1>4. \A i \in 0 .. n : i \in P
  <2> HIDE DEF P
  <2> QED
    BY <1>2, <1>3, Climb
<1> QED
  BY <1>4

LEMMA JoinedStarts ==
    ASSUME NEW a \in Seq(Entries), NEW b \in Seq(Entries)
    PROVE  /\ a \o b \in Seq(Entries)
           /\ \A i \in 0 .. Len(a) : Pos(a \o b, i) = Pos(a, i)
           /\ \A i \in 0 .. Len(b) : Pos(a \o b, Len(a) + i) = Pos(a, Len(a)) + Pos(b, i)
<1> DEFINE c == a \o b
           n == Len(a)
           m == Len(b)
           P == {i \in 0 .. m : Pos(c, n + i) = Pos(a, n) + Pos(b, i)}
<1>1. /\ c \in Seq(Entries) /\ Len(c) = n + m
      /\ \A i \in 1 .. n : c[i] = a[i]
      /\ \A i \in 1 .. m : c[n + i] = b[i]
  BY Joined
<1>2. n \in Nat /\ m \in Nat
  OBVIOUS
<1> HIDE DEF c
<1>3. \A i \in 0 .. n : Pos(c, i) = Pos(a, i)
  <2>1. n <= Len(c) /\ n <= Len(a) /\ \A i \in 1 .. n : SizeOf(c[i]) = SizeOf(a[i])
    BY <1>1, <1>2
  <2> QED
    BY <1>1, <1>2, <2>1, SameStarts
<1>4. Pos(b, 0) = 0 /\ Pos(a, n) \in Nat /\ Pos(c, n) = Pos(a, n)
  <2>1. n \in 0 .. n
    BY <1>2
  <2> QED
    BY <1>3, <2>1, StartsAdd
<1>5. 0 \in P
  BY <1>2, <1>4
<1>6. ASSUME NEW i \in 1 .. m, i - 1 \in P PROVE i \in P
  <2>1. n + i \in 1 .. Len(c) /\ i \in 0 .. m /\ i - 1 \in 0 .. m /\ (n + i) - 1 = n + (i - 1)
    BY <1>1, <1>2
  <2>2. Pos(c, n + i) = Pos(c, (n + i) - 1) + SizeOf(c[n + i])
    BY <1>1, <2>1, StartsAdd
  <2>3. Pos(b, i) = Pos(b, i - 1) + SizeOf(b[i])
    BY StartsAdd
  <2>4. Pos(b, i - 1) \in Nat /\ SizeOf(b[i]) \in Nat
    <3>1. b[i] \in Entries
      OBVIOUS
    <3> QED
      BY <2>1, <3>1, StartsAdd, EntryHasBytes
  <2>5. SizeOf(c[n + i]) = SizeOf(b[i])
    BY <1>1
  <2>6. Pos(c, n + (i - 1)) = Pos(a, n) + Pos(b, i - 1)
    BY <1>6
  <2> HIDE DEF n, m
  <2>7. Pos(c, n + i) = Pos(a, n) + Pos(b, i)
    BY <1>4, <2>1, <2>2, <2>3, <2>4, <2>5, <2>6
  <2> QED
    BY <2>1, <2>7
<1>7. \A i \in 0 .. m : i \in P
  <2> HIDE DEF P
  <2> QED
    BY <1>2, <1>5, <1>6, Climb
<1> QED
  BY <1>1, <1>3, <1>7 DEF c

\* append() does not abort.
LEMMA Distributes ==
    ASSUME NEW a \in Nat, NEW b \in Nat, NEW m \in Nat
    PROVE  m * (a + b) = m * a + m * b /\ m * a \in Nat
OBVIOUS

LEMMA ProductOrders ==
    ASSUME NEW a \in Nat, NEW b \in Nat, NEW m \in Nat \ {0}, m * a <= m * b
    PROVE  a <= b
<1>1. ASSUME a >= b + 1 PROVE FALSE
  <2> DEFINE d == a - b
  <2>1. d \in Nat /\ d >= 1 /\ a = b + d
    BY <1>1
  <2> HIDE DEF d
  <2>2. m * (b + d) = m * b + m * d /\ m * b \in Nat
    BY <2>1, Distributes
  <2>3. m * d >= m
    BY <2>1, ProductGrows
  <2> DEFINE x == m * b
             y == m * d
  <2>4. m * a = x + y /\ x \in Nat /\ y >= m /\ m * a <= x /\ y \in Int
    BY <2>1, <2>2, <2>3
  <2> HIDE DEF x, y
  <2> QED
    BY <2>4
<1> QED
  BY <1>1

LEMMA StartsBounded ==
    ASSUME NEW items \in Seq(Entries), Len(items) <= MaxItems
    PROVE  Pos(items, Len(items)) <= Packet!MaxStorage
<1> DEFINE n == Len(items)
           S == Packet!MaxStorage
           P == {i \in 0 .. n : MaxItems * Pos(items, i) <= S * i}
<1>1. n \in Nat /\ MaxItems \in Nat /\ \A i \in 0 .. n : Pos(items, i) \in Nat
  BY StartsAdd, ItemAssumption
<1>2. Pos(items, 0) = 0 /\ \A i \in 1 .. n : Pos(items, i) = Pos(items, i - 1) + SizeOf(items[i])
  BY StartsAdd
<1>3. \A i \in 1 .. n : SizeOf(items[i]) \in Nat /\ MaxItems * SizeOf(items[i]) < S
  <2>1. \A i \in 1 .. n : items[i] \in Entries
    OBVIOUS
  <2> QED
    BY <2>1, EntryHasBytes
<1>4. S \in Nat \ {0}
  BY SMT DEF Packet!MaxStorage
<1> HIDE DEF n, S
<1>5. 0 \in P
  BY <1>1, <1>2, <1>4
<1>6. ASSUME NEW i \in 1 .. n, i - 1 \in P PROVE i \in P
  <2> DEFINE p == Pos(items, i - 1)
             w == SizeOf(items[i])
  <2>1. i - 1 \in 0 .. n /\ i \in 0 .. n /\ i - 1 \in Nat
    BY <1>1
  <2>2. p \in Nat /\ w \in Nat /\ Pos(items, i) = p + w /\ MaxItems * w < S
    BY <1>1, <1>2, <1>3, <2>1
  <2>3. MaxItems * p <= S * (i - 1)
    BY <1>6
  <2> HIDE DEF p, w
  <2>4. MaxItems * (p + w) = MaxItems * p + MaxItems * w /\ MaxItems * p \in Nat /\ MaxItems * w \in Nat
    BY <1>1, <2>2, Distributes
  <2>5. S * ((i - 1) + 1) = S * (i - 1) + S * 1 /\ S * (i - 1) \in Nat
    BY <1>4, <2>1, Distributes
  <2>6. (i - 1) + 1 = i /\ S * 1 = S
    BY <1>4, <2>1
  <2> DEFINE x == MaxItems * p
             y == MaxItems * w
             z == S * (i - 1)
  <2>7. /\ x \in Nat /\ y \in Nat /\ z \in Nat /\ x <= z /\ y < S
        /\ MaxItems * (p + w) = x + y /\ S * i = z + S
    BY <2>2, <2>3, <2>4, <2>5, <2>6
  <2> HIDE DEF x, y, z
  <2>8. x + y <= z + S
    BY <1>4, <2>7
  <2>9. MaxItems * Pos(items, i) <= S * i
    BY <2>2, <2>7, <2>8
  <2> QED
    BY <2>1, <2>9
<1>7. MaxItems * Pos(items, n) <= S * n
  <2>1. \A i \in 0 .. n : i \in P
    <3> HIDE DEF P
    <3> QED
      BY <1>1, <1>5, <1>6, Climb
  <2>2. n \in 0 .. n
    BY <1>1
  <2> QED
    BY <2>1, <2>2
<1>8. n <= MaxItems
  BY DEF n
<1>9. CASE MaxItems = 0
  <2>1. n = 0
    BY <1>1, <1>8, <1>9
  <2>2. Pos(items, n) <= S
    BY <1>2, <1>4, <2>1
  <2> QED
    BY <2>2 DEF n, S
<1>10. CASE MaxItems # 0
  <2> DEFINE p == Pos(items, n)
             d == MaxItems - n
  <2>1. p \in Nat /\ d \in Nat /\ MaxItems = n + d /\ MaxItems \in Nat \ {0}
    BY <1>1, <1>8, <1>10
  <2>2. S * (n + d) = S * n + S * d /\ S * d \in Nat /\ S * n \in Nat
    BY <1>1, <1>4, <2>1, Distributes
  <2>3. MaxItems * S = S * MaxItems
    BY <1>1, <1>4
  <2> DEFINE x == S * n
             y == S * d
             u == MaxItems * p
             v == MaxItems * S
  <2>4. x \in Nat /\ y \in Nat /\ v = x + y /\ u <= x
    BY <1>7, <2>1, <2>2, <2>3
  <2>5. u \in Nat
    BY <2>1, Distributes
  <2> HIDE DEF x, y, u, v
  <2>6. u <= v
    BY <2>4, <2>5
  <2> HIDE DEF p
  <2>7. p <= S
    BY <1>4, <2>1, <2>6, ProductOrders DEF u, v
  <2> QED
    BY <2>7 DEF p, n, S
<1> QED
  BY <1>9, <1>10

\* The storage holds the items and nothing else.
Laid(storage, items) ==
    /\ Len(storage) = Pos(items, Len(items))
    /\ \A k \in 1 .. Len(items) : \A j \in 1 .. SizeOf(items[k]) :
         storage[Pos(items, k - 1) + j] = BytesOf(items[k])[j]

LEMMA Located ==
    ASSUME NEW items \in Seq(Entries), NEW k \in 1 .. Len(items), NEW j \in 1 .. SizeOf(items[k])
    PROVE  /\ Pos(items, k - 1) \in Nat /\ Pos(items, k - 1) + j \in 1 .. Pos(items, k)
           /\ Pos(items, k) <= Pos(items, Len(items)) /\ SizeOf(items[k]) \in Nat
           /\ BytesOf(items[k])[j] \in Int /\ Pos(items, k) \in Nat /\ Pos(items, Len(items)) \in Nat
<1>1. items[k] \in Entries /\ k - 1 \in 0 .. Len(items) /\ k \in 0 .. Len(items) /\ Len(items) \in k .. Len(items)
      /\ Len(items) \in 0 .. Len(items)
  OBVIOUS
<1>2. BytesOf(items[k]) \in Seq(Int) /\ SizeOf(items[k]) \in Nat
  BY <1>1, EntryHasBytes
<1>3. /\ Pos(items, k - 1) \in Nat /\ Pos(items, k) \in Nat /\ Pos(items, Len(items)) \in Nat
      /\ Pos(items, k) = Pos(items, k - 1) + SizeOf(items[k])
  BY <1>1, StartsAdd
<1>4. Pos(items, k) <= Pos(items, Len(items))
  BY <1>1, StartsGrow
<1>5. BytesOf(items[k])[j] \in Int
  BY <1>2 DEF SizeOf
<1> QED
  BY <1>2, <1>3, <1>4, <1>5

LEMMA LaidHas ==
    ASSUME NEW b \in Buffers, NEW items \in Seq(Entries), Laid(b.storage, items),
           NEW k \in 1 .. Len(items), b.rpos = Pos(items, k - 1)
    PROVE  Has(b, BytesOf(items[k])) /\ b.rpos + SizeOf(items[k]) = Pos(items, k)
<1>1. items[k] \in Entries /\ k - 1 \in 0 .. Len(items) /\ k \in 0 .. Len(items) /\ Len(items) \in k .. Len(items)
  OBVIOUS
<1>2. Pos(items, k) = Pos(items, k - 1) + SizeOf(items[k])
  BY StartsAdd
<1>3. Pos(items, k) <= Pos(items, Len(items))
  BY <1>1, StartsGrow
<1>4. Packet!Size(b) = Pos(items, Len(items))
  BY DEF Laid, Packet!Size
<1>5. \A j \in 1 .. SizeOf(items[k]) : b.storage[b.rpos + j] = BytesOf(items[k])[j]
  BY DEF Laid
<1> QED
  BY <1>2, <1>3, <1>4, <1>5 DEF Has, SizeOf

LEMMA LaidOne ==
    ASSUME NEW x \in Entries
    PROVE  /\ <<x>> \in Seq(Entries) /\ Len(<<x>>) = 1 /\ Laid(BytesOf(x), <<x>>)
           /\ Pos(<<x>>, 1) = SizeOf(x)
<1> DEFINE s == <<x>>
<1>1. s \in Seq(Entries) /\ Len(s) = 1 /\ s[1] = x
  OBVIOUS
<1> HIDE DEF s
<1>2. 1 \in 1 .. Len(s) /\ 1 - 1 = 0
  BY <1>1
<1>3. Pos(s, 0) = 0 /\ Pos(s, 1) = Pos(s, 1 - 1) + SizeOf(s[1])
  BY <1>1, <1>2, StartsAdd
<1>4. SizeOf(x) \in Nat
  BY EntryHasBytes
<1>5. Pos(s, 1) = SizeOf(x)
  BY <1>1, <1>2, <1>3, <1>4
<1>6. ASSUME NEW k \in 1 .. Len(s), NEW j \in 1 .. SizeOf(s[k])
      PROVE  BytesOf(x)[Pos(s, k - 1) + j] = BytesOf(s[k])[j]
  <2>1. k = 1
    BY <1>1
  <2>2. Pos(s, k - 1) + j = j
    BY <1>1, <1>2, <1>3, <1>4, <2>1
  <2> QED
    BY <1>1, <2>1, <2>2
<1>7. Laid(BytesOf(x), s)
  BY <1>1, <1>5, <1>6 DEF Laid, SizeOf
<1> QED
  BY <1>1, <1>5, <1>7 DEF s

LEMMA LaidJoined ==
    ASSUME NEW a \in Seq(Entries), NEW b \in Seq(Entries), NEW s \in Seq(Int), NEW t \in Seq(Int),
           Laid(s, a), Laid(t, b)
    PROVE  Laid(s \o t, a \o b)
<1> DEFINE n == Len(a)
           m == Len(b)
           c == a \o b
           u == s \o t
<1>1. /\ c \in Seq(Entries) /\ Len(c) = n + m
      /\ \A i \in 1 .. n : c[i] = a[i]
      /\ \A i \in 1 .. n + m : i > n => i - n \in 1 .. m /\ c[i] = b[i - n]
  BY Joined
<1>2. /\ u \in Seq(Int) /\ Len(u) = Len(s) + Len(t)
      /\ \A i \in 1 .. Len(s) : u[i] = s[i]
      /\ \A i \in 1 .. Len(t) : u[Len(s) + i] = t[i]
  BY Joined
<1>3. /\ \A i \in 0 .. n : Pos(c, i) = Pos(a, i)
      /\ \A i \in 0 .. m : Pos(c, n + i) = Pos(a, n) + Pos(b, i)
  BY JoinedStarts
<1>4. n \in Nat /\ m \in Nat /\ Len(s) = Pos(a, n) /\ Len(t) = Pos(b, m)
  BY DEF Laid
<1> HIDE DEF c, u
<1>5. Len(u) = Pos(c, Len(c))
  <2>1. m \in 0 .. m
    BY <1>4
  <2> QED
    BY <1>1, <1>2, <1>3, <1>4, <2>1
<1>6. ASSUME NEW k \in 1 .. Len(c), NEW j \in 1 .. SizeOf(c[k]), k <= n
      PROVE  u[Pos(c, k - 1) + j] = BytesOf(c[k])[j]
  <2>1. k \in 1 .. n /\ k - 1 \in 0 .. n
    BY <1>4, <1>6
  <2>2. c[k] = a[k] /\ Pos(c, k - 1) = Pos(a, k - 1)
    BY <1>1, <1>3, <2>1
  <2>3. j \in 1 .. SizeOf(a[k])
    BY <2>2
  <2>4. Pos(a, k - 1) + j \in 1 .. Pos(a, k) /\ Pos(a, k) <= Pos(a, n) /\ Pos(a, k) \in Nat /\ Pos(a, n) \in Nat
    BY <2>1, <2>3, Located
  <2>5. Pos(a, k - 1) + j \in 1 .. Len(s)
    BY <1>4, <2>4
  <2>6. u[Pos(a, k - 1) + j] = s[Pos(a, k - 1) + j]
    BY <1>2, <2>5
  <2>7. s[Pos(a, k - 1) + j] = BytesOf(a[k])[j]
    BY <2>1, <2>3 DEF Laid
  <2> QED
    BY <2>2, <2>6, <2>7
<1>7. ASSUME NEW k \in 1 .. Len(c), NEW j \in 1 .. SizeOf(c[k]), k > n
      PROVE  u[Pos(c, k - 1) + j] = BytesOf(c[k])[j]
  <2> DEFINE i == k - n
  <2>1. i \in 1 .. m /\ i - 1 \in 0 .. m /\ k - 1 = n + (i - 1) /\ c[k] = b[i]
    BY <1>1, <1>4, <1>7
  <2> HIDE DEF i
  <2>2. Pos(c, k - 1) = Pos(a, n) + Pos(b, i - 1)
    BY <1>3, <2>1
  <2>3. j \in 1 .. SizeOf(b[i])
    BY <2>1
  <2>4. Pos(b, i - 1) + j \in 1 .. Pos(b, i) /\ Pos(b, i) <= Pos(b, m) /\ Pos(b, i) \in Nat /\ Pos(b, m) \in Nat
        /\ Pos(b, i - 1) \in Nat
    BY <2>1, <2>3, Located
  <2>5. Pos(b, i - 1) + j \in 1 .. Len(t)
    BY <1>4, <2>4
  <2>6. u[Len(s) + (Pos(b, i - 1) + j)] = t[Pos(b, i - 1) + j]
    BY <1>2, <2>5
  <2>7. t[Pos(b, i - 1) + j] = BytesOf(b[i])[j]
    BY <2>1, <2>3 DEF Laid
  <2>8. Pos(c, k - 1) + j = Len(s) + (Pos(b, i - 1) + j)
    <3>1. Pos(a, n) \in Nat
      <4>1. n \in 0 .. n
        BY <1>4
      <4> QED
        BY <4>1, StartsAdd
    <3>2. j \in Int
      OBVIOUS
    <3> QED
      BY <1>4, <2>2, <2>4, <3>1, <3>2
  <2> QED
    BY <2>1, <2>6, <2>7, <2>8
<1>8. \A k \in 1 .. Len(c) : \A j \in 1 .. SizeOf(c[k]) : u[Pos(c, k - 1) + j] = BytesOf(c[k])[j]
  <2> TAKE k \in 1 .. Len(c)
  <2> TAKE j \in 1 .. SizeOf(c[k])
  <2>1. k <= n \/ k > n
    BY <1>4
  <2> QED
    BY <1>6, <1>7, <2>1
<1> QED
  BY <1>5, <1>8 DEF Laid, c, u

\* A number is replaced by one with as many bytes.
LEMMA LaidPut ==
    ASSUME NEW b \in Buffers, NEW items \in Seq(Entries), Laid(b.storage, items),
           NEW i \in 1 .. Len(items), NEW x \in Entries, SizeOf(x) = SizeOf(items[i])
    PROVE  /\ [items EXCEPT ![i] = x] \in Seq(Entries)
           /\ Len([items EXCEPT ![i] = x]) = Len(items)
           /\ \A k \in 0 .. Len(items) : Pos([items EXCEPT ![i] = x], k) = Pos(items, k)
           /\ Packet!PutBytes(b, Pos(items, i - 1), BytesOf(x)).storage \in Seq(Int)
           /\ Len(Packet!PutBytes(b, Pos(items, i - 1), BytesOf(x)).storage) = Packet!Size(b)
           /\ Laid(Packet!PutBytes(b, Pos(items, i - 1), BytesOf(x)).storage, [items EXCEPT ![i] = x])
<1> DEFINE c == [items EXCEPT ![i] = x]
           n == Len(items)
           p == Pos(items, i - 1)
           s == b.storage
           bytes == BytesOf(x)
           u == Packet!PutBytes(b, p, bytes).storage
<1>1. c \in Seq(Entries) /\ Len(c) = n /\ n \in Nat /\ \A k \in 1 .. n : c[k] = IF k = i THEN x ELSE items[k]
  OBVIOUS
<1>2. \A k \in 1 .. n : SizeOf(c[k]) = SizeOf(items[k])
  BY <1>1
<1> HIDE DEF c, n
<1>3. \A k \in 0 .. n : Pos(c, k) = Pos(items, k)
  BY <1>1, <1>2, SameStarts DEF n
<1>4. s \in Seq(Int) /\ Len(s) \in Nat /\ DOMAIN s = 1 .. Len(s) /\ Packet!Size(b) = Len(s)
  BY DEF Buffers, Packet!Size
<1>5. bytes \in Seq(Int) /\ Len(bytes) \in Nat /\ DOMAIN bytes = 1 .. Len(bytes) /\ Len(bytes) = SizeOf(items[i])
      /\ \A j \in 1 .. Len(bytes) : bytes[j] \in Int
  <2>1. bytes \in Seq(Int)
    BY EntryHasBytes
  <2>2. Len(bytes) = SizeOf(x)
    BY DEF SizeOf
  <2> HIDE DEF bytes
  <2> QED
    BY <2>1, <2>2
<1>6. p \in Nat /\ Pos(items, i) = p + SizeOf(items[i]) /\ Pos(items, i) \in Nat
  <2>1. i - 1 \in 0 .. Len(items) /\ i \in 0 .. Len(items)
    OBVIOUS
  <2> QED
    BY <2>1, StartsAdd
<1>7. u = [j \in 1 .. Len(s) |-> IF j - p \in 1 .. Len(bytes) THEN bytes[j - p] ELSE s[j]]
  <2> HIDE DEF bytes, p
  <2> QED
    BY <1>4, <1>5 DEF Packet!PutBytes, Packet!Buffer
<1> HIDE DEF u, bytes, p, s
<1>8. u \in Seq(Int) /\ Len(u) = Len(s)
  <2>1. \A j \in 1 .. Len(s) : (IF j - p \in 1 .. Len(bytes) THEN bytes[j - p] ELSE s[j]) \in Int
    <3> TAKE j \in 1 .. Len(s)
    <3>1. s[j] \in Int
      BY <1>4
    <3> QED
      BY <1>5, <3>1
  <2>2. u \in [1 .. Len(s) -> Int]
    BY <1>7, <2>1
  <2> QED
    BY <1>4, <2>2, SeqOfInts
<1>9. Len(u) = Pos(c, Len(c))
  <2>1. Len(s) = Pos(items, n) /\ n \in 0 .. n
    BY <1>1 DEF Laid, s, n
  <2> QED
    BY <1>1, <1>3, <1>8, <2>1
<1>10. ASSUME NEW k \in 1 .. n, NEW j \in 1 .. SizeOf(c[k]) PROVE u[Pos(c, k - 1) + j] = BytesOf(c[k])[j]
  <2> DEFINE q == Pos(items, k - 1)
  <2>1. k - 1 \in 0 .. n /\ Pos(c, k - 1) = q
    BY <1>1, <1>3
  <2>2. j \in 1 .. SizeOf(items[k])
    BY <1>2
  <2>3. /\ q \in Nat /\ q + j \in 1 .. Pos(items, k) /\ Pos(items, k) <= Pos(items, n)
        /\ Pos(items, k) \in Nat /\ Pos(items, n) \in Nat
    BY <2>2, Located DEF n
  <2>4. Len(s) = Pos(items, n)
    BY DEF Laid, s, n
  <2>5. q + j \in 1 .. Len(s)
    BY <2>3, <2>4
  <2>6. s[q + j] = BytesOf(items[k])[j]
    BY <2>2 DEF Laid, s, n
  <2>7. u[q + j] = IF (q + j) - p \in 1 .. Len(bytes) THEN bytes[(q + j) - p] ELSE s[q + j]
    BY <1>7, <2>5
  <2>8. CASE k = i
    <3>1. q = p
      BY <2>8 DEF p
    <3>2. (q + j) - p = j /\ j \in 1 .. Len(bytes)
      BY <1>5, <1>6, <2>2, <2>8, <3>1
    <3>3. c[k] = x
      BY <1>1, <2>8
    <3> QED
      BY <2>1, <2>7, <3>2, <3>3 DEF bytes
  <2>9. CASE k # i
    <3>1. c[k] = items[k]
      BY <1>1, <2>9
    <3>2. ~((q + j) - p \in 1 .. Len(bytes))
      <4>1. CASE k < i
        <5>1. k \in 0 .. Len(items) /\ i - 1 \in k .. Len(items)
          BY <1>1, <4>1 DEF n
        <5>2. Pos(items, k) <= p
          BY <5>1, StartsGrow DEF p
        <5> HIDE DEF q
        <5> QED
          BY <1>5, <1>6, <2>3, <5>2
      <4>2. CASE k > i
        <5>1. i \in 0 .. Len(items) /\ k - 1 \in i .. Len(items)
          BY <1>1, <4>2 DEF n
        <5>2. Pos(items, i) <= q
          BY <5>1, StartsGrow
        <5> HIDE DEF q
        <5> QED
          BY <1>5, <1>6, <2>3, <5>2
      <4> QED
        BY <1>1, <2>9, <4>1, <4>2 DEF n
    <3> QED
      BY <2>1, <2>6, <2>7, <3>1, <3>2
  <2> QED
    BY <2>8, <2>9
<1>11. Laid(u, c)
  BY <1>1, <1>9, <1>10 DEF Laid
<1> QED
  BY <1>1, <1>3, <1>4, <1>8, <1>11 DEF c, n, u, p, bytes, s

-----------------------------------------------------------------------------
(***************************************************************************)
(* Packets: the wire                                                       *)
(***************************************************************************)
\* A sequence is three others, one behind the other.
Spliced(w, a, b, c) ==
    /\ SubSeq(w, 1, Len(a)) = a
    /\ SubSeq(w, Len(a) + 1, Len(a) + Len(b)) = b
    /\ SubSeq(w, Len(a) + Len(b) + 1, Len(a) + Len(b) + Len(c)) = c

LEMMA ThreeSlices ==
    ASSUME NEW a \in Seq(Int), NEW b \in Seq(Int), NEW c \in Seq(Int)
    PROVE  Spliced((a \o b) \o c, a, b, c)
<1> DEFINE d == a \o b
           w == d \o c
           l == Len(a)
           m == Len(b)
           n == Len(c)
<1>1. /\ d \in Seq(Int) /\ Len(d) = l + m
      /\ \A i \in 1 .. l : d[i] = a[i]
      /\ \A i \in 1 .. m : d[l + i] = b[i]
  BY Joined
<1> HIDE DEF d
<1>2. d \in Seq(Int)
  BY <1>1
<1>3. /\ w \in Seq(Int) /\ Len(w) = Len(d) + n
      /\ \A i \in 1 .. Len(d) : w[i] = d[i]
      /\ \A i \in 1 .. n : w[Len(d) + i] = c[i]
  BY <1>2, Joined
<1>4. l \in Nat /\ m \in Nat /\ n \in Nat
  OBVIOUS
<1> HIDE DEF w
<1>5. Len(w) = l + m + n /\ l + m \in Nat
  BY <1>1, <1>3, <1>4
<1>6. SubSeq(w, 0 + 1, 0 + Len(a)) = a
  <2>1. 0 \in Nat /\ 0 + Len(a) <= Len(w)
    BY <1>4, <1>5
  <2>2. ASSUME NEW j \in 1 .. l PROVE w[0 + j] = a[j]
    <3>1. j \in 1 .. Len(d) /\ 0 + j = j
      BY <1>1, <1>4
    <3>2. w[j] = d[j] /\ d[j] = a[j]
      BY <1>1, <1>3, <3>1
    <3> QED
      BY <3>1, <3>2
  <2>3. w \in Seq(Int)
    BY <1>3
  <2> QED
    BY <2>1, <2>2, <2>3, Slice
<1>7. SubSeq(w, Len(a) + 1, Len(a) + Len(b)) = b
  <2>1. Len(a) \in Nat /\ Len(a) + Len(b) <= Len(w)
    BY <1>4, <1>5
  <2>2. \A j \in 1 .. Len(b) : w[Len(a) + j] = b[j]
    <3> TAKE j \in 1 .. Len(b)
    <3>1. l + j \in 1 .. Len(d) /\ j \in 1 .. m
      BY <1>1, <1>4
    <3>2. w[l + j] = d[l + j] /\ d[l + j] = b[j]
      BY <1>1, <1>3, <3>1
    <3> QED
      BY <3>2
  <2>3. w \in Seq(Int)
    BY <1>3
  <2> QED
    BY <2>1, <2>2, <2>3, Slice
<1>8. SubSeq(w, Len(d) + 1, Len(d) + Len(c)) = c
  <2>1. Len(d) \in Nat /\ Len(d) + Len(c) <= Len(w)
    BY <1>1, <1>3, <1>4
  <2>2. \A j \in 1 .. Len(c) : w[Len(d) + j] = c[j]
    BY <1>3
  <2>3. w \in Seq(Int)
    BY <1>3
  <2> QED
    BY <2>1, <2>2, <2>3, Slice
<1>9. SubSeq(w, 1, l) = a
  <2>1. 0 + 1 = 1 /\ 0 + Len(a) = l
    BY <1>4
  <2> QED
    BY <1>6, <2>1
<1>10. SubSeq(w, l + m + 1, l + m + n) = c
  BY <1>1, <1>8
<1>11. w \in Seq(Int) /\ w = (a \o b) \o c
  BY <1>3 DEF w, d
<1>12. Spliced(w, a, b, c)
  BY <1>7, <1>9, <1>10 DEF Spliced
<1> QED
  BY <1>11, <1>12

LEMMA ReversedTwice ==
    ASSUME NEW bytes \in Seq(Int)
    PROVE  /\ Packet!Reversed(bytes) \in Seq(Int) /\ Len(Packet!Reversed(bytes)) = Len(bytes)
           /\ Packet!Reversed(Packet!Reversed(bytes)) = bytes
<1> DEFINE n == Len(bytes)
           r == Packet!Reversed(bytes)
           x == Packet!Reversed(r)
<1>1. n \in Nat /\ \A i \in 1 .. n : bytes[i] \in Int /\ n + 1 - i \in 1 .. n
  OBVIOUS
<1>2. r = [i \in 1 .. n |-> bytes[n + 1 - i]]
  BY DEF Packet!Reversed
<1> HIDE DEF r, n
<1>3. r \in [1 .. n -> Int]
  BY <1>1, <1>2
<1>4. r \in Seq(Int) /\ Len(r) = n
  BY <1>1, <1>3, SeqOfInts
<1>5. x = [i \in 1 .. n |-> r[n + 1 - i]]
  BY <1>4 DEF Packet!Reversed
<1>6. \A i \in 1 .. n : r[i] \in Int
  BY <1>3
<1> HIDE DEF x
<1>7. x \in [1 .. n -> Int]
  BY <1>1, <1>5, <1>6
<1>8. x \in Seq(Int) /\ Len(x) = n
  BY <1>1, <1>7, SeqOfInts
<1>9. \A i \in 1 .. n : x[i] = bytes[i]
  <2> TAKE i \in 1 .. n
  <2>1. n + 1 - i \in 1 .. n /\ n + 1 - (n + 1 - i) = i
    BY <1>1
  <2> QED
    BY <1>2, <1>5, <2>1
<1>10. x = bytes
  BY <1>8, <1>9, SeqEqual DEF n
<1> QED
  BY <1>4, <1>10 DEF r, n, x

\* What is sent is received, with the opcode.
LEMMA WireReturns ==
    ASSUME NEW b \in Buffers, Packet!Size(b) <= Packet!MaxStorage
    PROVE  Packet!Received(Packet!OnWire(b)) = Packet!Buffer(b.storage, 0, 0, b.opcode)
<1> DEFINE op == b.opcode
           st == b.storage
           n == Packet!Size(b) + 2
           low == Packet!LittleEndian(n, 4)
           big == Packet!Reversed(low)
           cmd == Packet!LittleEndian(op, 2)
           wire_ == Packet!OnWire(b)
<1>1. /\ st \in Seq(Int) /\ op \in 0 .. 7 /\ Packet!Size(b) = Len(st)
      /\ Len(st) \in Nat
  BY DEF Buffers, Packet!Opcodes, Packet!Size
<1> HIDE DEF op, st
<1>2. n \in Nat /\ n <= 10000002
  BY <1>1, SMT DEF Packet!MaxStorage
<1>3. op \in Int /\ 4 \in Nat /\ 2 \in Nat /\ 4 \in Nat \ {0} /\ 2 \in Nat \ {0} /\ FALSE \in BOOLEAN
  BY <1>1
<1> HIDE DEF n
<1>4. low \in Seq(Int) /\ Len(low) = 4 /\ cmd \in Seq(Int) /\ Len(cmd) = 2
  <2>1. n \in Int
    BY <1>2, SMT
  <2>2. low \in Seq(Int) /\ Len(low) = 4
    BY <1>3, <2>1, BytesOfNumber
  <2>3. cmd \in Seq(Int) /\ Len(cmd) = 2
    BY <1>3, BytesOfNumber
  <2> QED
    BY <2>2, <2>3
<1>5. Packet!Number(low, FALSE) = n
  <2>1. n \in Int /\ 0 \in Nat /\ 1 \in Nat /\ 2 \in Nat /\ 0 + 1 = 1 /\ 1 + 1 = 2 /\ 2 + 1 = 3 /\ 4 - 1 = 3
    BY <1>2, SMT
  <2>2. Packet!Shifted(n, 0) = n
    BY <2>1, ShiftGoesOn
  <2>3. Packet!Shifted(n, 0 + 1) = Packet!Shifted(n, 0) \div 256
    BY <2>1, ShiftGoesOn
  <2>4. Packet!Shifted(n, 1 + 1) = Packet!Shifted(n, 1) \div 256
    BY <2>1, ShiftGoesOn
  <2>5. Packet!Shifted(n, 2 + 1) = Packet!Shifted(n, 2) \div 256
    BY <2>1, ShiftGoesOn
  <2>6. Packet!Shifted(n, 3) = ((n \div 256) \div 256) \div 256
    BY <2>1, <2>2, <2>3, <2>4, <2>5
  <2>7. ((n \div 256) \div 256) \div 256 \in 0 .. 255
    BY <1>2, SMT
  <2>8. Small(Packet!Shifted(n, 4 - 1), FALSE)
    BY <2>1, <2>6, <2>7 DEF Small
  <2> QED
    BY <1>3, <2>1, <2>8, NumberReturns
<1>6. Packet!Number(cmd, FALSE) = op
  <2>1. 0 \in Nat /\ 0 + 1 = 1 /\ 2 - 1 = 1
    OBVIOUS
  <2>2. Packet!Shifted(op, 0) = op
    BY <1>3, <2>1, ShiftGoesOn
  <2>3. Packet!Shifted(op, 0 + 1) = Packet!Shifted(op, 0) \div 256
    BY <1>3, <2>1, ShiftGoesOn
  <2>4. op \div 256 \in 0 .. 255
    BY <1>1
  <2>5. Small(Packet!Shifted(op, 2 - 1), FALSE)
    BY <2>1, <2>2, <2>3, <2>4 DEF Small
  <2> QED
    BY <1>3, <2>5, NumberReturns
<1>7. wire_ = (big \o cmd) \o st
  BY DEF Packet!OnWire, Packet!Header, Packet!BigEndian, n, op, st
<1> HIDE DEF low, cmd
<1>8. big \in Seq(Int) /\ Len(big) = 4 /\ Packet!Reversed(big) = low
  BY <1>4, ReversedTwice
<1> HIDE DEF big, wire_
<1>9. /\ SubSeq(wire_, 1, Len(big)) = big /\ SubSeq(wire_, Len(big) + 1, Len(big) + Len(cmd)) = cmd
      /\ SubSeq(wire_, Len(big) + Len(cmd) + 1, Len(big) + Len(cmd) + Len(st)) = st
  <2>1. big \in Seq(Int) /\ cmd \in Seq(Int) /\ st \in Seq(Int)
    BY <1>1, <1>4, <1>8
  <2>2. Spliced(wire_, big, cmd, st)
    BY <1>7, <2>1, ThreeSlices
  <2> QED
    BY <2>2, Zenon DEF Spliced
<1>10. 4 + 1 = 5 /\ 4 + 2 = 6 /\ 6 + 1 = 7
  OBVIOUS
<1>11. SubSeq(wire_, 1, 4) = big /\ SubSeq(wire_, 5, 6) = cmd
  BY <1>4, <1>8, <1>9, <1>10
<1>12. SubSeq(wire_, 7, 6 + Len(st)) = st
  BY <1>4, <1>8, <1>9, <1>10
<1>13. Packet!SizeIn(wire_) = n /\ Packet!CmdIn(wire_) = op
  BY <1>5, <1>6, <1>8, <1>11 DEF Packet!SizeIn, Packet!CmdIn
<1>14. 6 + n - 2 = 6 + Len(st)
  BY <1>1 DEF n
<1>15. Packet!Received(wire_) = Packet!Buffer(st, 0, 0, op)
  BY <1>12, <1>13, <1>14, Zenon DEF Packet!Received
<1> QED
  BY <1>15 DEF wire_, op, st

-----------------------------------------------------------------------------
(***************************************************************************)
(* Packets: what holds of a packet and of what its users know              *)
(***************************************************************************)
Histories == [items : Seq(Entries), next : Nat, opcode : Packet!Opcodes, intact : BOOLEAN]

Right(b, h) ==
    /\ b \in Buffers /\ h \in Histories /\ b.opcode = h.opcode
    /\ b.rpos <= Packet!Size(b) /\ b.wpos <= Packet!Size(b)
    /\ Len(h.items) <= MaxItems /\ Packet!Size(b) <= Pos(h.items, Len(h.items))
    /\ h.intact => /\ Laid(b.storage, h.items) /\ b.wpos \in {0, Packet!Size(b)}
                   /\ h.next # 0 => h.next \in 1 .. Len(h.items) + 1 /\ b.rpos = Pos(h.items, h.next - 1)

\* The parts of it.
LEMMA RightParts ==
    ASSUME NEW b, NEW h, Right(b, h)
    PROVE  /\ b \in Buffers /\ b.storage \in Seq(Int) /\ b.rpos \in Nat /\ b.wpos \in Nat
           /\ b.opcode \in Packet!Opcodes /\ h.opcode = b.opcode
           /\ Packet!Size(b) = Len(b.storage) /\ Len(b.storage) \in Nat
           /\ b.rpos <= Len(b.storage) /\ b.wpos <= Len(b.storage)
           /\ h.items \in Seq(Entries) /\ h.next \in Nat /\ h.intact \in BOOLEAN
           /\ Len(h.items) \in Nat /\ Len(h.items) <= MaxItems
           /\ Len(b.storage) <= Pos(h.items, Len(h.items))
           /\ h.intact => Laid(b.storage, h.items) /\ b.wpos \in {0, Len(b.storage)}
           /\ h.intact /\ h.next # 0 => h.next \in 1 .. Len(h.items) + 1 /\ b.rpos = Pos(h.items, h.next - 1)
<1>1. b \in Buffers /\ h \in Histories /\ b.opcode = h.opcode
  BY DEF Right
<1>2. b.storage \in Seq(Int) /\ b.rpos \in Nat /\ b.wpos \in Nat /\ b.opcode \in Packet!Opcodes
  BY <1>1 DEF Buffers
<1>3. h.items \in Seq(Entries) /\ h.next \in Nat /\ h.intact \in BOOLEAN
  BY <1>1 DEF Histories
<1>4. Packet!Size(b) = Len(b.storage) /\ Len(b.storage) \in Nat
  BY <1>2 DEF Packet!Size
<1>5. Len(h.items) \in Nat
  BY <1>3
<1> QED
  BY <1>1, <1>2, <1>3, <1>4, <1>5 DEF Right

LEMMA RightMade ==
    ASSUME NEW storage \in Seq(Int), NEW rpos \in Nat, NEW wpos \in Nat, NEW opcode \in Packet!Opcodes,
           NEW items \in Seq(Entries), NEW next \in Nat, NEW intact \in BOOLEAN,
           rpos <= Len(storage), wpos <= Len(storage), Len(items) <= MaxItems,
           Len(storage) <= Pos(items, Len(items)),
           intact => Laid(storage, items) /\ wpos \in {0, Len(storage)},
           intact /\ next # 0 => next \in 1 .. Len(items) + 1 /\ rpos = Pos(items, next - 1)
    PROVE  Right(Packet!Buffer(storage, rpos, wpos, opcode), Packet!History(items, next, opcode, intact))
<1> DEFINE b == Packet!Buffer(storage, rpos, wpos, opcode)
           h == Packet!History(items, next, opcode, intact)
<1>1. b.storage = storage /\ b.rpos = rpos /\ b.wpos = wpos /\ b.opcode = opcode
  BY DEF Packet!Buffer
<1>2. h.items = items /\ h.next = next /\ h.opcode = opcode /\ h.intact = intact
  BY DEF Packet!History
<1>3. b \in Buffers
  BY DEF Packet!Buffer, Buffers
<1>4. h \in Histories
  BY DEF Packet!History, Histories
<1> HIDE DEF b, h
<1>5. Packet!Size(b) = Len(storage)
  BY <1>1 DEF Packet!Size
<1>6. Right(b, h)
  BY <1>1, <1>2, <1>3, <1>4, <1>5 DEF Right
<1> QED
  BY <1>6 DEF b, h

LEMMA SpreadBuffer ==
    ASSUME NEW b \in Buffers
    PROVE  b = Packet!Buffer(b.storage, b.rpos, b.wpos, b.opcode)
BY DEF Buffers, Packet!Buffer

\* append() over what is there and behind it.
LEMMA OverAndBehind ==
    ASSUME NEW s \in Seq(Int), NEW bytes \in Seq(Int), NEW w \in 0 .. Len(s)
    PROVE  /\ SubSeq(s, 1, w) \o bytes \o SubSeq(s, w + Len(bytes) + 1, Len(s)) \in Seq(Int)
           /\ Len(SubSeq(s, 1, w) \o bytes \o SubSeq(s, w + Len(bytes) + 1, Len(s))) =
                IF w + Len(bytes) <= Len(s) THEN Len(s) ELSE w + Len(bytes)
           /\ w = Len(s) => SubSeq(s, 1, w) \o bytes \o SubSeq(s, w + Len(bytes) + 1, Len(s)) = s \o bytes
<1> DEFINE x == SubSeq(s, 1, w)
           m == w + Len(bytes)
           n == Len(s)
           y == SubSeq(s, m + 1, n)
           u == x \o bytes
           z == u \o y
<1>1. n \in Nat /\ m \in Nat /\ Len(bytes) \in Nat /\ w \in Nat /\ m = w + Len(bytes)
  OBVIOUS
<1>2. x \in Seq(Int) /\ Len(x) = w
  BY Cut
<1> HIDE DEF x, m, n
<1>3. u \in Seq(Int) /\ Len(u) = m
  <2>1. x \in Seq(Int)
    BY <1>2
  <2>2. u \in Seq(Int) /\ Len(u) = Len(x) + Len(bytes)
    BY <2>1, Joined
  <2> QED
    BY <1>1, <1>2, <2>2
<1>4. y \in Seq(Int) /\ Len(y) = IF m <= n THEN n - m ELSE 0
  <2>1. CASE m <= n
    <3>1. m \in 0 .. Len(s)
      BY <1>1, <2>1 DEF n
    <3>2. SubSeq(s, m + 1, Len(s)) \in Seq(Int) /\ Len(SubSeq(s, m + 1, Len(s))) = Len(s) - m
      BY <3>1, Cut
    <3> QED
      BY <2>1, <3>2 DEF n
  <2>2. CASE ~(m <= n)
    <3>1. m + 1 > n /\ m + 1 \in Int /\ n \in Int
      BY <1>1, <2>2
    <3>2. y = << >>
      BY <3>1
    <3> HIDE DEF y
    <3>3. y \in Seq(Int) /\ Len(y) = 0
      BY <3>2
    <3> QED
      BY <2>2, <3>3
  <2> QED
    BY <2>1, <2>2
<1> HIDE DEF u, y
<1>5. z \in Seq(Int) /\ Len(z) = Len(u) + Len(y)
  <2>1. u \in Seq(Int) /\ y \in Seq(Int)
    BY <1>3, <1>4
  <2> QED
    BY <2>1, Joined
<1> HIDE DEF z
<1>6. Len(z) = IF m <= n THEN n ELSE m
  <2>1. Len(z) = m + (IF m <= n THEN n - m ELSE 0)
    BY <1>3, <1>4, <1>5
  <2>2. m \in Nat /\ n \in Nat
    BY <1>1
  <2> DEFINE k == Len(z)
  <2>3. k = m + (IF m <= n THEN n - m ELSE 0)
    BY <2>1
  <2> HIDE DEF k
  <2>4. k = IF m <= n THEN n ELSE m
    BY <2>2, <2>3
  <2> QED
    BY <2>4 DEF k
<1>7. ASSUME w = n PROVE z = s \o bytes
  <2>1. Len(y) = 0
    BY <1>1, <1>4, <1>7
  <2>2. y = << >>
    BY <1>4, <2>1
  <2>3. z = u
    BY <1>3, <2>2 DEF z
  <2>4. x = s
    <3>1. 0 \in Nat /\ 0 + Len(s) <= Len(s) /\ 0 + 1 = 1 /\ 0 + Len(s) = w
      BY <1>1, <1>7 DEF n
    <3>2. \A j \in 1 .. Len(s) : s[0 + j] = s[j]
      OBVIOUS
    <3>3. SubSeq(s, 0 + 1, 0 + Len(s)) = s
      BY <3>1, <3>2, Slice
    <3> QED
      BY <3>1, <3>3 DEF x
  <2> QED
    BY <2>3, <2>4 DEF u
<1>8. SubSeq(s, 1, w) \o bytes \o SubSeq(s, w + Len(bytes) + 1, Len(s)) = z
  BY DEF z, u, x, y, m, n
<1> QED
  BY <1>5, <1>6, <1>7, <1>8 DEF m, n

LEMMA AppendKeeps ==
    ASSUME NEW b, NEW h, Right(b, h), NEW a \in Seq(Entries), NEW bytes \in Seq(Int),
           Len(bytes) <= Pos(a, Len(a)), Len(h.items) + Len(a) <= MaxItems, NEW intact \in BOOLEAN,
           intact => h.intact /\ Laid(bytes, a) /\ b.wpos = Packet!Size(b)
    PROVE  Right(Packet!AppendBytes(b, bytes), Packet!History(h.items \o a, h.next, h.opcode, intact))
<1> DEFINE s == b.storage
           w == b.wpos
           n == Len(s)
           m == w + Len(bytes)
           z == SubSeq(s, 1, w) \o bytes \o SubSeq(s, w + Len(bytes) + 1, Len(s))
           items == h.items
           c == items \o a
           next == h.next
<1>1. /\ s \in Seq(Int) /\ b.rpos \in Nat /\ w \in Nat /\ b.opcode \in Packet!Opcodes /\ h.opcode = b.opcode
      /\ Packet!Size(b) = n /\ n \in Nat /\ b.rpos <= n /\ w <= n
      /\ items \in Seq(Entries) /\ next \in Nat /\ Len(items) \in Nat /\ n <= Pos(items, Len(items))
  BY RightParts
<1>2. h.intact => Laid(s, items)
  BY RightParts
<1>3. h.intact /\ next # 0 => next \in 1 .. Len(items) + 1 /\ b.rpos = Pos(items, next - 1)
  BY RightParts
<1>4. Packet!AppendBytes(b, bytes) = Packet!Buffer(z, b.rpos, m, b.opcode)
  BY <1>1 DEF Packet!AppendBytes
<1> HIDE DEF s, w, items, next
<1>5. z \in Seq(Int) /\ Len(z) = (IF m <= n THEN n ELSE m) /\ (w = n => z = s \o bytes)
  <2>1. w \in 0 .. Len(s)
    BY <1>1
  <2> QED
    BY <1>1, <2>1, OverAndBehind
<1> HIDE DEF z
<1>6. Len(bytes) \in Nat /\ m \in Nat
  BY <1>1
<1>7. /\ c \in Seq(Entries) /\ Len(c) = Len(items) + Len(a) /\ Len(a) \in Nat
      /\ \A i \in 0 .. Len(items) : Pos(c, i) = Pos(items, i)
      /\ Pos(c, Len(items) + Len(a)) = Pos(items, Len(items)) + Pos(a, Len(a))
  <2>1. Len(a) \in Nat /\ Len(a) \in 0 .. Len(a)
    OBVIOUS
  <2>2. c \in Seq(Entries) /\ Len(c) = Len(items) + Len(a)
    BY <1>1, Joined
  <2>3. \A i \in 0 .. Len(items) : Pos(c, i) = Pos(items, i)
    BY <1>1, JoinedStarts
  <2>4. \A i \in 0 .. Len(a) : Pos(c, Len(items) + i) = Pos(items, Len(items)) + Pos(a, i)
    BY <1>1, JoinedStarts
  <2> QED
    BY <2>1, <2>2, <2>3, <2>4
<1>8. Pos(items, Len(items)) \in Nat /\ Pos(a, Len(a)) \in Nat
  <2>1. Len(items) \in 0 .. Len(items) /\ Len(a) \in 0 .. Len(a)
    BY <1>1
  <2> QED
    BY <1>1, <2>1, StartsAdd
<1> HIDE DEF c, m, n
<1>9. Len(z) <= Pos(c, Len(c)) /\ b.rpos <= Len(z) /\ m <= Len(z) /\ Len(c) <= MaxItems
  <2>1. m = w + Len(bytes)
    BY DEF m
  <2>2. Pos(c, Len(c)) = Pos(items, Len(items)) + Pos(a, Len(a))
    BY <1>7
  <2>3. Len(c) <= MaxItems
    BY <1>7 DEF items
  <2> DEFINE k == Len(z)
             l == Len(bytes)
             p == Pos(items, Len(items))
             q == Pos(a, Len(a))
             r == b.rpos
  <2>4. /\ k = (IF m <= n THEN n ELSE m) /\ m = w + l /\ w <= n /\ n <= p /\ l <= q /\ r <= n
        /\ Pos(c, Len(c)) = p + q
        /\ r \in Nat /\ w \in Nat /\ n \in Nat /\ l \in Nat /\ p \in Nat /\ q \in Nat /\ m \in Nat
    BY <1>1, <1>5, <1>6, <1>8, <2>1, <2>2
  <2> HIDE DEF k, l, p, q, r
  <2>5. k <= p + q /\ r <= k /\ m <= k
    BY <2>4
  <2> QED
    BY <2>3, <2>4, <2>5 DEF k, r
<1>10. intact => Laid(z, c) /\ m \in {0, Len(z)}
  <2> SUFFICES ASSUME intact PROVE Laid(z, c) /\ m \in {0, Len(z)}
    OBVIOUS
  <2>1. w = n /\ Laid(s, items) /\ Laid(bytes, a)
    BY <1>1, <1>2 DEF w
  <2>2. z = s \o bytes
    BY <1>5, <2>1
  <2>3. Laid(s \o bytes, items \o a)
    BY <1>1, <2>1, LaidJoined
  <2>4. m = Len(z)
    <3>1. m >= n /\ m \in Nat /\ n \in Nat
      <4>1. m = w + Len(bytes)
        BY DEF m
      <4> QED
        BY <1>1, <1>6, <2>1, <4>1
    <3>2. Len(z) = IF m <= n THEN n ELSE m
      BY <1>5
    <3>3. m <= n => m = n
      BY <3>1
    <3> QED
      BY <3>2, <3>3
  <2> QED
    BY <2>2, <2>3, <2>4 DEF c
<1>11. intact /\ next # 0 => next \in 1 .. Len(c) + 1 /\ b.rpos = Pos(c, next - 1)
  <2> SUFFICES ASSUME intact, next # 0 PROVE next \in 1 .. Len(c) + 1 /\ b.rpos = Pos(c, next - 1)
    OBVIOUS
  <2>1. next \in 1 .. Len(items) + 1 /\ b.rpos = Pos(items, next - 1)
    BY <1>3
  <2>2. next - 1 \in 0 .. Len(items) /\ next \in 1 .. Len(c) + 1
    BY <1>1, <1>7, <2>1
  <2> QED
    BY <1>7, <2>1, <2>2
<1>12. Right(Packet!Buffer(z, b.rpos, m, b.opcode), Packet!History(c, next, b.opcode, intact))
  BY <1>1, <1>5, <1>6, <1>7, <1>9, <1>10, <1>11, RightMade
<1> QED
  BY <1>1, <1>4, <1>12 DEF c, items, next

LEMMA MovesRight ==
    ASSUME NEW b, NEW h, Right(b, h), NEW pos \in 0 .. Len(b.storage), NEW next \in Nat,
           h.intact /\ next # 0 => next \in 1 .. Len(h.items) + 1 /\ pos = Pos(h.items, next - 1)
    PROVE  Right(Packet!Buffer(b.storage, pos, b.wpos, b.opcode),
                 Packet!History(h.items, next, h.opcode, h.intact))
<1>1. /\ b.storage \in Seq(Int) /\ b.wpos \in Nat /\ b.opcode \in Packet!Opcodes /\ h.opcode = b.opcode
      /\ Len(b.storage) \in Nat /\ b.wpos <= Len(b.storage)
      /\ h.items \in Seq(Entries) /\ h.intact \in BOOLEAN /\ Len(h.items) <= MaxItems
      /\ Len(b.storage) <= Pos(h.items, Len(h.items))
  BY RightParts
<1>2. h.intact => Laid(b.storage, h.items) /\ b.wpos \in {0, Len(b.storage)}
  BY RightParts
<1>3. pos \in Nat /\ pos <= Len(b.storage)
  BY <1>1
<1> QED
  BY <1>1, <1>2, <1>3, RightMade

\* The item at the position is what a read of its type returns.
LEMMA ItemReturns ==
    ASSUME NEW b, NEW h, Right(b, h), h.intact, h.next \in DOMAIN h.items
    PROVE  /\ h.items[h.next][1] \in Packet!Types
           /\ Packet!Decode(b, h.items[h.next][1]) =
                [rpos |-> Pos(h.items, h.next), value |-> Packet!Kept(h.items[h.next][1], h.items[h.next][2])]
           /\ b.rpos + Len(Packet!Encode(h.items[h.next][1], h.items[h.next][2])) = Pos(h.items, h.next)
           /\ Pos(h.items, h.next) \in 0 .. Len(b.storage)
           /\ h.next + 1 \in 1 .. Len(h.items) + 1 /\ (h.next + 1) - 1 = h.next
<1> DEFINE items == h.items
           k == h.next
           x == items[k]
<1>1. b \in Buffers /\ items \in Seq(Entries) /\ k \in Nat /\ k \in DOMAIN items /\ Len(items) \in Nat
  BY RightParts
<1>2. h.intact /\ k # 0 => b.rpos = Pos(items, k - 1)
  BY RightParts
<1>3. Laid(b.storage, items)
  BY RightParts
<1> HIDE DEF items, k
<1>4. k \in 1 .. Len(items) /\ k # 0
  BY <1>1
<1>5. b.rpos = Pos(items, k - 1)
  BY <1>2, <1>4
<1>6. x \in Entries
  BY <1>1, <1>4
<1>7. Has(b, BytesOf(x)) /\ b.rpos + SizeOf(x) = Pos(items, k)
  BY <1>1, <1>3, <1>4, <1>5, LaidHas
<1> HIDE DEF x
<1>8. x[1] \in Packet!Types /\ Packet!IsValue(x[1], x[2])
  BY <1>6, EntryHasBytes
<1>9. Packet!Decode(b, x[1]) = [rpos |-> b.rpos + SizeOf(x), value |-> Packet!Kept(x[1], x[2])]
  BY <1>1, <1>7, <1>8, DecodeReturns DEF BytesOf, SizeOf
<1>10. Pos(items, k) \in 0 .. Len(b.storage)
  <2>1. k \in 0 .. Len(items) /\ Len(items) \in k .. Len(items)
    BY <1>1, <1>4
  <2>2. Pos(items, k) \in Nat /\ Pos(items, k) <= Pos(items, Len(items))
    BY <1>1, <2>1, StartsAdd, StartsGrow
  <2>3. Len(b.storage) = Pos(items, Len(items)) /\ Len(b.storage) \in Nat
    BY <1>3, RightParts DEF Laid
  <2> QED
    BY <2>2, <2>3
<1>11. k + 1 \in 1 .. Len(items) + 1 /\ (k + 1) - 1 = k
  BY <1>1, <1>4
<1> QED
  BY <1>7, <1>8, <1>9, <1>10, <1>11 DEF x, items, k, BytesOf, SizeOf

LEMMA ReadKeeps ==
    ASSUME NEW b, NEW h, Right(b, h), NEW t \in Packet!Types, NEW expected \in BOOLEAN,
           expected = (h.intact /\ h.next \in DOMAIN h.items /\ h.items[h.next][1] = t)
    PROVE  /\ Right(Packet!Buffer(b.storage, Packet!Decode(b, t).rpos, b.wpos, b.opcode),
                    Packet!History(h.items,
                                   IF expected THEN h.next + 1
                                   ELSE IF Packet!Decode(b, t).rpos = b.rpos THEN h.next ELSE 0,
                                   h.opcode, h.intact))
           /\ expected => Packet!Decode(b, t).value = Packet!Kept(t, h.items[h.next][2])
<1> DEFINE r == Packet!Decode(b, t)
           next == IF expected THEN h.next + 1 ELSE IF r.rpos = b.rpos THEN h.next ELSE 0
<1>1. b \in Buffers /\ h.next \in Nat /\ b.rpos <= Len(b.storage) /\ b.rpos \in Nat /\ Packet!Size(b) = Len(b.storage)
      /\ Len(b.storage) \in Nat
  BY RightParts
<1>2. r.rpos \in b.rpos .. Len(b.storage)
  BY <1>1, DecodeStays
<1>3. r.rpos \in 0 .. Len(b.storage)
  BY <1>1, <1>2
<1>4. next \in Nat
  BY <1>1
<1>5. CASE expected
  <2>1. h.intact /\ h.next \in DOMAIN h.items /\ h.items[h.next][1] = t
    BY <1>5
  <2>2. /\ r = [rpos |-> Pos(h.items, h.next), value |-> Packet!Kept(t, h.items[h.next][2])]
        /\ h.next + 1 \in 1 .. Len(h.items) + 1 /\ (h.next + 1) - 1 = h.next
    BY <2>1, ItemReturns
  <2>3. r.rpos = Pos(h.items, h.next) /\ r.value = Packet!Kept(t, h.items[h.next][2]) /\ next = h.next + 1
    BY <1>5, <2>2
  <2> HIDE DEF r, next
  <2>4. h.intact /\ next # 0 => next \in 1 .. Len(h.items) + 1 /\ r.rpos = Pos(h.items, next - 1)
    BY <2>2, <2>3
  <2>5. Right(Packet!Buffer(b.storage, r.rpos, b.wpos, b.opcode), Packet!History(h.items, next, h.opcode, h.intact))
    BY <1>3, <1>4, <2>4, MovesRight
  <2> QED
    BY <2>3, <2>5 DEF r, next
<1>6. CASE ~expected
  <2>1. next = IF r.rpos = b.rpos THEN h.next ELSE 0
    BY <1>6
  <2>2. h.intact /\ h.next # 0 => h.next \in 1 .. Len(h.items) + 1 /\ b.rpos = Pos(h.items, h.next - 1)
    BY RightParts
  <2> HIDE DEF r, next
  <2>3. h.intact /\ next # 0 => next \in 1 .. Len(h.items) + 1 /\ r.rpos = Pos(h.items, next - 1)
    BY <2>1, <2>2
  <2>4. Right(Packet!Buffer(b.storage, r.rpos, b.wpos, b.opcode), Packet!History(h.items, next, h.opcode, h.intact))
    BY <1>3, <1>4, <2>3, MovesRight
  <2> QED
    BY <1>6, <2>4 DEF r, next
<1> QED
  BY <1>5, <1>6

LEMMA NewIsRight ==
    ASSUME NEW opcode \in Packet!Opcodes
    PROVE  Right(Packet!NewPacket(opcode), Packet!NewHistory(opcode))
<1> DEFINE none == << >>
<1>1. none \in Seq(Int) /\ none \in Seq(Entries) /\ Len(none) = 0
  OBVIOUS
<1> HIDE DEF none
<1>2. Pos(none, 0) = 0
  BY <1>1, StartsAdd
<1>3. Laid(none, none)
  BY <1>1, <1>2 DEF Laid
<1>4. 0 \in Nat /\ 1 \in Nat /\ TRUE \in BOOLEAN /\ 0 <= Len(none) /\ Len(none) <= MaxItems
      /\ Len(none) <= Pos(none, Len(none)) /\ 0 \in {0, Len(none)} /\ 1 \in 1 .. Len(none) + 1 /\ 1 - 1 = 0
  BY <1>1, <1>2, ItemAssumption
<1>5. Right(Packet!Buffer(none, 0, 0, opcode), Packet!History(none, 1, opcode, TRUE))
  BY <1>1, <1>2, <1>3, <1>4, RightMade
<1> QED
  BY <1>5 DEF Packet!NewPacket, Packet!NewHistory, none

LEMMA RewindKeeps ==
    ASSUME NEW b, NEW h, Right(b, h)
    PROVE  Right(Packet!Buffer(b.storage, 0, b.wpos, b.opcode), Packet!History(h.items, 1, h.opcode, h.intact))
<1>1. Len(b.storage) \in Nat /\ h.items \in Seq(Entries) /\ Len(h.items) \in Nat
  BY RightParts
<1>2. Pos(h.items, 0) = 0
  BY <1>1, StartsAdd
<1>3. 0 \in 0 .. Len(b.storage) /\ 1 \in Nat /\ 1 \in 1 .. Len(h.items) + 1 /\ 1 - 1 = 0
  BY <1>1
<1> QED
  BY <1>2, <1>3, MovesRight

LEMMA RfinishKeeps ==
    ASSUME NEW b, NEW h, Right(b, h)
    PROVE  Right(Packet!Buffer(b.storage, b.wpos, b.wpos, b.opcode),
                 Packet!History(h.items, IF b.wpos = Packet!Size(b) THEN Len(h.items) + 1 ELSE 1, h.opcode, h.intact))
<1> DEFINE next == IF b.wpos = Packet!Size(b) THEN Len(h.items) + 1 ELSE 1
<1>1. /\ Len(b.storage) \in Nat /\ h.items \in Seq(Entries) /\ Len(h.items) \in Nat
      /\ Packet!Size(b) = Len(b.storage) /\ b.wpos \in Nat /\ b.wpos <= Len(b.storage)
  BY RightParts
<1>2. h.intact => Laid(b.storage, h.items) /\ b.wpos \in {0, Len(b.storage)}
  BY RightParts
<1>3. Pos(h.items, 0) = 0
  BY <1>1, StartsAdd
<1>4. next \in Nat /\ next \in 1 .. Len(h.items) + 1 /\ b.wpos \in 0 .. Len(b.storage)
  BY <1>1
<1>5. ASSUME h.intact PROVE b.wpos = Pos(h.items, next - 1)
  <2>1. Len(b.storage) = Pos(h.items, Len(h.items)) /\ b.wpos \in {0, Len(b.storage)}
    BY <1>2, <1>5 DEF Laid
  <2>2. CASE b.wpos = Packet!Size(b)
    <3>1. next - 1 = Len(h.items)
      BY <1>1, <2>2
    <3> HIDE DEF next
    <3> QED
      BY <1>1, <2>1, <2>2, <3>1
  <2>3. CASE b.wpos # Packet!Size(b)
    <3>1. next - 1 = 0 /\ b.wpos = 0
      BY <1>1, <2>1, <2>3
    <3> HIDE DEF next
    <3> QED
      BY <1>3, <3>1
  <2> QED
    BY <2>2, <2>3
<1> HIDE DEF next
<1>6. Right(Packet!Buffer(b.storage, b.wpos, b.wpos, b.opcode), Packet!History(h.items, next, h.opcode, h.intact))
  BY <1>4, <1>5, MovesRight
<1> QED
  BY <1>6 DEF next

LEMMA SendKeeps ==
    ASSUME NEW b, NEW h, Right(b, h)
    PROVE  Right(Packet!Received(Packet!OnWire(b)), Packet!History(h.items, 1, h.opcode, h.intact))
<1>1. /\ b \in Buffers /\ b.storage \in Seq(Int) /\ b.opcode \in Packet!Opcodes /\ h.opcode = b.opcode
      /\ Packet!Size(b) = Len(b.storage) /\ Len(b.storage) \in Nat /\ h.items \in Seq(Entries)
      /\ Len(h.items) \in Nat /\ Len(h.items) <= MaxItems /\ Len(b.storage) <= Pos(h.items, Len(h.items))
      /\ h.intact \in BOOLEAN
  BY RightParts
<1>2. h.intact => Laid(b.storage, h.items)
  BY RightParts
<1>3. Packet!Size(b) <= Packet!MaxStorage
  <2>1. Pos(h.items, Len(h.items)) <= Packet!MaxStorage
    BY <1>1, StartsBounded
  <2>2. Pos(h.items, Len(h.items)) \in Nat /\ Packet!MaxStorage \in Nat
    <3>1. Len(h.items) \in 0 .. Len(h.items)
      BY <1>1
    <3>2. Packet!MaxStorage \in Nat
      BY SMT DEF Packet!MaxStorage
    <3> QED
      BY <1>1, <3>1, <3>2, StartsAdd
  <2> QED
    BY <1>1, <2>1, <2>2
<1>4. Packet!Received(Packet!OnWire(b)) = Packet!Buffer(b.storage, 0, 0, b.opcode)
  BY <1>1, <1>3, WireReturns
<1>5. Pos(h.items, 0) = 0
  BY <1>1, StartsAdd
<1>6. /\ 0 \in Nat /\ 1 \in Nat /\ 0 <= Len(b.storage) /\ 0 \in {0, Len(b.storage)}
      /\ 1 \in 1 .. Len(h.items) + 1 /\ 1 - 1 = 0
  BY <1>1
<1>7. Right(Packet!Buffer(b.storage, 0, 0, b.opcode), Packet!History(h.items, 1, b.opcode, h.intact))
  BY <1>1, <1>2, <1>5, <1>6, RightMade
<1> QED
  BY <1>1, <1>4, <1>7

LEMMA PutKeeps ==
    ASSUME NEW b, NEW h, Right(b, h), h.intact, NEW i \in DOMAIN h.items,
           NEW t \in DOMAIN Values \cap Packet!Integral, h.items[i][1] = t, NEW v \in Values[t]
    PROVE  Right(Packet!PutBytes(b, Packet!StartOf(h.items, i), Packet!Encode(t, v)),
                 Packet!History([h.items EXCEPT ![i] = <<t, v>>], h.next, h.opcode, TRUE))
<1> DEFINE items == h.items
           n == Len(items)
           x == <<t, v>>
           y == items[i]
           c == [items EXCEPT ![i] = x]
           s == Packet!PutBytes(b, Pos(items, i - 1), BytesOf(x)).storage
<1>1. /\ b \in Buffers /\ b.rpos \in Nat /\ b.wpos \in Nat /\ b.opcode \in Packet!Opcodes /\ h.opcode = b.opcode
      /\ Packet!Size(b) = Len(b.storage) /\ b.rpos <= Len(b.storage) /\ b.wpos <= Len(b.storage)
      /\ items \in Seq(Entries) /\ h.next \in Nat /\ Len(items) <= MaxItems /\ Len(items) \in Nat
      /\ Len(b.storage) <= Pos(items, Len(items))
  BY RightParts
<1>2. Laid(b.storage, items) /\ b.wpos \in {0, Len(b.storage)}
  BY RightParts
<1>3. h.intact /\ h.next # 0 => h.next \in 1 .. n + 1 /\ b.rpos = Pos(items, h.next - 1)
  BY RightParts
<1>4. i \in 1 .. n /\ y \in Entries /\ y[1] = t
  BY <1>1
<1>5. x \in Entries /\ BytesOf(x) = Packet!Encode(t, v) /\ x[1] = t
  BY EntryOf
<1> HIDE DEF items, n, x, y
<1>6. SizeOf(x) = SizeOf(y)
  <2> DEFINE w == Packet!Width[t]
  <2>1. t \in IntegralNames /\ w \in Nat
    <3>1. t \in IntegralNames
      BY Integrals
    <3> QED
      BY <3>1, IntegralItem
  <2>2. ASSUME NEW z \in Entries, z[1] = t PROVE SizeOf(z) = w
    <3>1. Packet!IsValue(t, z[2]) /\ BytesOf(z) = Packet!Encode(t, z[2])
      BY <2>2, EntryHasBytes DEF BytesOf
    <3>2. z[2] \in Int /\ Packet!Encode(t, z[2]) = Packet!LittleEndian(z[2], w)
      BY <2>1, <3>1, IntegralItem
    <3> HIDE DEF w
    <3>3. Len(Packet!LittleEndian(z[2], w)) = w
      BY <2>1, <3>2, BytesOfNumber
    <3> QED
      BY <3>1, <3>2, <3>3 DEF SizeOf
  <2> QED
    BY <1>4, <1>5, <2>2
<1>7. /\ c \in Seq(Entries) /\ Len(c) = n /\ s \in Seq(Int) /\ Len(s) = Packet!Size(b) /\ Laid(s, c)
      /\ \A k \in 0 .. n : Pos(c, k) = Pos(items, k)
  BY <1>1, <1>2, <1>4, <1>5, <1>6, LaidPut DEF n, y
<1>8. Packet!PutBytes(b, Pos(items, i - 1), BytesOf(x)) = Packet!Buffer(s, b.rpos, b.wpos, b.opcode)
  BY DEF Packet!PutBytes, Packet!Buffer
<1>9. Packet!StartOf(items, i) = Pos(items, i - 1)
  <2>1. (i - 1) + 1 = i
    BY <1>4
  <2> QED
    BY <2>1 DEF Pos
<1>10. /\ b.rpos <= Len(s) /\ b.wpos <= Len(s) /\ Len(c) <= MaxItems /\ Len(s) <= Pos(c, Len(c))
       /\ b.wpos \in {0, Len(s)}
  <2>1. Len(s) = Len(b.storage) /\ Len(c) = Len(items) /\ Pos(c, n) = Pos(items, n) /\ n = Len(items)
    <3>1. n \in 0 .. n /\ n = Len(items)
      BY <1>1 DEF n
    <3> QED
      BY <1>1, <1>7, <3>1
  <2> HIDE DEF s, c
  <2> QED
    BY <1>1, <1>2, <2>1
<1>11. TRUE /\ h.next # 0 => h.next \in 1 .. Len(c) + 1 /\ b.rpos = Pos(c, h.next - 1)
  <2> SUFFICES ASSUME h.next # 0 PROVE h.next \in 1 .. Len(c) + 1 /\ b.rpos = Pos(c, h.next - 1)
    OBVIOUS
  <2>1. h.next \in 1 .. n + 1 /\ b.rpos = Pos(items, h.next - 1)
    BY <1>3
  <2>2. h.next - 1 \in 0 .. n
    BY <1>1, <2>1 DEF n
  <2> HIDE DEF s, c
  <2> QED
    BY <1>7, <2>1, <2>2
<1> HIDE DEF s, c
<1>12. Right(Packet!Buffer(s, b.rpos, b.wpos, b.opcode), Packet!History(c, h.next, b.opcode, TRUE))
  <2>1. TRUE \in BOOLEAN
    OBVIOUS
  <2> QED
    BY <1>1, <1>7, <1>10, <1>11, <2>1, RightMade
<1> QED
  BY <1>1, <1>5, <1>8, <1>9, <1>12 DEF s, c, x, items

-----------------------------------------------------------------------------
(***************************************************************************)
(* Packets: the operations                                                 *)
(***************************************************************************)
PacketInv ==
    /\ buf \in [Packet!Names -> Buffers] /\ said \in [Packet!Names -> Histories]
    /\ \A p \in Packet!Names : Right(buf[p], said[p])
    /\ last # << >> => last[2] = Packet!Kept(last[1], last[3])

LEMMA RightTypes ==
    ASSUME NEW b, NEW h, Right(b, h)
    PROVE  b \in Buffers /\ h \in Histories
BY DEF Right

LEMMA BecomesRight ==
    ASSUME PacketInv, NEW p \in Packet!Names, NEW b, NEW h, Right(b, h),
           buf' = [buf EXCEPT ![p] = b], said' = [said EXCEPT ![p] = h],
           last' # << >> => last'[2] = Packet!Kept(last'[1], last'[3])
    PROVE  PacketInv'
<1>1. b \in Buffers /\ h \in Histories
  BY RightTypes
<1>2. buf' \in [Packet!Names -> Buffers] /\ said' \in [Packet!Names -> Histories]
  BY <1>1 DEF PacketInv
<1>3. ASSUME NEW q \in Packet!Names PROVE Right(buf'[q], said'[q])
  <2>1. CASE q = p
    <3>1. buf'[q] = b /\ said'[q] = h
      BY <2>1 DEF PacketInv
    <3> QED
      BY <3>1
  <2>2. CASE q # p
    <3>1. buf'[q] = buf[q] /\ said'[q] = said[q]
      BY <2>2 DEF PacketInv
    <3> QED
      BY <3>1 DEF PacketInv
  <2> QED
    BY <2>1, <2>2
<1> QED
  BY <1>2, <1>3 DEF PacketInv

LEMMA OtherName ==
    ASSUME NEW p \in Packet!Names
    PROVE  Packet!Other(p) \in Packet!Names
BY DEF Packet!Names, Packet!Other

LEMMA WriteKept ==
    ASSUME PacketInv, NEW p \in Packet!Names, Packet!Write(p)
    PROVE  PacketInv'
<1> DEFINE b == buf[p]
           h == said[p]
<1>1. Right(b, h)
  BY DEF PacketInv
<1>0. PICK t \in DOMAIN Values : \E v \in Values[t] :
        Packet!Become(p, Packet!AppendBytes(b, Packet!Encode(t, v)),
                      Packet!History(Append(h.items, <<t, v>>), h.next, h.opcode, h.intact /\ Packet!AtEnd(p)))
  BY DEF Packet!Write
<1>2. PICK v \in Values[t] :
        Packet!Become(p, Packet!AppendBytes(b, Packet!Encode(t, v)),
                      Packet!History(Append(h.items, <<t, v>>), h.next, h.opcode, h.intact /\ Packet!AtEnd(p)))
  BY <1>0
<1> DEFINE x == <<t, v>>
           bytes == Packet!Encode(t, v)
           intact == h.intact /\ Packet!AtEnd(p)
<1>3. x \in Entries /\ BytesOf(x) = bytes
  BY EntryOf
<1>4. Len(h.items) + 1 <= MaxItems
  <2>1. Len(said["a"].items) + Len(said["b"].items) < MaxItems
    BY DEF Packet!Write
  <2>2. Right(buf["a"], said["a"]) /\ Right(buf["b"], said["b"])
    BY DEF PacketInv, Packet!Names
  <2>3. Len(said["a"].items) \in Nat /\ Len(said["b"].items) \in Nat
    BY <2>2, RightParts
  <2>4. p = "a" \/ p = "b"
    BY DEF Packet!Names
  <2>5. MaxItems \in Nat
    BY ItemAssumption
  <2> DEFINE m == Len(said["a"].items)
             n == Len(said["b"].items)
  <2>6. m \in Nat /\ n \in Nat /\ m + n < MaxItems
    BY <2>1, <2>3
  <2>7. Len(h.items) = m \/ Len(h.items) = n
    BY <2>4
  <2> HIDE DEF m, n, h
  <2> QED
    BY <2>5, <2>6, <2>7
<1>5. h.items \in Seq(Entries) /\ h.intact \in BOOLEAN
  BY <1>1, RightParts
<1> HIDE DEF b, h, x, bytes, intact
<1>6. <<x>> \in Seq(Entries) /\ Len(<<x>>) = 1 /\ Laid(bytes, <<x>>) /\ Pos(<<x>>, 1) = SizeOf(x)
  BY <1>3, LaidOne
<1>7. bytes \in Seq(Int) /\ Len(bytes) = SizeOf(x) /\ SizeOf(x) \in Nat
  BY <1>3, EntryHasBytes DEF SizeOf
<1> DEFINE a == <<x>>
<1>8. a \in Seq(Entries) /\ Len(a) = 1 /\ Laid(bytes, a) /\ Len(bytes) <= Pos(a, Len(a))
  BY <1>6, <1>7
<1>9. Append(h.items, x) = h.items \o a
  BY <1>3, <1>5
<1>10. intact \in BOOLEAN /\ (intact => h.intact /\ b.wpos = Packet!Size(b))
  BY DEF intact, Packet!AtEnd, b
<1> HIDE DEF a
<1>11. Right(Packet!AppendBytes(b, bytes), Packet!History(h.items \o a, h.next, h.opcode, intact))
  <2>1. Len(h.items) + Len(a) <= MaxItems
    BY <1>4, <1>8 DEF h
  <2>2. intact => h.intact /\ Laid(bytes, a) /\ b.wpos = Packet!Size(b)
    BY <1>8, <1>10
  <2> QED
    BY <1>1, <1>7, <1>8, <1>10, <2>1, <2>2, AppendKeeps
<1>12. /\ buf' = [buf EXCEPT ![p] = Packet!AppendBytes(b, bytes)]
       /\ said' = [said EXCEPT ![p] = Packet!History(h.items \o a, h.next, h.opcode, intact)]
       /\ last' = << >>
  BY <1>2, <1>9 DEF Packet!Become, intact, bytes, x
<1> QED
  BY <1>11, <1>12, BecomesRight

LEMMA AppendBufferKept ==
    ASSUME PacketInv, NEW p \in Packet!Names, Packet!AppendBuffer(p)
    PROVE  PacketInv'
<1> DEFINE q == Packet!Other(p)
           b == buf[p]
           h == said[p]
           c == buf[q]
           k == said[q]
           bytes == SubSeq(c.storage, 1, c.wpos)
           intact == h.intact /\ k.intact /\ Packet!AtEnd(p) /\ Packet!AtEnd(q)
<1>1. q \in Packet!Names
  BY OtherName
<1> HIDE DEF q
<1>2. Right(b, h) /\ Right(c, k)
  BY <1>1 DEF PacketInv
<1>3. CASE c.wpos = 0
  <2>1. buf' = buf /\ said' = said /\ last' = << >>
    BY <1>3 DEF Packet!AppendBuffer, q
  <2> QED
    BY <2>1 DEF PacketInv
<1>4. CASE c.wpos # 0
  <2>1. /\ buf' = [buf EXCEPT ![p] = Packet!AppendBytes(b, bytes)]
        /\ said' = [said EXCEPT ![p] = Packet!History(h.items \o k.items, h.next, h.opcode, intact)]
        /\ last' = << >> /\ Len(h.items) + Len(k.items) <= MaxItems
    BY <1>4 DEF Packet!AppendBuffer, Packet!Become, q
  <2>2. /\ c.storage \in Seq(Int) /\ c.wpos \in Nat /\ Len(c.storage) \in Nat /\ c.wpos <= Len(c.storage)
        /\ k.items \in Seq(Entries) /\ Len(k.items) \in Nat /\ Len(c.storage) <= Pos(k.items, Len(k.items))
        /\ Packet!Size(c) = Len(c.storage)
    BY <1>2, RightParts
  <2>3. k.intact => Laid(c.storage, k.items)
    BY <1>2, RightParts
  <2>4. intact \in BOOLEAN /\ (intact => h.intact /\ k.intact /\ b.wpos = Packet!Size(b) /\ c.wpos = Packet!Size(c))
    BY DEF Packet!AtEnd
  <2> HIDE DEF intact, b, h, c, k
  <2>5. bytes \in Seq(Int) /\ Len(bytes) = c.wpos
    <3>1. c.wpos \in 0 .. Len(c.storage)
      BY <2>2
    <3> QED
      BY <2>2, <3>1, Cut
  <2>6. Len(bytes) <= Pos(k.items, Len(k.items))
    <3>1. Pos(k.items, Len(k.items)) \in Nat
      <4>1. Len(k.items) \in 0 .. Len(k.items)
        BY <2>2
      <4> QED
        BY <2>2, <4>1, StartsAdd
    <3> HIDE DEF bytes
    <3> QED
      BY <2>2, <2>5, <3>1
  <2>7. ASSUME c.wpos = Len(c.storage) PROVE bytes = c.storage
    <3> DEFINE s == c.storage
    <3>1. 0 \in Nat /\ 0 + Len(s) <= Len(s) /\ 0 + 1 = 1 /\ 0 + Len(s) = Len(s) /\ s \in Seq(Int)
      BY <2>2
    <3> HIDE DEF s
    <3>2. \A j \in 1 .. Len(s) : s[0 + j] = s[j]
      OBVIOUS
    <3>3. SubSeq(s, 0 + 1, 0 + Len(s)) = s
      BY <3>1, <3>2, Slice
    <3> QED
      BY <2>7, <3>1, <3>3 DEF s
  <2>8. intact => h.intact /\ Laid(bytes, k.items) /\ b.wpos = Packet!Size(b)
    <3> HIDE DEF bytes
    <3> QED
      BY <2>2, <2>3, <2>4, <2>7
  <2> HIDE DEF bytes
  <2>9. Right(Packet!AppendBytes(b, bytes), Packet!History(h.items \o k.items, h.next, h.opcode, intact))
    BY <1>2, <2>1, <2>2, <2>4, <2>5, <2>6, <2>8, AppendKeeps
  <2> QED
    BY <2>1, <2>9, BecomesRight
<1> QED
  BY <1>3, <1>4

LEMMA ReadKept ==
    ASSUME PacketInv, NEW p \in Packet!Names, Packet!Read(p)
    PROVE  PacketInv'
<1> DEFINE b == buf[p]
           h == said[p]
<1>1. Right(b, h)
  BY DEF PacketInv
<1>2. PICK t \in DOMAIN Values :
        /\ buf' = [buf EXCEPT ![p] = Packet!At(p, Packet!Decode(b, t).rpos)]
        /\ said' = [said EXCEPT ![p] = Packet!Knows(p, IF Packet!Expects(p, t) THEN h.next + 1
                                                       ELSE IF Packet!Decode(b, t).rpos = b.rpos THEN h.next ELSE 0)]
        /\ last' = IF Packet!Expects(p, t) THEN <<t, Packet!Decode(b, t).value, h.items[h.next][2]>> ELSE << >>
  BY DEF Packet!Read
<1> DEFINE expected == Packet!Expects(p, t)
<1>3. t \in Packet!Types
  BY ItemAssumption
<1>4. expected \in BOOLEAN /\ expected = (h.intact /\ h.next \in DOMAIN h.items /\ h.items[h.next][1] = t)
  BY DEF Packet!Expects
<1> HIDE DEF expected
<1> DEFINE c == Packet!Buffer(b.storage, Packet!Decode(b, t).rpos, b.wpos, b.opcode)
           k == Packet!History(h.items, IF expected THEN h.next + 1
                                        ELSE IF Packet!Decode(b, t).rpos = b.rpos THEN h.next ELSE 0,
                               h.opcode, h.intact)
<1>5. Right(c, k) /\ (expected => Packet!Decode(b, t).value = Packet!Kept(t, h.items[h.next][2]))
  <2> HIDE DEF b, h
  <2> QED
    BY <1>1, <1>3, <1>4, ReadKeeps
<1>6. buf' = [buf EXCEPT ![p] = c] /\ said' = [said EXCEPT ![p] = k]
  BY <1>2 DEF expected, Packet!At, Packet!Knows
<1>7. last' # << >> => last'[2] = Packet!Kept(last'[1], last'[3])
  <2>1. CASE expected
    <3>1. last' = <<t, Packet!Decode(b, t).value, h.items[h.next][2]>>
      BY <1>2, <2>1 DEF expected
    <3> QED
      BY <1>5, <2>1, <3>1
  <2>2. CASE ~expected
    <3>1. last' = << >>
      BY <1>2, <2>2 DEF expected
    <3> QED
      BY <3>1
  <2> QED
    BY <1>4, <2>1, <2>2
<1> HIDE DEF c, k
<1> QED
  BY <1>5, <1>6, <1>7, BecomesRight

LEMMA SkipKept ==
    ASSUME PacketInv, NEW p \in Packet!Names, Packet!ReadSkip(p)
    PROVE  PacketInv'
<1> DEFINE b == buf[p]
           h == said[p]
           x == h.items[h.next]
<1>1. Right(b, h)
  BY DEF PacketInv
<1> DEFINE Place_(t) == IF t = "string" THEN Packet!ReadCString(b).rpos ELSE b.rpos + Len(Packet!Encode(t, x[2]))
<1>2. PICK t \in DOMAIN Values :
        Packet!Expects(p, t) /\ Packet!Become(p, Packet!At(p, Place_(t)), Packet!Knows(p, h.next + 1))
  BY DEF Packet!ReadSkip
<1>3. h.intact /\ h.next \in DOMAIN h.items /\ x[1] = t
  BY <1>2 DEF Packet!Expects
<1> DEFINE pos == Place_(t)
<1>4. /\ Packet!Decode(b, x[1]) = [rpos |-> Pos(h.items, h.next), value |-> Packet!Kept(x[1], x[2])]
      /\ b.rpos + Len(Packet!Encode(x[1], x[2])) = Pos(h.items, h.next)
      /\ Pos(h.items, h.next) \in 0 .. Len(b.storage)
      /\ h.next + 1 \in 1 .. Len(h.items) + 1 /\ (h.next + 1) - 1 = h.next
  <2> HIDE DEF b, h
  <2> QED
    BY <1>1, <1>3, ItemReturns
<1>5. pos = Pos(h.items, h.next)
  <2>1. CASE t = "string"
    <3>1. Packet!Decode(b, "string") = Packet!ReadCString(b)
      BY DecodeOthers
    <3>2. Packet!ReadCString(b).rpos = Pos(h.items, h.next)
      <4> HIDE DEF b, h, x
      <4> QED
        BY <1>3, <1>4, <2>1, <3>1
    <3> QED
      BY <2>1, <3>2
  <2>2. CASE t # "string"
    BY <1>3, <1>4, <2>2
  <2> QED
    BY <2>1, <2>2
<1> HIDE DEF pos, x
<1>6. Right(Packet!Buffer(b.storage, pos, b.wpos, b.opcode), Packet!History(h.items, h.next + 1, h.opcode, h.intact))
  <2> HIDE DEF b, h
  <2>1. pos \in 0 .. Len(b.storage) /\ h.next + 1 \in Nat
    BY <1>4, <1>5
  <2>2. h.intact /\ h.next + 1 # 0 => h.next + 1 \in 1 .. Len(h.items) + 1 /\ pos = Pos(h.items, (h.next + 1) - 1)
    BY <1>4, <1>5
  <2> QED
    BY <1>1, <2>1, <2>2, MovesRight
<1>7. /\ buf' = [buf EXCEPT ![p] = Packet!Buffer(b.storage, pos, b.wpos, b.opcode)]
      /\ said' = [said EXCEPT ![p] = Packet!History(h.items, h.next + 1, h.opcode, h.intact)]
      /\ last' = << >>
  BY <1>2 DEF Packet!Become, Packet!At, Packet!Knows, pos
<1> QED
  BY <1>6, <1>7, BecomesRight

LEMMA PutKept ==
    ASSUME PacketInv, NEW p \in Packet!Names, Packet!Put(p)
    PROVE  PacketInv'
<1> DEFINE b == buf[p]
           h == said[p]
<1>1. Right(b, h)
  BY DEF PacketInv
<1>2. PICK i \in DOMAIN h.items, t \in DOMAIN Values \cap Packet!Integral :
        /\ h.intact /\ h.items[i][1] = t
        /\ \E v \in Values[t] :
             Packet!Become(p, Packet!PutBytes(b, Packet!StartOf(h.items, i), Packet!Encode(t, v)),
                           Packet!History([h.items EXCEPT ![i] = <<t, v>>], h.next, h.opcode, TRUE))
  BY DEF Packet!Put
<1>3. PICK v \in Values[t] :
        Packet!Become(p, Packet!PutBytes(b, Packet!StartOf(h.items, i), Packet!Encode(t, v)),
                      Packet!History([h.items EXCEPT ![i] = <<t, v>>], h.next, h.opcode, TRUE))
  BY <1>2
<1> DEFINE c == Packet!PutBytes(b, Packet!StartOf(h.items, i), Packet!Encode(t, v))
           k == Packet!History([h.items EXCEPT ![i] = <<t, v>>], h.next, h.opcode, TRUE)
<1>4. Right(c, k)
  <2> HIDE DEF b, h
  <2> QED
    BY <1>1, <1>2, PutKeeps
<1>5. buf' = [buf EXCEPT ![p] = c] /\ said' = [said EXCEPT ![p] = k] /\ last' = << >>
  BY <1>3 DEF Packet!Become
<1> HIDE DEF c, k
<1> QED
  BY <1>4, <1>5, BecomesRight

LEMMA OthersKept ==
    ASSUME PacketInv, NEW p \in Packet!Names,
           Packet!Rewind(p) \/ Packet!Rfinish(p) \/ Packet!Initialize(p) \/ Packet!Copy(p) \/ Packet!Send(p)
    PROVE  PacketInv'
<1> DEFINE b == buf[p]
           h == said[p]
           q == Packet!Other(p)
<1>1. Right(b, h) /\ q \in Packet!Names
  BY OtherName DEF PacketInv
<1>2. ASSUME NEW n \in Packet!Names, NEW c, NEW k, Right(c, k), Packet!Become(n, c, k) PROVE PacketInv'
  <2>1. buf' = [buf EXCEPT ![n] = c] /\ said' = [said EXCEPT ![n] = k] /\ last' = << >>
    BY <1>2 DEF Packet!Become
  <2> QED
    BY <1>2, <2>1, BecomesRight
<1>3. CASE Packet!Rewind(p)
  <2> DEFINE c == Packet!Buffer(b.storage, 0, b.wpos, b.opcode)
             k == Packet!History(h.items, 1, h.opcode, h.intact)
  <2>1. Right(c, k)
    <3> HIDE DEF b, h
    <3> QED
      BY <1>1, RewindKeeps
  <2>2. Packet!Become(p, c, k)
    BY <1>3 DEF Packet!Rewind, Packet!At, Packet!Knows
  <2> HIDE DEF c, k
  <2> QED
    BY <1>2, <2>1, <2>2
<1>4. CASE Packet!Rfinish(p)
  <2> DEFINE c == Packet!Buffer(b.storage, b.wpos, b.wpos, b.opcode)
             k == Packet!History(h.items, IF b.wpos = Packet!Size(b) THEN Len(h.items) + 1 ELSE 1, h.opcode, h.intact)
  <2>1. Right(c, k)
    <3> HIDE DEF b, h
    <3> QED
      BY <1>1, RfinishKeeps
  <2>2. Packet!Become(p, c, k)
    BY <1>4 DEF Packet!Rfinish, Packet!At, Packet!Knows, Packet!AtEnd
  <2> HIDE DEF c, k
  <2> QED
    BY <1>2, <2>1, <2>2
<1>5. CASE Packet!Initialize(p)
  <2>1. PICK opcode \in NewOpcodes : Packet!Become(p, Packet!NewPacket(opcode), Packet!NewHistory(opcode))
    BY <1>5 DEF Packet!Initialize
  <2>2. Right(Packet!NewPacket(opcode), Packet!NewHistory(opcode))
    BY ItemAssumption, NewIsRight
  <2> QED
    BY <1>2, <2>1, <2>2
<1>6. CASE Packet!Copy(p)
  <2> DEFINE c == buf[q]
             k == said[q]
  <2>1. Right(c, k)
    BY <1>1 DEF PacketInv
  <2>2. Packet!Become(p, c, k)
    BY <1>6 DEF Packet!Copy
  <2> HIDE DEF c, k
  <2> QED
    BY <1>2, <2>1, <2>2
<1>7. CASE Packet!Send(p)
  <2> DEFINE c == Packet!Received(Packet!OnWire(b))
             k == Packet!History(h.items, 1, h.opcode, h.intact)
  <2>1. Right(c, k)
    <3> HIDE DEF b, h
    <3> QED
      BY <1>1, SendKeeps
  <2>2. Packet!Become(q, c, k)
    BY <1>7 DEF Packet!Send, Packet!Knows
  <2> HIDE DEF c, k, q
  <2> QED
    BY <1>1, <1>2, <2>1, <2>2 DEF q
<1> QED
  BY <1>3, <1>4, <1>5, <1>6, <1>7

LEMMA MoveKept ==
    ASSUME PacketInv, NEW p \in Packet!Names, Packet!Move(p)
    PROVE  PacketInv'
<1> DEFINE q == Packet!Other(p)
           b == buf[q]
           h == said[q]
           c == Packet!NewPacket(b.opcode)
           k == Packet!NewHistory(b.opcode)
<1>1. q \in Packet!Names
  BY OtherName
<1>2. /\ buf' = [n \in Packet!Names |-> IF n = p THEN b ELSE c]
      /\ said' = [n \in Packet!Names |-> IF n = p THEN h ELSE k]
      /\ last' = << >>
  BY DEF Packet!Move, Packet!MovedFrom
<1> HIDE DEF q
<1>3. Right(b, h)
  BY <1>1 DEF PacketInv
<1> HIDE DEF b, h
<1>4. b.opcode \in Packet!Opcodes
  BY <1>3, RightParts
<1>5. Right(c, k)
  BY <1>4, NewIsRight
<1> HIDE DEF c, k
<1>6. b \in Buffers /\ h \in Histories /\ c \in Buffers /\ k \in Histories
  BY <1>3, <1>5, RightTypes
<1>7. buf' \in [Packet!Names -> Buffers] /\ said' \in [Packet!Names -> Histories]
  BY <1>2, <1>6
<1>8. \A n \in Packet!Names : Right(buf'[n], said'[n])
  <2> TAKE n \in Packet!Names
  <2>1. buf'[n] = (IF n = p THEN b ELSE c) /\ said'[n] = (IF n = p THEN h ELSE k)
    BY <1>2
  <2> QED
    BY <1>3, <1>5, <2>1
<1>9. last' = << >>
  BY <1>2
<1> QED
  BY <1>7, <1>8, <1>9 DEF PacketInv

LEMMA PacketInit == Init => PacketInv
<1> SUFFICES ASSUME Init PROVE PacketInv
  OBVIOUS
<1> DEFINE b == Packet!NewPacket(0)
           h == Packet!NewHistory(0)
<1>1. /\ buf = [p \in Packet!Names |-> b] /\ said = [p \in Packet!Names |-> h] /\ last = << >>
  BY DEF Init, Packet!Init
<1>2. 0 \in Packet!Opcodes
  BY DEF Packet!Opcodes
<1>3. Right(b, h)
  BY <1>2, NewIsRight
<1> HIDE DEF b, h
<1>4. b \in Buffers /\ h \in Histories
  BY <1>3, RightTypes
<1>5. \A p \in Packet!Names : buf[p] = b /\ said[p] = h
  BY <1>1
<1>6. buf \in [Packet!Names -> Buffers] /\ said \in [Packet!Names -> Histories]
  BY <1>1, <1>4
<1> QED
  BY <1>1, <1>3, <1>5, <1>6 DEF PacketInv

LEMMA PacketKept == PacketInv /\ [Next]_vars => PacketInv'
<1> SUFFICES ASSUME PacketInv, [Next]_vars PROVE PacketInv'
  OBVIOUS
<1>1. CASE PacketStep
  <2>1. PICK p \in Packet!Names :
          \/ Packet!Write(p) \/ Packet!AppendBuffer(p) \/ Packet!Read(p) \/ Packet!ReadSkip(p) \/ Packet!Put(p)
          \/ Packet!Rewind(p) \/ Packet!Rfinish(p) \/ Packet!Initialize(p) \/ Packet!Copy(p) \/ Packet!Move(p)
          \/ Packet!Send(p)
    BY <1>1, Zenon DEF PacketStep, Packet!Next
  <2>2. CASE Packet!Write(p)
    BY <2>2, WriteKept
  <2>3. CASE Packet!AppendBuffer(p)
    BY <2>3, AppendBufferKept
  <2>4. CASE Packet!Read(p)
    BY <2>4, ReadKept
  <2>5. CASE Packet!ReadSkip(p)
    BY <2>5, SkipKept
  <2>6. CASE Packet!Put(p)
    BY <2>6, PutKept
  <2>7. CASE Packet!Rewind(p) \/ Packet!Rfinish(p) \/ Packet!Initialize(p) \/ Packet!Copy(p) \/ Packet!Send(p)
    BY <2>7, OthersKept
  <2>8. CASE Packet!Move(p)
    BY <2>8, MoveKept
  <2> QED
    BY <2>1, <2>2, <2>3, <2>4, <2>5, <2>6, <2>7, <2>8
<1>2. CASE UNCHANGED packetVars
  BY <1>2 DEF PacketInv, packetVars
<1>3. Next => PacketStep \/ UNCHANGED packetVars
  BY DEF Next, ProcessStep, CallbacksStep, TimerStep, LocationStep, QueueStep, LoginStep, CipherStep
<1>4. UNCHANGED vars => UNCHANGED packetVars
  BY DEF vars
<1> QED
  BY <1>1, <1>2, <1>3, <1>4

\* Every item is read from a packet as it was written, whatever the packet went through:
\* ByteBuffer, DiscordPacket and the headers of the wire.
THEOREM PacketsRight == Spec => []RoundTrip
<1>1. PacketInv => RoundTrip
  <2> SUFFICES ASSUME PacketInv PROVE RoundTrip
    OBVIOUS
  <2>1. ASSUME NEW p \in Packet!Names
        PROVE  /\ buf[p].opcode = said[p].opcode
               /\ buf[p].rpos <= Packet!Size(buf[p]) /\ buf[p].wpos <= Packet!Size(buf[p])
    BY <2>1 DEF PacketInv, Right
  <2>2. last # << >> => last[2] = Packet!Kept(last[1], last[3])
    BY DEF PacketInv
  <2> QED
    BY <2>1, <2>2 DEF RoundTrip, Packet!RoundTrip
<1> QED
  BY <1>1, PacketInit, PacketKept, PTL DEF Spec
=============================================================================
