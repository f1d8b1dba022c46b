-------------------------- MODULE CoapPacketsProofs ---------------------------
(***************************************************************************)
(* Theorems about the codec of CoapPackets: what coap2buf writes buf2coap  *)
(* reads, for packets of any size.  They are about loops, so the module    *)
(* begins with induction; what induction is over is a set, S, because the  *)
(* provers take no predicate for a parameter.                              *)
(***************************************************************************)
EXTENDS CoapPackets, FiniteSetTheorems, SequenceTheorems, TLAPS

-----------------------------------------------------------------------------
\* Induction and loops.

LEMMA LeastElement ==
    ASSUME NEW T \in SUBSET Nat, T # {}
    PROVE  \E n \in T : \A m \in T : n <= m
<1> DEFINE below == { 0..n : n \in T }
<1>1. below \subseteq FiniteSubsetsOf(Nat) /\ below # {}
  <2>1. \A n \in T : 0..n \in SUBSET Nat /\ IsFiniteSet(0..n)
    BY FS_Interval
  <2> QED
    BY <2>1 DEF FiniteSubsetsOf
<1>2. PICK x \in below : \A y \in below : <<y, x>> \notin StrictSubsetOrdering(Nat)
  <2> HIDE DEF below
  <2> QED
    BY <1>1, WFMin, FS_StrictSubsetOrderingWellFounded
<1>3. PICK n \in T : x = 0..n
  OBVIOUS
<1>4. ASSUME NEW m \in T, m < n PROVE FALSE
  <2>1. 0..m \subseteq 0..n /\ 0..m # 0..n
    <3>1. n \in 0..n /\ n \notin 0..m
      BY <1>4
    <3> QED
      BY <3>1, <1>4
  <2>2. <<0..m, 0..n>> \in (SUBSET Nat) \X (SUBSET Nat)
    OBVIOUS
  <2>3. <<0..m, 0..n>> \in StrictSubsetOrdering(Nat)
    BY <2>1, <2>2 DEF StrictSubsetOrdering
  <2>4. 0..m \in below
    OBVIOUS
  <2> QED
    BY <1>2, <1>3, <2>3, <2>4
<1> QED
  BY <1>4

LEMMA Induction ==
    ASSUME NEW S, 0 \in S, \A n \in Nat : n \in S => n + 1 \in S
    PROVE  Nat \subseteq S
<1> SUFFICES ASSUME Nat \ S # {} PROVE FALSE
  OBVIOUS
<1>1. PICK n \in Nat \ S : \A m \in Nat \ S : n <= m
  BY LeastElement
<1>2. n # 0 /\ n - 1 \in Nat
  BY <1>1
<1>3. n - 1 \in S
  BY <1>1, <1>2
<1> QED
  BY <1>1, <1>2, <1>3

\* f[i] is the state of a loop, a member of S, after i of its n turns.
IsLoop(f, n, S, s0, step) ==
    f \in [0..n -> S] /\ f[0] = s0 /\ \A i \in 1..n : f[i] = step[i][f[i - 1]]

LEMMA Loop ==
    ASSUME NEW n \in Nat, NEW S, NEW s0 \in S, NEW step \in [1..n -> [S -> S]]
    PROVE  \E f : IsLoop(f, n, S, s0, step)
<1> DEFINE Good(m, f) == f[0] = s0 /\ \A i \in 1..m : f[i] = step[i][f[i - 1]]
           Reached == { m \in Nat : m <= n => \E f \in [0..m -> S] : Good(m, f) }
<1>1. 0 \in Reached
  <2> DEFINE f == [i \in 0..0 |-> s0]
  <2>1. f \in [0..0 -> S] /\ Good(0, f)
    OBVIOUS
  <2> QED
    BY <2>1
<1>2. ASSUME NEW m \in Nat, m \in Reached PROVE m + 1 \in Reached
  <2> SUFFICES ASSUME m + 1 <= n PROVE \E f \in [0..m + 1 -> S] : Good(m + 1, f)
    OBVIOUS
  <2>1. PICK g \in [0..m -> S] : Good(m, g)
    BY <1>2
  <2> DEFINE f == [i \in 0..m + 1 |-> IF i = m + 1 THEN step[m + 1][g[m]] ELSE g[i]]
  <2>2. step[m + 1][g[m]] \in S
    OBVIOUS
  <2>3. f \in [0..m + 1 -> S]
    BY <2>2
  <2>4. f[m + 1] = step[m + 1][g[m]] /\ \A i \in 0..m : f[i] = g[i]
    OBVIOUS
  <2> HIDE DEF f
  <2>5. f[0] = s0
    BY <2>1, <2>4
  <2>6. \A i \in 1..m + 1 : f[i] = step[i][f[i - 1]]
    <3> TAKE i \in 1..m + 1
    <3>1. CASE i = m + 1
      BY <3>1, <2>4
    <3>2. CASE i \in 1..m
      BY <3>2, <2>1, <2>4
    <3> QED
      BY <3>1, <3>2
  <2> QED
    BY <2>3, <2>5, <2>6
<1>3. n \in Reached
  <2> HIDE DEF Reached
  <2> QED
    BY <1>1, <1>2, Induction
<1> QED
  BY <1>3 DEF IsLoop

LEMMA OneLonger ==
    ASSUME NEW i \in Nat, NEW x \in Nat, NEW y \in Nat \ {0}, i <= x
    PROVE  i + 1 <= x + y
OBVIOUS

LEMMA LessThanSum ==
    ASSUME NEW x \in Nat, NEW y \in Nat, NEW z \in Nat, x + y <= z
    PROVE  x <= z
OBVIOUS

-----------------------------------------------------------------------------
\* Parts of a buffer.

\* b holds data from cell at on.
Holds(b, at, data) ==
    /\ at + Len(data) - 1 <= Len(b)
    /\ \A j \in 1..Len(data) : b[at + j - 1] = data[j]

LEMMA HoldsParts ==
    ASSUME NEW b \in Seq(Int), NEW at \in Nat \ {0}, NEW x \in Seq(Int), NEW y \in Seq(Int),
           Holds(b, at, x \o y)
    PROVE  Holds(b, at, x) /\ Holds(b, at + Len(x), y)
<1>1. Len(x \o y) = Len(x) + Len(y) /\ Len(x) \in Nat /\ Len(y) \in Nat /\ Len(b) \in Nat
  OBVIOUS
<1>2. ASSUME NEW j \in 1..Len(x) PROVE b[at + j - 1] = x[j]
  <2>1. j \in 1..Len(x \o y) /\ (x \o y)[j] = x[j]
    BY <1>1
  <2> QED
    BY <2>1 DEF Holds
<1>3. ASSUME NEW j \in 1..Len(y) PROVE b[at + Len(x) + j - 1] = y[j]
  <2> DEFINE i == Len(x) + j
  <2>1. i \in 1..Len(x \o y) /\ (x \o y)[i] = y[j] /\ at + i - 1 = at + Len(x) + j - 1
    BY <1>1
  <2> HIDE DEF i
  <2>2. b[at + i - 1] = (x \o y)[i]
    BY <2>1 DEF Holds
  <2> QED
    BY <2>1, <2>2
<1>4. at + Len(x) - 1 <= Len(b) /\ at + Len(x) + Len(y) - 1 <= Len(b)
  BY <1>1 DEF Holds
<1> QED
  BY <1>2, <1>3, <1>4 DEF Holds

LEMMA FourParts ==
    ASSUME NEW x \in Seq(Int), NEW y \in Seq(Int), NEW z \in Seq(Int), NEW v \in Seq(Int)
    PROVE  /\ x \o y \o z \o v \in Seq(Int)
           /\ Len(x \o y \o z \o v) = Len(x) + Len(y) + Len(z) + Len(v)
<1>1. x \o y \in Seq(Int) /\ Len(x \o y) = Len(x) + Len(y)
  OBVIOUS
<1>2. x \o y \o z \in Seq(Int) /\ Len(x \o y \o z) = Len(x \o y) + Len(z)
  BY <1>1
<1>3. x \o y \o z \o v \in Seq(Int) /\ Len(x \o y \o z \o v) = Len(x \o y \o z) + Len(v)
  BY <1>2
<1> QED
  BY <1>1, <1>2, <1>3

LEMMA HoldsFourParts ==
    ASSUME NEW b \in Seq(Int), NEW at \in Nat \ {0}, NEW x \in Seq(Int), NEW y \in Seq(Int),
           NEW z \in Seq(Int), NEW v \in Seq(Int), Holds(b, at, x \o y \o z \o v)
    PROVE  /\ Holds(b, at, x) /\ Holds(b, at + Len(x), y)
           /\ Holds(b, at + Len(x) + Len(y), z)
           /\ Holds(b, at + Len(x) + Len(y) + Len(z), v)
<1>1. x \o y \in Seq(Int) /\ Len(x \o y) = Len(x) + Len(y)
  OBVIOUS
<1>2. x \o y \o z \in Seq(Int) /\ Len(x \o y \o z) = Len(x \o y) + Len(z)
  BY <1>1
<1>3. Holds(b, at, x \o y \o z) /\ Holds(b, at + Len(x \o y \o z), v)
  BY <1>2, HoldsParts
<1>4. Holds(b, at, x \o y) /\ Holds(b, at + Len(x \o y), z)
  BY <1>1, <1>3, HoldsParts
<1>5. Holds(b, at, x) /\ Holds(b, at + Len(x), y)
  BY <1>4, HoldsParts
<1>6. /\ Len(x) \in Nat /\ Len(y) \in Nat /\ Len(z) \in Nat
      /\ at + Len(x \o y) = at + Len(x) + Len(y)
      /\ at + Len(x \o y \o z) = at + Len(x) + Len(y) + Len(z)
  <2>1. Len(x) \in Nat /\ Len(y) \in Nat /\ Len(z) \in Nat
    OBVIOUS
  <2> QED
    BY <2>1, <1>1, <1>2
<1> QED
  BY <1>3, <1>4, <1>5, <1>6

LEMMA HoldsThreeParts ==
    ASSUME NEW b \in Seq(Int), NEW at \in Nat \ {0}, NEW x \in Seq(Int), NEW y \in Seq(Int),
           NEW z \in Seq(Int), Holds(b, at, x \o y \o z)
    PROVE  /\ Holds(b, at, x) /\ Holds(b, at + Len(x), y)
           /\ Holds(b, at + Len(x) + Len(y), z)
<1>1. x \o y \in Seq(Int) /\ Len(x \o y) = Len(x) + Len(y)
  OBVIOUS
<1>2. Holds(b, at, x \o y) /\ Holds(b, at + Len(x \o y), z)
  BY <1>1, HoldsParts
<1>3. Holds(b, at, x) /\ Holds(b, at + Len(x), y)
  BY <1>2, HoldsParts
<1>4. at + Len(x \o y) = at + Len(x) + Len(y)
  <2>1. Len(x) \in Nat /\ Len(y) \in Nat
    OBVIOUS
  <2> QED
    BY <2>1, <1>1
<1> QED
  BY <1>2, <1>3, <1>4

LEMMA ThreeParts ==
    ASSUME NEW x \in Seq(Int), NEW y \in Seq(Int), NEW z \in Seq(Int)
    PROVE  /\ x \o y \o z \in Seq(Int)
           /\ Len(x \o y \o z) = Len(x) + Len(y) + Len(z)
<1>1. x \o y \in Seq(Int) /\ Len(x \o y) = Len(x) + Len(y)
  OBVIOUS
<1>2. x \o y \o z \in Seq(Int) /\ Len(x \o y \o z) = Len(x \o y) + Len(z)
  BY <1>1
<1> QED
  BY <1>1, <1>2

LEMMA HeldPart ==
    ASSUME NEW b \in Seq(Int), NEW at \in Nat \ {0}, NEW x \in Seq(Int), Holds(b, at, x),
           NEW end, end = at + Len(x) - 1
    PROVE  SubSeq(b, at, end) = x
<1>1. Len(x) \in Nat /\ Len(b) \in Nat /\ end <= Len(b) /\ end \in Int
  BY DEF Holds
<1>2. SubSeq(b, at, end) \in Seq(Int) /\ Len(SubSeq(b, at, end)) = Len(x)
  BY <1>1
<1>3. \A j \in 1..Len(x) : SubSeq(b, at, end)[j] = x[j]
  <2> TAKE j \in 1..Len(x)
  <2>1. /\ j \in Int /\ 1 <= j /\ j <= Len(x)
        /\ 1 <= at + j - 1 /\ at + j - 1 <= end
    BY <1>1
  <2>2. SubSeq(b, at, end)[j] = b[at + j - 1]
    BY ONLY <1>1, <2>1, b \in Seq(Int), at \in Nat \ {0}, end = at + Len(x) - 1
  <2> QED
    BY <2>2 DEF Holds
<1> QED
  BY <1>2, <1>3, SeqEqual

LEMMA HeldRest ==
    ASSUME NEW b \in Seq(Int), NEW at \in Nat \ {0}, NEW x \in Seq(Int),
           Holds(b, at, x), Len(b) = at + Len(x) - 1
    PROVE  SubSeq(b, at, Len(b)) = x
BY HeldPart

LEMMA HeldSlice ==
    ASSUME NEW b \in Seq(Int), NEW at \in Nat \ {0}, NEW x \in Seq(Int), Holds(b, at, x)
    PROVE  Slice(b, at, Len(x)) = x
<1>1. ASSUME NEW k \in 1..Len(x) PROVE at + k - 1 \in 1..Len(b) /\ b[at + k - 1] = x[k]
  BY DEF Holds
<1>2. Slice(b, at, Len(x)) = [k \in 1..Len(x) |-> x[k]]
  BY <1>1 DEF Slice
<1> QED
  BY <1>2

-----------------------------------------------------------------------------
\* The bytes of an option.

Words  == { n \in Int : 0 <= n /\ n < 65536 }
Octets == 0..255
Cells  == Seq(Int)
OptionRecords == [delta : Words, number : Octets, value : Cells]

\* The reader's sign is -1 in the plaintext and 1 in a packet: there the
\* length of a value of 13 bytes or more is misread.
ReadableValue(value, sign) ==
    /\ Len(value) < 65536
    /\ sign = -1 \/ (sign = 1 /\ Len(value) < 13)

LEMMA Nibbles ==
    ASSUME NEW x \in Int, NEW y \in 0..15
    PROVE  (x * 16 + y) \div 16 = x /\ (x * 16 + y) % 16 = y
OBVIOUS

LEMMA NotReserved ==
    ASSUME NEW x \in 0..14
    PROVE  ~(x >= 15) /\ x # 15
OBVIOUS

LEMMA ExtensionBytes ==
    ASSUME NEW n \in Int, 0 <= n, n < 65536
    PROVE  /\ ExtensionLen(n) \in 0..2 /\ Nibble(n) \in 0..14
           /\ Extension(n) \in Seq(Int) /\ Len(Extension(n)) = ExtensionLen(n)
           /\ HeaderLen(Nibble(n)) = ExtensionLen(n)
<1>1. ExtensionLen(n) \in 0..2 /\ Nibble(n) \in 0..14 /\ HeaderLen(Nibble(n)) = ExtensionLen(n)
  BY DEF ExtensionLen, Nibble, HeaderLen
<1>2. U8(n + 13) \in Int /\ U8(n + 269) \in Int /\ U16(n + 269) \div 256 \in Int
  BY DEF U8, U16
<1>3. Extension(n) \in Seq(Int) /\ Len(Extension(n)) = ExtensionLen(n)
  BY <1>1, <1>2 DEF Extension
<1> QED
  BY <1>1, <1>3

\* The extension of two bytes holds the number that is 269 larger, of which
\* the highest bit may be lost: the subtraction brings it back.
LEMMA LongExtension ==
    ASSUME NEW n \in Int, 0 <= n, n < 65536
    PROVE  U16((U16(n + 269) \div 256) * 256 + U8(n + 269) + (-1) * 269) = n
BY DEF U8, U16

\* An extension is read as it was written, with the sign -1.
LEMMA ExtensionRead ==
    ASSUME NEW n \in Int, 0 <= n, n < 65536, NEW b \in Seq(Int), NEW at \in Nat \ {0},
           Holds(b, at, Extension(n))
    PROVE  /\ Extended(b, at, Nibble(n), -1) = n
           /\ n < 13 => Extended(b, at, Nibble(n), 1) = n
<1>1. CASE n < 13
  BY <1>1 DEF ExtensionLen, Nibble, Extended
<1>2. CASE n >= 13 /\ n < 243
  <2>1. ExtensionLen(n) = 1 /\ Nibble(n) = 13
    BY <1>2 DEF ExtensionLen, Nibble
  <2>2. Extension(n) = <<U8(n + 13)>>
    BY <2>1 DEF Extension
  <2>3. b[at + 1 - 1] = Extension(n)[1] /\ at + 1 - 1 = at
    BY <2>2 DEF Holds
  <2>4. U8(n + 13) = n + 13
    BY <1>2 DEF U8
  <2>5. b[at] = n + 13
    BY <2>2, <2>3, <2>4
  <2>6. Extended(b, at, 13, -1) = U16(b[at] + (-1) * 13)
    BY DEF Extended
  <2>7. b[at] + (-1) * 13 = n
    BY <2>5
  <2>8. U16(n) = n
    BY DEF U16
  <2> QED
    BY <1>2, <2>1, <2>6, <2>7, <2>8
<1>3. CASE n >= 243
  <2>1. ExtensionLen(n) = 2 /\ Nibble(n) = 14
    BY <1>3 DEF ExtensionLen, Nibble
  <2>2. Extension(n) = <<U16(n + 269) \div 256, U8(n + 269)>>
    BY <2>1 DEF Extension
  <2>3. b[at] = U16(n + 269) \div 256 /\ b[at + 1] = U8(n + 269)
    <3>1. b[at + 1 - 1] = Extension(n)[1] /\ b[at + 2 - 1] = Extension(n)[2]
      BY <2>2 DEF Holds
    <3>2. at + 1 - 1 = at /\ at + 2 - 1 = at + 1
      OBVIOUS
    <3> QED
      BY <2>2, <3>1, <3>2
  <2>4. Extended(b, at, 14, -1) = U16(b[at] * 256 + b[at + 1] + (-1) * 269)
    BY DEF Extended
  <2>5. U16((U16(n + 269) \div 256) * 256 + U8(n + 269) + (-1) * 269) = n
    BY LongExtension
  <2> QED
    BY <1>3, <2>1, <2>3, <2>4, <2>5
<1> QED
  BY <1>1, <1>2, <1>3

LEMMA WordBounds ==
    ASSUME NEW n \in Words
    PROVE  n \in Int /\ 0 <= n /\ n < 65536
BY DEF Words

LEMMA OctetBounds ==
    ASSUME NEW n \in Octets
    PROVE  n \in Int /\ 0 <= n /\ n < 256
BY DEF Octets

LEMMA FieldsOfOption ==
    ASSUME NEW o \in OptionRecords
    PROVE  /\ o.delta \in Int /\ 0 <= o.delta /\ o.delta < 65536
           /\ o.number \in 0..255
           /\ o.value \in Seq(Int) /\ Len(o.value) \in Int /\ 0 <= Len(o.value)
           /\ o = [delta |-> o.delta, number |-> o.number, value |-> o.value]
<1>1. /\ o.delta \in Words /\ o.number \in Octets /\ o.value \in Cells
      /\ o = [delta |-> o.delta, number |-> o.number, value |-> o.value]
  BY DEF OptionRecords
<1>2. o.delta \in Int /\ 0 <= o.delta /\ o.delta < 65536
  <2>1. o.delta \in Words
    BY <1>1
  <2> QED
    BY <2>1, WordBounds
<1>3. o.value \in Seq(Int) /\ Len(o.value) \in Int /\ 0 <= Len(o.value)
  BY <1>1 DEF Cells
<1> QED
  BY <1>1, <1>2, <1>3 DEF Octets

\* The parts of an option's bytes, of which the header byte is one.
HeaderByte(delta, length) == <<Nibble(delta) * 16 + Nibble(length)>>

LEMMA HeaderByteCell ==
    ASSUME NEW delta, NEW length, Nibble(delta) \in 0..14, Nibble(length) \in 0..14
    PROVE  HeaderByte(delta, length) \in Seq(Int) /\ Len(HeaderByte(delta, length)) = 1
<1>1. Nibble(delta) * 16 + Nibble(length) \in Int
  OBVIOUS
<1> QED
  BY <1>1 DEF HeaderByte

OptionParts(o, delta, length, first, second, third) ==
    /\ first \in Seq(Int) /\ Len(first) = 1
    /\ second \in Seq(Int) /\ Len(second) = HeaderLen(Nibble(delta))
    /\ third \in Seq(Int) /\ Len(third) = HeaderLen(Nibble(length))
    /\ Len(second) \in Nat /\ Len(third) \in Nat
    /\ Nibble(delta) \in 0..14 /\ Nibble(length) \in 0..14
    /\ option_bytes(o) = first \o second \o third \o o.value
    /\ option_bytes(o) \in Seq(Int)
    /\ Len(option_bytes(o)) = 1 + Len(second) + Len(third) + length
    /\ Len(option_bytes(o)) \in Nat \ {0}

LEMMA OptionBytes ==
    ASSUME NEW o \in OptionRecords, Len(o.value) < 65536
    PROVE  OptionParts(o, o.delta, Len(o.value), HeaderByte(o.delta, Len(o.value)),
                       Extension(o.delta), Extension(Len(o.value)))
<1> DEFINE delta == o.delta
           value == o.value
           length == Len(o.value)
<1>0. /\ delta \in Int /\ 0 <= delta /\ delta < 65536
      /\ value \in Seq(Int) /\ length \in Int /\ 0 <= length /\ length < 65536
      /\ length = Len(value)
  BY FieldsOfOption
<1> DEFINE first == HeaderByte(delta, length)
           second == Extension(delta)
           third == Extension(length)
<1>1. second \in Seq(Int) /\ Len(second) = HeaderLen(Nibble(delta)) /\ Nibble(delta) \in 0..14
  BY <1>0, ExtensionBytes
<1>2. third \in Seq(Int) /\ Len(third) = HeaderLen(Nibble(length)) /\ Nibble(length) \in 0..14
  BY <1>0, ExtensionBytes
<1>3. first \in Seq(Int) /\ Len(first) = 1
  BY <1>1, <1>2, HeaderByteCell
<1>4. option_bytes(o) = first \o second \o third \o value
  BY DEF option_bytes, HeaderByte
<1> HIDE DEF first, second, third, delta, length, value
<1>5. /\ first \o second \o third \o value \in Seq(Int)
      /\ Len(first \o second \o third \o value)
           = Len(first) + Len(second) + Len(third) + Len(value)
  <2>1. first \in Seq(Int) /\ second \in Seq(Int) /\ third \in Seq(Int) /\ value \in Seq(Int)
    BY <1>0, <1>1, <1>2, <1>3
  <2> QED
    BY ONLY <2>1, FourParts
<1>6. Len(second) \in Nat /\ Len(third) \in Nat
  <2>1. second \in Seq(Int) /\ third \in Seq(Int)
    BY <1>1, <1>2
  <2> QED
    BY ONLY <2>1
<1>7. Len(option_bytes(o)) = 1 + Len(second) + Len(third) + length
  BY <1>0, <1>3, <1>4, <1>5
<1>8. Len(option_bytes(o)) \in Nat \ {0}
  <2>1. 1 + Len(second) + Len(third) + length \in Nat \ {0}
    BY <1>0, <1>6
  <2> QED
    BY <1>7, <2>1
<1>9. option_bytes(o) \in Seq(Int)
  BY <1>4, <1>5
<1> QED
  BY ONLY <1>1, <1>2, <1>3, <1>4, <1>6, <1>7, <1>8, <1>9 
     DEF first, second, third, delta, length, value, OptionParts

\* What option_bytes writes is read as the option it was written for.
LEMMA OptionRead ==
    ASSUME NEW b \in Seq(Int), NEW at \in Nat \ {0}, NEW number \in Int, NEW sign,
           NEW o \in OptionRecords, ReadableValue(o.value, sign),
           o.number = U8(number + o.delta), Holds(b, at, option_bytes(o))
    PROVE  /\ ~(b[at] \div 16 >= 15) /\ b[at] % 16 # 15
           /\ ReadOption(b, at, number, sign)
                = [option |-> o, next |-> at + Len(option_bytes(o))]
<1> DEFINE delta == o.delta
           value == o.value
           length == Len(o.value)
           first == HeaderByte(delta, length)
           second == Extension(delta)
           third == Extension(length)
<1>1. /\ delta \in Int /\ 0 <= delta /\ delta < 65536
      /\ value \in Seq(Int) /\ length \in Int /\ 0 <= length /\ length < 65536
      /\ o = [delta |-> delta, number |-> o.number, value |-> value]
  BY FieldsOfOption DEF ReadableValue
<1>2. /\ first \in Seq(Int) /\ Len(first) = 1
      /\ second \in Seq(Int) /\ Len(second) = HeaderLen(Nibble(delta))
      /\ third \in Seq(Int) /\ Len(third) = HeaderLen(Nibble(length))
      /\ Len(second) \in Nat /\ Len(third) \in Nat
      /\ Nibble(delta) \in 0..14 /\ Nibble(length) \in 0..14
      /\ option_bytes(o) = first \o second \o third \o value
      /\ Len(option_bytes(o)) = 1 + Len(second) + Len(third) + length
  <2>1. Len(o.value) < 65536
    BY DEF ReadableValue
  <2>2. OptionParts(o, delta, length, first, second, third)
    BY <2>1, OptionBytes
  <2> HIDE DEF delta, length, first, second, third
  <2> QED
    BY ONLY <2>2 DEF OptionParts, value
<1>3. first[1] = Nibble(delta) * 16 + Nibble(length)
  BY DEF HeaderByte
<1>4. length = Len(value)
  OBVIOUS
<1> HIDE DEF first, second, third, delta, value, length
<1>5. /\ Holds(b, at, first) /\ Holds(b, at + 1, second)
      /\ Holds(b, at + 1 + Len(second), third)
      /\ Holds(b, at + 1 + Len(second) + Len(third), value)
  <2>1. Holds(b, at, first \o second \o third \o value)
    BY <1>2
  <2>2. /\ Holds(b, at, first) /\ Holds(b, at + Len(first), second)
        /\ Holds(b, at + Len(first) + Len(second), third)
        /\ Holds(b, at + Len(first) + Len(second) + Len(third), value)
    <3>1. /\ first \in Seq(Int) /\ second \in Seq(Int) /\ third \in Seq(Int)
          /\ value \in Seq(Int) /\ b \in Seq(Int) /\ at \in Nat \ {0}
      BY <1>1, <1>2
    <3> QED
      BY ONLY <3>1, <2>1, HoldsFourParts
  <2> QED
    BY <2>2, <1>2
<1>6. b[at] = Nibble(delta) * 16 + Nibble(length)
  <2>1. b[at + 1 - 1] = first[1] /\ at + 1 - 1 = at
    BY <1>2, <1>5 DEF Holds
  <2> QED
    BY <2>1, <1>3
<1>7. b[at] \div 16 = Nibble(delta) /\ b[at] % 16 = Nibble(length)
  <2>1. Nibble(delta) \in 0..14 /\ Nibble(length) \in 0..14
    BY ONLY <1>2
  <2>2. Nibble(delta) \in Int /\ Nibble(length) \in 0..15
    BY ONLY <2>1
  <2> QED
    BY ONLY <2>2, <1>6, Nibbles
<1>8. Extended(b, at + 1, Nibble(delta), -1) = delta
  <2>1. at + 1 \in Nat \ {0}
    OBVIOUS
  <2>2. Holds(b, at + 1, Extension(delta))
    BY <1>5 DEF second
  <2> QED
    BY <2>1, <2>2, <1>1, ExtensionRead
<1>9. Extended(b, at + 1 + Len(second), Nibble(length), sign) = length
  <2>1. at + 1 + Len(second) \in Nat \ {0}
    BY <1>2
  <2>2. sign = -1 \/ (sign = 1 /\ length < 13)
    BY DEF ReadableValue, length
  <2>3. Holds(b, at + 1 + Len(second), Extension(length))
    BY <1>5 DEF third
  <2> QED
    BY <2>1, <2>2, <2>3, <1>1, ExtensionRead
<1>10. Slice(b, at + 1 + Len(second) + Len(third), length) = value
  <2>1. at + 1 + Len(second) + Len(third) \in Nat \ {0}
    <3>1. Len(second) \in Nat /\ Len(third) \in Nat
      BY ONLY <1>2
    <3> DEFINE x == Len(second)
               y == Len(third)
    <3>2. x \in Nat /\ y \in Nat
      BY <3>1
    <3> HIDE DEF x, y
    <3>3. at + 1 + x + y \in Nat \ {0}
      BY ONLY <3>2, at \in Nat \ {0}
    <3> QED
      BY <3>3 DEF x, y
  <2> QED
    BY <2>1, <1>1, <1>4, <1>5, HeldSlice
<1>11. ReadOption(b, at, number, sign)
        = OptionAt(b, number, Extended(b, at + 1, Nibble(delta), -1),
                   Extended(b, at + 1 + Len(second), Nibble(length), sign),
                   at + 1 + Len(second) + Len(third))
  BY <1>2, <1>7 DEF ReadOption
<1>12. ReadOption(b, at, number, sign)
        = [option |-> [delta |-> delta, number |-> U8(number + delta), value |-> value],
           next |-> at + 1 + Len(second) + Len(third) + length]
  BY <1>8, <1>9, <1>10, <1>11 DEF OptionAt
<1>13. at + 1 + Len(second) + Len(third) + length = at + Len(option_bytes(o))
  <2>1. /\ Len(second) \in Nat /\ Len(third) \in Nat /\ length \in Int /\ at \in Nat
        /\ Len(option_bytes(o)) = 1 + Len(second) + Len(third) + length
    BY <1>1, <1>2
  <2> QED
    BY ONLY <2>1
<1>14. [delta |-> delta, number |-> U8(number + delta), value |-> value] = o
  <2>1. U8(number + delta) = o.number
    BY DEF delta
  <2>2. delta = o.delta /\ value = o.value
    BY DEF delta, value
  <2>3. o = [delta |-> o.delta, number |-> o.number, value |-> o.value]
    BY FieldsOfOption
  <2> QED
    BY ONLY <2>1, <2>2, <2>3
<1>15. ~(b[at] \div 16 >= 15) /\ b[at] % 16 # 15
  <2>1. Nibble(delta) \in 0..14 /\ Nibble(length) \in 0..14
    BY <1>2
  <2> QED
    BY <2>1, <1>7, NotReserved
<1> QED
  BY <1>12, <1>13, <1>14, <1>15

-----------------------------------------------------------------------------
\* The loop that writes options.

\* Options a writer can write and a reader with the given sign can read.
Readable(options, sign) ==
    /\ options \in Seq(OptionRecords)
    /\ \A i \in 1..Len(options) : ReadableValue(options[i].value, sign)

\* What the loops need to know of their options.
Writable(options) ==
    /\ Len(options) \in Nat
    /\ \A i \in 1..Len(options) :
           option_bytes(options[i]) \in Seq(Int) /\ Len(option_bytes(options[i])) \in Nat \ {0}

LEMMA ReadableIsWritable ==
    ASSUME NEW options, NEW sign, Readable(options, sign)
    PROVE  Writable(options)
<1>1. Len(options) \in Nat
  BY DEF Readable
<1>2. ASSUME NEW i \in 1..Len(options)
      PROVE  option_bytes(options[i]) \in Seq(Int) /\ Len(option_bytes(options[i])) \in Nat \ {0}
  <2>1. options[i] \in OptionRecords
    BY DEF Readable
  <2>2. Len(options[i].value) < 65536
    BY DEF Readable, ReadableValue
  <2>3. OptionParts(options[i], options[i].delta, Len(options[i].value),
                    HeaderByte(options[i].delta, Len(options[i].value)),
                    Extension(options[i].delta), Extension(Len(options[i].value)))
    BY <2>1, <2>2, OptionBytes
  <2> QED
    BY <2>3 DEF OptionParts
<1> QED
  BY <1>1, <1>2 DEF Writable

LEMMA WrittenLoop ==
    ASSUME NEW options, Writable(options)
    PROVE  /\ OptionsWritten(options) \in [0..Len(options) -> Seq(Int)]
           /\ OptionsWritten(options)[0] = <<>>
           /\ \A i \in 1..Len(options) :
                  OptionsWritten(options)[i] = OptionsWritten(options)[i - 1] \o option_bytes(options[i])
<1> DEFINE n == Len(options)
           step == [i \in 1..n |-> [v \in Seq(Int) |-> v \o option_bytes(options[i])]]
<1>1. n \in Nat
  BY DEF Writable
<1>2. \A i \in 1..n : option_bytes(options[i]) \in Seq(Int)
  BY DEF Writable
<1> HIDE DEF n
<1>3. step \in [1..n -> [Seq(Int) -> Seq(Int)]]
  BY <1>2
<1>4. PICK f \in [0..n -> Seq(Int)] : f[0] = <<>> /\ \A i \in 1..n : f[i] = step[i][f[i - 1]]
  <2> DEFINE S == Seq(Int)
             s0 == <<>>
  <2>1. s0 \in S
    OBVIOUS
  <2>2. step \in [1..n -> [S -> S]]
    BY <1>3
  <2> HIDE DEF step, S, s0
  <2>3. \E f : IsLoop(f, n, S, s0, step)
    BY <1>1, <2>1, <2>2, Loop
  <2> QED
    BY <2>3 DEF IsLoop, S, s0
<1>5. f = [i \in 0..n |-> IF i = 0 THEN <<>> ELSE f[i - 1] \o option_bytes(options[i])]
  <2>1. ASSUME NEW i \in 1..n PROVE f[i] = f[i - 1] \o option_bytes(options[i])
    <3>1. f[i - 1] \in Seq(Int)
      BY <1>1
    <3> QED
      BY <3>1, <1>4
  <2>2. f = [i \in 0..n |-> f[i]]
    OBVIOUS
  <2>3. \A i \in 0..n : f[i] = IF i = 0 THEN <<>> ELSE f[i - 1] \o option_bytes(options[i])
    <3> TAKE i \in 0..n
    <3>1. i = 0 \/ i \in 1..n
      BY <1>1
    <3> QED
      BY <1>4, <2>1, <3>1
  <2> HIDE DEF step
  <2> QED
    BY <2>2, <2>3
<1> DEFINE w == OptionsWritten(options)
<1>6. w = [i \in 0..n |-> IF i = 0 THEN <<>> ELSE w[i - 1] \o option_bytes(options[i])]
  BY <1>5 DEF OptionsWritten, n
<1> HIDE DEF w, step
<1>7. w[0] = <<>> /\ \A i \in 1..n : w[i] = w[i - 1] \o option_bytes(options[i])
  BY <1>1, <1>6
<1>8. \A i \in 0..n : w[i] \in Seq(Int)
  <2> DEFINE S == { i \in Nat : i <= n => w[i] \in Seq(Int) }
  <2>1. 0 \in S
    <3>1. w[0] = <<>>
      BY <1>7
    <3>2. <<>> \in Seq(Int)
      OBVIOUS
    <3> QED
      BY ONLY <3>1, <3>2
  <2>2. ASSUME NEW i \in Nat, i \in S PROVE i + 1 \in S
    <3> SUFFICES ASSUME i + 1 <= n PROVE w[i + 1] \in Seq(Int)
      OBVIOUS
    <3>1. w[i] \in Seq(Int)
      BY <1>1, <2>2
    <3>2. PICK k \in 1..n : k = i + 1
      BY <1>1
    <3>3. w[k] = w[k - 1] \o option_bytes(options[k])
      BY <1>7
    <3>4. option_bytes(options[k]) \in Seq(Int)
      BY <1>2
    <3>5. k - 1 = i
      BY <3>2
    <3> QED
      BY <3>1, <3>2, <3>3, <3>4, <3>5
  <2> HIDE DEF S
  <2>3. Nat \subseteq S
    BY <2>1, <2>2, Induction
  <2> QED
    BY <2>3, <1>1 DEF S
<1>9. w \in [0..n -> Seq(Int)]
  <2>1. w = [i \in 0..n |-> w[i]]
    BY <1>6
  <2> QED
    BY <2>1, <1>8
<1> QED
  BY <1>7, <1>9 DEF w, n

\* A buffer that holds all options holds each behind those before it.
LEMMA HoldsOptions ==
    ASSUME NEW options, Writable(options), NEW b \in Seq(Int), NEW at \in Nat \ {0},
           Holds(b, at, options_into_byte_string(options))
    PROVE  \A k \in 1..Len(options) :
               /\ Holds(b, at + Len(OptionsWritten(options)[k - 1]), option_bytes(options[k]))
               /\ Len(OptionsWritten(options)[k - 1]) + Len(option_bytes(options[k]))
                    <= Len(options_into_byte_string(options))
<1> DEFINE n == Len(options)
           w == OptionsWritten(options)
           Done(k) == Holds(b, at, w[k]) /\ Len(w[k]) <= Len(w[n])
           S == { i \in Nat : i <= n => Done(n - i) }
<1>1. n \in Nat
  BY DEF Writable
<1>2. /\ \A k \in 0..n : w[k] \in Seq(Int)
      /\ \A k \in 1..n : w[k] = w[k - 1] \o option_bytes(options[k])
  BY WrittenLoop
<1>3. \A k \in 1..n : option_bytes(options[k]) \in Seq(Int)
  BY DEF Writable
<1> HIDE DEF n, w
<1>4. ASSUME NEW k \in 1..n, Done(k)
      PROVE  /\ Done(k - 1)
             /\ Holds(b, at + Len(w[k - 1]), option_bytes(options[k]))
             /\ Len(w[k - 1]) + Len(option_bytes(options[k])) <= Len(w[n])
  <2>1. w[k - 1] \in Seq(Int) /\ option_bytes(options[k]) \in Seq(Int) /\ w[n] \in Seq(Int)
    BY <1>1, <1>2, <1>3
  <2>2. w[k] = w[k - 1] \o option_bytes(options[k])
    BY <1>2
  <2>3. Holds(b, at, w[k - 1] \o option_bytes(options[k]))
    BY <1>4, <2>2
  <2>4. Holds(b, at, w[k - 1]) /\ Holds(b, at + Len(w[k - 1]), option_bytes(options[k]))
    BY <2>1, <2>3, HoldsParts
  <2>5. Len(w[k]) = Len(w[k - 1]) + Len(option_bytes(options[k]))
    BY <2>1, <2>2
  <2>6. Len(w[k - 1]) \in Nat /\ Len(option_bytes(options[k])) \in Nat /\ Len(w[n]) \in Nat
    BY <2>1
  <2>7. Len(w[k - 1]) + Len(option_bytes(options[k])) <= Len(w[n])
    BY <1>4, <2>5
  <2>8. Len(w[k - 1]) <= Len(w[n])
    BY <2>6, <2>7, LessThanSum
  <2> QED
    BY <2>4, <2>7, <2>8
<1>5. 0 \in S
  <2>1. Holds(b, at, w[n])
    BY DEF options_into_byte_string, n, w
  <2>2. Len(w[n]) \in Nat
    BY <1>1, <1>2
  <2>3. n - 0 = n
    BY <1>1
  <2> QED
    BY <2>1, <2>2, <2>3
<1> HIDE DEF Done
<1>6. ASSUME NEW i \in Nat, i \in S PROVE i + 1 \in S
  <2> SUFFICES ASSUME i + 1 <= n PROVE Done(n - (i + 1))
    OBVIOUS
  <2>1. n - i \in 1..n /\ n - i - 1 = n - (i + 1) /\ i <= n
    BY <1>1
  <2>2. Done(n - i)
    BY <1>6, <2>1
  <2> QED
    BY <1>4, <2>1, <2>2
<1>7. Nat \subseteq S
  <2> HIDE DEF S
  <2> QED
    BY <1>5, <1>6, Induction
<1>8. ASSUME NEW k \in 1..n PROVE Done(k)
  <2>1. n - k \in Nat /\ n - k <= n /\ n - (n - k) = k
    BY <1>1
  <2>2. n - k \in S
    BY <1>7, <2>1
  <2> QED
    BY <2>1, <2>2
<1>9. \A k \in 1..n :
          /\ Holds(b, at + Len(w[k - 1]), option_bytes(options[k]))
          /\ Len(w[k - 1]) + Len(option_bytes(options[k])) <= Len(w[n])
  BY <1>4, <1>8
<1> QED
  BY <1>9 DEF n, w, options_into_byte_string

-----------------------------------------------------------------------------
\* The loop that reads options.  Its states are of no set, so it is not an
\* instance of Loop: what it reads in a buffer need not be what was written.

ReaderAt(at, number, options) ==
    [r |-> "OscoreNoError", at |-> at, number |-> number, options |-> options]

ReadStart(at) == ReaderAt(at, 0, <<>>)

ReadTurns(f, m, b, at, end, sign) ==
    /\ f = [i \in 0..m |-> f[i]]
    /\ f[0] = ReadStart(at)
    /\ \A i \in 1..m : f[i] = NextOption(b, end, sign, f[i - 1])

LEMMA ReadLoop ==
    ASSUME NEW b \in Seq(Int), NEW at, NEW end, NEW sign
    PROVE  ReadTurns(OptionsRead(b, at, end, sign), Len(b), b, at, end, sign)
<1> DEFINE n == Len(b)
           Reached == { m \in Nat : \E f : ReadTurns(f, m, b, at, end, sign) }
<1>1. n \in Nat
  OBVIOUS
<1>2. 0 \in Reached
  <2> DEFINE f == [i \in 0..0 |-> ReadStart(at)]
  <2>1. f = [i \in 0..0 |-> f[i]] /\ f[0] = ReadStart(at)
    OBVIOUS
  <2>2. ReadTurns(f, 0, b, at, end, sign)
    BY <2>1 DEF ReadTurns
  <2> QED
    BY <2>2
<1>3. ASSUME NEW m \in Nat, m \in Reached PROVE m + 1 \in Reached
  <2>1. PICK g : ReadTurns(g, m, b, at, end, sign)
    BY <1>3
  <2> DEFINE f == [i \in 0..m + 1 |-> IF i = m + 1 THEN NextOption(b, end, sign, g[m]) ELSE g[i]]
  <2>2. f = [i \in 0..m + 1 |-> f[i]]
    OBVIOUS
  <2>3. f[m + 1] = NextOption(b, end, sign, g[m]) /\ \A i \in 0..m : f[i] = g[i]
    OBVIOUS
  <2> HIDE DEF f
  <2>4. f[0] = ReadStart(at)
    BY <2>1, <2>3 DEF ReadTurns
  <2>5. \A i \in 1..m + 1 : f[i] = NextOption(b, end, sign, f[i - 1])
    <3> TAKE i \in 1..m + 1
    <3>1. CASE i = m + 1
      <4>1. i - 1 = m /\ m \in 0..m
        BY <3>1
      <4> QED
        BY <3>1, <4>1, <2>3
    <3>2. CASE i \in 1..m
      <4>1. i - 1 \in 0..m /\ i \in 0..m
        BY <3>2
      <4>2. g[i] = NextOption(b, end, sign, g[i - 1])
        BY <2>1, <3>2 DEF ReadTurns
      <4> QED
        BY <4>1, <4>2, <2>3
    <3> QED
      BY <3>1, <3>2
  <2>6. ReadTurns(f, m + 1, b, at, end, sign)
    BY <2>2, <2>4, <2>5 DEF ReadTurns
  <2> QED
    BY <2>6
<1>4. n \in Reached
  <2> HIDE DEF Reached
  <2> QED
    BY <1>1, <1>2, <1>3, Induction
<1>5. PICK f : ReadTurns(f, n, b, at, end, sign)
  BY <1>4
<1> HIDE DEF n
<1>6. f = [i \in 0..n |-> IF i = 0 THEN ReadStart(at) ELSE NextOption(b, end, sign, f[i - 1])]
  <2>1. f = [i \in 0..n |-> f[i]]
    BY <1>5 DEF ReadTurns
  <2>2. \A i \in 0..n : f[i] = IF i = 0 THEN ReadStart(at) ELSE NextOption(b, end, sign, f[i - 1])
    <3> TAKE i \in 0..n
    <3>1. i = 0 \/ i \in 1..n
      BY <1>1
    <3> QED
      BY <1>5, <3>1 DEF ReadTurns
  <2> QED
    BY <2>1, <2>2
<1> DEFINE read == OptionsRead(b, at, end, sign)
<1>7. read = [i \in 0..n |-> IF i = 0 THEN ReadStart(at) ELSE NextOption(b, end, sign, read[i - 1])]
  BY <1>6 DEF OptionsRead, n, ReadStart, ReaderAt
<1> HIDE DEF read
<1>8. read[0] = ReadStart(at) /\ \A i \in 1..n : read[i] = NextOption(b, end, sign, read[i - 1])
  BY <1>1, <1>7
<1>9. read = [i \in 0..n |-> read[i]]
  BY <1>7
<1> QED
  BY <1>8, <1>9 DEF ReadTurns, read, n

-----------------------------------------------------------------------------
\* Reading what was written.

NumberAfter(options, k) == IF k = 0 THEN 0 ELSE options[k].number

\* The numbers are the running sums of the deltas.
Chained(options) ==
    \A k \in 1..Len(options) :
        options[k].number = U8(NumberAfter(options, k - 1) + options[k].delta)

\* The reader after its first k turns.
ReadUpTo(options, k, at) ==
    ReaderAt(at + Len(OptionsWritten(options)[k]), NumberAfter(options, k), SubSeq(options, 1, k))

LEMMA TurnTaken ==
    ASSUME NEW b, NEW end, NEW sign, NEW at, NEW number, NEW options,
           ~(at >= end), ~(b[at] \div 16 >= 15), b[at] % 16 # 15
    PROVE  LET first == ReadOption(b, at, number, sign)
           IN  NextOption(b, end, sign, ReaderAt(at, number, options))
                 = ReaderAt(first.next, first.option.number, Append(options, first.option))
<1> DEFINE s == ReaderAt(at, number, options)
<1>1. s.r = "OscoreNoError" /\ s.at = at /\ s.number = number /\ s.options = options
  BY DEF ReaderAt
<1> HIDE DEF s
<1> QED
  BY <1>1 DEF NextOption, ReaderAt, s

LEMMA TurnReads ==
    ASSUME NEW options, NEW b \in Seq(Int), NEW at \in Nat \ {0}, NEW sign,
           Readable(options, sign), Chained(options),
           Holds(b, at, options_into_byte_string(options)), NEW k \in 1..Len(options),
           NEW end \in Int, at + Len(OptionsWritten(options)[k - 1]) < end
    PROVE  NextOption(b, end, sign, ReadUpTo(options, k - 1, at)) = ReadUpTo(options, k, at)
<1> DEFINE o == options[k]
           before == OptionsWritten(options)[k - 1]
           here == at + Len(before)
           number == NumberAfter(options, k - 1)
           s == ReadUpTo(options, k - 1, at)
<1>1. Len(options) \in Nat /\ options \in Seq(OptionRecords)
  BY DEF Readable
<1>2. o \in OptionRecords /\ ReadableValue(o.value, sign)
  BY <1>1 DEF Readable
<1>3. Writable(options)
  BY ReadableIsWritable
<1>4. /\ before \in Seq(Int)
      /\ OptionsWritten(options)[k] = before \o option_bytes(o)
  <2>1. k - 1 \in 0..Len(options)
    BY <1>1
  <2> QED
    BY <1>3, <2>1, WrittenLoop
<1>5. option_bytes(o) \in Seq(Int) /\ Len(option_bytes(o)) \in Nat \ {0}
  BY <1>3 DEF Writable
<1>6. Holds(b, here, option_bytes(o))
  BY <1>3, HoldsOptions
<1>7. number \in Int
  <2>1. k - 1 = 0 \/ k - 1 \in 1..Len(options)
    BY <1>1
  <2>2. CASE k - 1 \in 1..Len(options)
    <3>1. options[k - 1] \in OptionRecords
      BY <1>1, <2>2
    <3>2. options[k - 1].number \in Octets
      BY <3>1 DEF OptionRecords
    <3>3. k - 1 # 0
      BY <2>2
    <3>4. options[k - 1].number \in Int
      BY <3>2, OctetBounds
    <3> QED
      BY <3>3, <3>4 DEF NumberAfter
  <2> QED
    BY <2>1, <2>2 DEF NumberAfter
<1>8. o.number = U8(number + o.delta)
  BY DEF Chained
<1>9. here \in Nat \ {0}
  BY <1>4
<1> HIDE DEF o, before, number
<1>10. /\ ~(b[here] \div 16 >= 15) /\ b[here] % 16 # 15
       /\ ReadOption(b, here, number, sign) = [option |-> o, next |-> here + Len(option_bytes(o))]
  <2> HIDE DEF here
  <2> QED
    BY <1>2, <1>6, <1>7, <1>8, <1>9, OptionRead
<1>11. end \in Int /\ here < end
  BY DEF here, before
<1>12. s = ReaderAt(here, number, SubSeq(options, 1, k - 1))
  BY DEF ReadUpTo, before, number
<1> HIDE DEF here, s
<1>13. NextOption(b, end, sign, s)
         = ReaderAt(here + Len(option_bytes(o)), o.number, Append(SubSeq(options, 1, k - 1), o))
  <2>1. ~(here >= end)
    BY <1>9, <1>11
  <2> DEFINE first == ReadOption(b, here, number, sign)
  <2>2. NextOption(b, end, sign, ReaderAt(here, number, SubSeq(options, 1, k - 1)))
          = ReaderAt(first.next, first.option.number,
                     Append(SubSeq(options, 1, k - 1), first.option))
    <3> DEFINE taken == SubSeq(options, 1, k - 1)
    <3>1. ~(here >= end) /\ ~(b[here] \div 16 >= 15) /\ b[here] % 16 # 15
      BY <1>10, <2>1
    <3> HIDE DEF taken, first
    <3> QED
      BY ONLY <3>1, TurnTaken DEF first, taken
  <2>3. first.option = o /\ first.next = here + Len(option_bytes(o))
    BY <1>10
  <2> HIDE DEF first
  <2> QED
    BY <1>12, <2>2, <2>3
<1>14. Append(SubSeq(options, 1, k - 1), o) = SubSeq(options, 1, k)
  BY <1>1 DEF o
<1>15. here + Len(option_bytes(o)) = at + Len(OptionsWritten(options)[k])
  BY <1>4, <1>5 DEF here
<1>16. o.number = NumberAfter(options, k)
  BY DEF NumberAfter, o
<1> QED
  BY <1>13, <1>14, <1>15, <1>16 DEF ReadUpTo, s

LEMMA WrittenLength ==
    ASSUME NEW options, Writable(options)
    PROVE  \A k \in 0..Len(options) : k <= Len(OptionsWritten(options)[k])
<1> DEFINE n == Len(options)
           w == OptionsWritten(options)
           S == { k \in Nat : k <= n => k <= Len(w[k]) }
<1>1. n \in Nat
  BY DEF Writable
<1>2. /\ \A k \in 0..n : w[k] \in Seq(Int)
      /\ w[0] = <<>>
      /\ \A k \in 1..n : w[k] = w[k - 1] \o option_bytes(options[k])
  BY WrittenLoop
<1>3. \A k \in 1..n : option_bytes(options[k]) \in Seq(Int) /\ Len(option_bytes(options[k])) \in Nat \ {0}
  BY DEF Writable
<1> HIDE DEF n, w
<1>4. 0 \in S
  BY <1>2
<1>5. ASSUME NEW i \in Nat, i \in S PROVE i + 1 \in S
  <2> SUFFICES ASSUME i + 1 <= n PROVE i + 1 <= Len(w[i + 1])
    OBVIOUS
  <2>1. PICK k \in 1..n : k = i + 1
    BY <1>1
  <2>2. k - 1 = i
    BY <2>1
  <2>3. w[k] = w[i] \o option_bytes(options[k])
    <3>1. w[k] = w[k - 1] \o option_bytes(options[k])
      BY <1>2
    <3> QED
      BY <2>2, <3>1
  <2>4. w[i] \in Seq(Int) /\ i <= Len(w[i])
    BY <1>1, <1>2, <1>5
  <2>5. option_bytes(options[k]) \in Seq(Int) /\ Len(option_bytes(options[k])) \in Nat \ {0}
    BY <1>3
  <2>6. Len(w[k]) = Len(w[i]) + Len(option_bytes(options[k])) /\ Len(w[i]) \in Nat
    BY <2>3, <2>4, <2>5
  <2>7. i + 1 <= Len(w[k])
    BY <2>4, <2>5, <2>6, OneLonger
  <2> QED
    BY <2>1, <2>7
<1>6. Nat \subseteq S
  <2> HIDE DEF S
  <2> QED
    BY <1>4, <1>5, Induction
<1> QED
  BY <1>1, <1>6 DEF n, w

\* Every option starts in front of the place where the options end.
LEMMA StartsBeforeEnd ==
    ASSUME NEW options, Writable(options), NEW b \in Seq(Int), NEW at \in Nat \ {0},
           Holds(b, at, options_into_byte_string(options)), NEW k \in 1..Len(options)
    PROVE  LET end == at + Len(options_into_byte_string(options))
           IN  end \in Int /\ at + Len(OptionsWritten(options)[k - 1]) < end
<1> DEFINE before == OptionsWritten(options)[k - 1]
           bytes == options_into_byte_string(options)
           o == option_bytes(options[k])
<1>1. Len(options) \in Nat /\ o \in Seq(Int) /\ Len(o) \in Nat \ {0}
  BY DEF Writable
<1>2. before \in Seq(Int) /\ bytes \in Seq(Int)
  <2>1. k - 1 \in 0..Len(options) /\ Len(options) \in 0..Len(options)
    BY <1>1
  <2> QED
    BY <2>1, WrittenLoop DEF options_into_byte_string
<1>3. Len(before) + Len(o) <= Len(bytes)
  BY HoldsOptions
<1> HIDE DEF before, bytes, o
<1>4. Len(before) \in Nat /\ Len(bytes) \in Nat
  BY <1>2
<1>5. at + Len(bytes) \in Int /\ at + Len(before) < at + Len(bytes)
  BY <1>1, <1>3, <1>4
<1> QED
  BY <1>5 DEF before, bytes

\* The reader that is to stop behind the start of the last option has read
\* this one to its end, wherever it is to stop within it.
LEMMA OptionsReadTo ==
    ASSUME NEW options, NEW b \in Seq(Int), NEW at \in Nat \ {0}, NEW sign,
           Readable(options, sign), Chained(options),
           Holds(b, at, options_into_byte_string(options)),
           NEW stop \in Int, stop <= at + Len(options_into_byte_string(options)),
           \A k \in 1..Len(options) : at + Len(OptionsWritten(options)[k - 1]) < stop
    PROVE  ReadOptions(b, at, stop, sign)
             = ReaderAt(at + Len(options_into_byte_string(options)),
                        NumberAfter(options, Len(options)), options)
<1> DEFINE n == Len(options)
           m == Len(b)
           bytes == options_into_byte_string(options)
           end == at + Len(bytes)
           read == OptionsRead(b, at, stop, sign)
           last == ReadUpTo(options, n, at)
           S == { i \in Nat : i <= n => read[i] = ReadUpTo(options, i, at) }
           T == { i \in Nat : n + i <= m => read[n + i] = last }
<1>1. n \in Nat /\ options \in Seq(OptionRecords) /\ Writable(options)
  <2>1. options \in Seq(OptionRecords)
    BY DEF Readable
  <2>2. Writable(options)
    BY ReadableIsWritable
  <2>3. n \in Nat
    BY <2>1
  <2> QED
    BY <2>1, <2>2, <2>3
<1>2. OptionsWritten(options)[0] = <<>> /\ bytes = OptionsWritten(options)[n] /\ bytes \in Seq(Int)
  <2>1. n \in 0..n
    BY <1>1
  <2> QED
    BY <1>1, <2>1, WrittenLoop DEF options_into_byte_string
<1>3. m \in Nat /\ end \in Nat /\ n <= m
  <2>1. n <= Len(bytes)
    <3>1. n \in 0..n
      BY <1>1
    <3> QED
      BY <1>1, <1>2, <3>1, WrittenLength
  <2>2. at + Len(bytes) - 1 <= m
    BY DEF Holds
  <2>3. m \in Nat /\ Len(bytes) \in Nat
    BY <1>2
  <2> QED
    BY <1>1, <2>1, <2>2, <2>3
<1>4. /\ read[0] = ReadStart(at)
      /\ \A i \in 1..m : read[i] = NextOption(b, stop, sign, read[i - 1])
  BY ReadLoop DEF ReadTurns
<1>5. ASSUME NEW k \in 1..n
      PROVE  NextOption(b, stop, sign, ReadUpTo(options, k - 1, at)) = ReadUpTo(options, k, at)
  BY TurnReads
<1>6. NextOption(b, stop, sign, last) = last /\ last = ReaderAt(end, NumberAfter(options, n), options)
  <2>1. SubSeq(options, 1, n) = options
    BY <1>1
  <2>2. last = ReaderAt(end, NumberAfter(options, n), options)
    BY <1>2, <2>1 DEF ReadUpTo
  <2>3. last.at = end
    BY <2>2 DEF ReaderAt
  <2>4. last.at >= stop
    BY <1>3, <2>3
  <2> HIDE DEF last
  <2>5. NextOption(b, stop, sign, last) = last
    BY <2>4 DEF NextOption
  <2> QED
    BY <2>2, <2>5
<1> HIDE DEF n, m, bytes, end, read, last
<1>7. 0 \in S
  <2>1. ReadUpTo(options, 0, at) = ReadStart(at)
    <3>1. at + Len(OptionsWritten(options)[0]) = at
      BY <1>2
    <3>2. SubSeq(options, 1, 0) = <<>>
      BY <1>1
    <3> QED
      BY <3>1, <3>2 DEF ReadUpTo, ReadStart, NumberAfter
  <2> QED
    BY <1>4, <2>1
<1>8. ASSUME NEW i \in Nat, i \in S PROVE i + 1 \in S
  <2> SUFFICES ASSUME i + 1 <= n PROVE read[i + 1] = ReadUpTo(options, i + 1, at)
    OBVIOUS
  <2>1. PICK k \in 1..n : k = i + 1
    BY <1>1
  <2>2. k - 1 = i /\ k \in 1..m
    BY <1>3, <2>1, <1>1
  <2>3. read[i] = ReadUpTo(options, i, at)
    BY <1>1, <1>8
  <2>4. read[k] = NextOption(b, stop, sign, read[k - 1])
    BY <1>4, <2>2
  <2>5. NextOption(b, stop, sign, ReadUpTo(options, k - 1, at)) = ReadUpTo(options, k, at)
    BY <1>5
  <2> QED
    BY <2>1, <2>2, <2>3, <2>4, <2>5
<1>9. Nat \subseteq S
  <2> HIDE DEF S
  <2> QED
    BY <1>7, <1>8, Induction
<1>10. read[n] = last
  BY <1>1, <1>9 DEF last
<1>11. 0 \in T
  <2>1. n + 0 = n
    BY <1>1
  <2> QED
    BY <1>10, <2>1
<1>12. ASSUME NEW i \in Nat, i \in T PROVE i + 1 \in T
  <2> SUFFICES ASSUME n + (i + 1) <= m PROVE read[n + (i + 1)] = last
    OBVIOUS
  <2>1. PICK k \in 1..m : k = n + (i + 1)
    BY <1>1, <1>3
  <2>2. k - 1 = n + i /\ n + i <= m
    BY <1>1, <1>3, <2>1
  <2>3. read[n + i] = last
    BY <1>12, <2>2
  <2>4. read[k] = NextOption(b, stop, sign, read[k - 1])
    BY <1>4
  <2> QED
    BY <1>6, <2>1, <2>2, <2>3, <2>4
<1>13. Nat \subseteq T
  <2> HIDE DEF T
  <2> QED
    BY <1>11, <1>12, Induction
<1>14. read[m] = last
  <2>1. m - n \in Nat /\ n + (m - n) = m /\ n + (m - n) <= m
    BY <1>1, <1>3
  <2>2. m - n \in T
    BY <1>13, <2>1
  <2> QED
    BY <2>1, <2>2
<1> QED
  BY <1>6, <1>14 DEF ReadOptions, read, m, end, bytes, n

\* The reader that stops where the written options end has read just these.
THEOREM OptionsReadBack ==
    ASSUME NEW options, NEW b \in Seq(Int), NEW at \in Nat \ {0}, NEW sign,
           Readable(options, sign), Chained(options),
           Holds(b, at, options_into_byte_string(options))
    PROVE  LET end == at + Len(options_into_byte_string(options))
           IN  ReadOptions(b, at, end, sign) = ReaderAt(end, NumberAfter(options, Len(options)), options)
<1> DEFINE end == at + Len(options_into_byte_string(options))
<1>1. Writable(options)
  BY ReadableIsWritable
<1>2. end \in Int
  <2>1. Len(options) \in 0..Len(options)
    BY <1>1 DEF Writable
  <2>2. options_into_byte_string(options) \in Seq(Int)
    BY <1>1, <2>1, WrittenLoop DEF options_into_byte_string
  <2> QED
    BY <2>2
<1>3. \A k \in 1..Len(options) : at + Len(OptionsWritten(options)[k - 1]) < end
  BY <1>1, StartsBeforeEnd
<1>4. end <= end
  BY <1>2
<1> HIDE DEF end
<1>5. end <= at + Len(options_into_byte_string(options))
  BY <1>4 DEF end
<1>6. ReadOptions(b, at, end, sign)
        = ReaderAt(at + Len(options_into_byte_string(options)),
                   NumberAfter(options, Len(options)), options)
  BY <1>2, <1>3, <1>5, OptionsReadTo
<1> QED
  BY <1>6 DEF end

-----------------------------------------------------------------------------
\* Options and payload together.

NoMarker(bytes) == \A i \in 1..Len(bytes) : bytes[i] # Marker

\* b ends, from cell at on, with the payload behind its marker.
EndsWithPayload(b, at, payload) ==
    IF payload = <<>> THEN Len(b) = at - 1
    ELSE /\ Len(b) = at + Len(payload)
         /\ b[at] = Marker
         /\ Holds(b, at + 1, payload)

LEMMA FirstMarker ==
    ASSUME NEW b \in Seq(Int), NEW at \in Nat \ {0}, NEW bytes \in Seq(Int),
           NEW payload \in Seq(Int), Holds(b, at, bytes), NoMarker(bytes),
           EndsWithPayload(b, at + Len(bytes), payload)
    PROVE  OptionsEnd(b, at) = at + Len(bytes)
<1> DEFINE stop == at + Len(bytes)
<1>1. stop \in Nat /\ at <= stop /\ Len(b) \in Nat /\ Len(payload) \in Nat
  OBVIOUS
<1>2. ASSUME NEW i \in at..stop - 1 PROVE b[i] # Marker
  <2>1. PICK j \in 1..Len(bytes) : i = at + j - 1
    <3>1. i - at + 1 \in 1..Len(bytes) /\ i = at + (i - at + 1) - 1
      BY <1>1
    <3> QED
      BY <3>1
  <2>2. b[at + j - 1] = bytes[j]
    BY DEF Holds
  <2> QED
    BY <2>1, <2>2 DEF NoMarker
<1> HIDE DEF stop
<1>3. CASE payload = <<>>
  <2>1. Len(b) = stop - 1
    BY <1>3 DEF EndsWithPayload, stop
  <2>2. Markers(b, at) = {}
    BY <1>2, <2>1 DEF Markers
  <2> QED
    BY <1>1, <2>1, <2>2 DEF OptionsEnd, stop
<1>4. CASE payload # <<>>
  <2>1. Len(b) = stop + Len(payload) /\ b[stop] = Marker
    BY <1>4 DEF EndsWithPayload, stop
  <2>2. stop \in Markers(b, at)
    BY <1>1, <2>1 DEF Markers
  <2>3. ASSUME NEW j \in Markers(b, at) PROVE j \in Int /\ stop <= j
    <3>1. j \in at..Len(b) /\ b[j] = Marker
      BY DEF Markers
    <3> QED
      BY <1>1, <1>2, <3>1
  <2>4. ASSUME NEW i \in Markers(b, at), \A j \in Markers(b, at) : i <= j PROVE i = stop
    <3>1. i \in Int /\ stop <= i /\ i <= stop
      BY <2>2, <2>3, <2>4
    <3> QED
      BY <1>1, <3>1
  <2>5. Markers(b, at) # {} /\ \E i \in Markers(b, at) : \A j \in Markers(b, at) : i <= j
    BY <2>2, <2>3
  <2> QED
    BY <2>4, <2>5 DEF OptionsEnd, stop
<1> QED
  BY <1>3, <1>4

\* Options and payload are read as they were written, in the plaintext (sign
\* -1) with values of up to 65535 bytes, in a packet (sign 1) with values of
\* up to 12, unless a byte of the options is the marker.
THEOREM BodyIsRead ==
    ASSUME NEW options, NEW payload \in Seq(Int), NEW sign, NEW b \in Seq(Int),
           NEW at \in Nat \ {0}, Readable(options, sign), Chained(options),
           Holds(b, at, options_into_byte_string(options)),
           NoMarker(options_into_byte_string(options)),
           EndsWithPayload(b, at + Len(options_into_byte_string(options)), payload)
    PROVE  ReadBody(b, at, sign)
             = [r |-> "OscoreNoError", options |-> options, payload |-> payload]
<1> DEFINE bytes == options_into_byte_string(options)
           stop == at + Len(bytes)
           read == ReadOptions(b, at, stop, sign)
<1>1. bytes \in Seq(Int)
  <2>1. Writable(options)
    BY ReadableIsWritable
  <2>2. Len(options) \in 0..Len(options)
    BY <2>1 DEF Writable
  <2> QED
    BY <2>1, <2>2, WrittenLoop DEF options_into_byte_string
<1>2. read = ReaderAt(stop, NumberAfter(options, Len(options)), options)
  BY OptionsReadBack
<1> HIDE DEF bytes
<1>3. OptionsEnd(b, at) = stop
  BY <1>1, FirstMarker DEF bytes
<1>4. stop \in Nat \ {0} /\ Len(payload) \in Nat
  BY <1>1
<1>5. SubSeq(b, stop + 1, Len(b)) = payload
  <2> HIDE DEF stop
  <2>1. EndsWithPayload(b, stop, payload)
    BY DEF stop, bytes
  <2>2. CASE payload = <<>>
    <3>1. Len(b) = stop - 1
      BY <2>1, <2>2 DEF EndsWithPayload
    <3> QED
      BY <1>4, <2>2, <3>1
  <2>3. CASE payload # <<>>
    <3>1. Len(b) = stop + Len(payload) /\ Holds(b, stop + 1, payload)
      BY <2>1, <2>3 DEF EndsWithPayload
    <3>2. stop + 1 \in Nat \ {0} /\ Len(b) = (stop + 1) + Len(payload) - 1
      BY <1>4, <3>1
    <3> QED
      BY <3>1, <3>2, HeldRest
  <2> QED
    BY <2>2, <2>3
<1>6. read.r = "OscoreNoError" /\ read.options = options
  BY <1>2 DEF ReaderAt
<1> HIDE DEF stop, read
<1> QED
  BY <1>3, <1>5, <1>6 DEF ReadBody, read

-----------------------------------------------------------------------------
\* Packets.

LEMMA WrittenInFront ==
    ASSUME NEW b \in Seq(Int), NEW x \in Seq(Int)
    PROVE  Slice(Overlay(b, x), 1, Len(x)) = x
<1> DEFINE rest == SubSeq(b, Len(x) + 1, Len(b))
<1>1. rest \in Seq(Int) /\ Len(x) \in Nat
  OBVIOUS
<1> HIDE DEF rest
<1>2. Len(x \o rest) \in Nat /\ Len(x \o rest) >= Len(x)
  BY <1>1
<1>3. ASSUME NEW k \in 1..Len(x) PROVE 1 + k - 1 \in 1..Len(x \o rest) /\ (x \o rest)[1 + k - 1] = x[k]
  BY <1>1, <1>2
<1>4. Overlay(b, x) = x \o rest
  BY DEF Overlay, rest
<1>5. Slice(x \o rest, 1, Len(x)) = [k \in 1..Len(x) |-> x[k]]
  BY <1>3 DEF Slice
<1>6. [k \in 1..Len(x) |-> x[k]] = x
  OBVIOUS
<1> HIDE DEF rest
<1> QED
  BY <1>4, <1>5, <1>6, Zenon

LEMMA HoldsItself ==
    ASSUME NEW b \in Seq(Int)
    PROVE  Holds(b, 1, b)
BY DEF Holds

PacketBytes(header, token, options, payload) ==
    IF payload = <<>> THEN header \o token \o options
    ELSE header \o token \o options \o <<Marker>> \o payload

LEMMA PacketParts ==
    ASSUME NEW header \in Seq(Int), NEW token \in Seq(Int), NEW options \in Seq(Int),
           NEW payload \in Seq(Int), NEW b, b = PacketBytes(header, token, options, payload)
    PROVE  /\ b \in Seq(Int)
           /\ Holds(b, 1, header) /\ Holds(b, 1 + Len(header), token)
           /\ Holds(b, 1 + Len(header) + Len(token), options)
           /\ EndsWithPayload(b, 1 + Len(header) + Len(token) + Len(options), payload)
<1> DEFINE headed == header \o token \o options
           marker == <<Marker>>
           end == 1 + Len(header) + Len(token) + Len(options)
<1>1. /\ Len(header) \in Nat /\ Len(token) \in Nat /\ Len(options) \in Nat /\ Len(payload) \in Nat
      /\ headed \in Seq(Int) /\ Len(headed) = Len(header) + Len(token) + Len(options)
  <2>1. Len(header) \in Nat /\ Len(token) \in Nat /\ Len(options) \in Nat /\ Len(payload) \in Nat
    OBVIOUS
  <2> QED
    BY <2>1, ThreeParts
<1>2. b \in Seq(Int) /\ Holds(b, 1, headed) /\ EndsWithPayload(b, 1 + Len(headed), payload)
  <2>1. CASE payload = <<>>
    <3>1. b = headed
      BY <2>1 DEF PacketBytes
    <3> HIDE DEF headed
    <3>2. Len(b) = 1 + Len(headed) - 1
      BY <1>1, <3>1
    <3> QED
      BY <1>1, <2>1, <3>1, <3>2, HoldsItself DEF EndsWithPayload
  <2>2. CASE payload # <<>>
    <3>1. marker \in Seq(Int) /\ Len(marker) = 1 /\ marker[1] = Marker
      BY DEF Marker
    <3>2. b = headed \o marker \o payload
      BY <2>2 DEF PacketBytes
    <3> HIDE DEF marker, headed
    <3>3. b \in Seq(Int) /\ Len(b) = Len(headed) + Len(marker) + Len(payload)
      <4>1. headed \in Seq(Int) /\ marker \in Seq(Int) /\ payload \in Seq(Int)
        BY <1>1, <3>1
      <4> QED
        BY ONLY <4>1, <3>2, ThreeParts
    <3>4. /\ Holds(b, 1, headed) /\ Holds(b, 1 + Len(headed), marker)
          /\ Holds(b, 1 + Len(headed) + Len(marker), payload)
      <4>1. Holds(b, 1, headed \o marker \o payload)
        BY <3>2, <3>3, HoldsItself
      <4>2. /\ headed \in Seq(Int) /\ marker \in Seq(Int) /\ payload \in Seq(Int)
            /\ b \in Seq(Int) /\ 1 \in Nat \ {0}
        BY <1>1, <3>1, <3>3
      <4> QED
        BY ONLY <4>1, <4>2, HoldsThreeParts
    <3>5. /\ Len(headed) \in Nat /\ 1 + Len(headed) + 1 - 1 = 1 + Len(headed)
          /\ Len(b) = 1 + Len(headed) + Len(payload)
      BY <1>1, <3>1, <3>3
    <3>6. b[1 + Len(headed)] = Marker
      <4>1. b[1 + Len(headed) + 1 - 1] = marker[1]
        BY <3>1, <3>4 DEF Holds
      <4> QED
        BY <3>1, <3>5, <4>1
    <3> QED
      BY <2>2, <3>1, <3>3, <3>4, <3>5, <3>6 DEF EndsWithPayload
  <2> QED
    BY <2>1, <2>2
<1>3. 1 + Len(headed) = end
  <2> HIDE DEF headed
  <2> QED
    BY <1>1
<1>4. /\ Holds(b, 1, header) /\ Holds(b, 1 + Len(header), token)
      /\ Holds(b, 1 + Len(header) + Len(token), options)
  BY <1>2, HoldsThreeParts
<1> HIDE DEF headed
<1> QED
  BY <1>2, <1>3, <1>4

\* Packets coap2buf writes so that buf2coap reads them.
Header(in) == <<in.kind * 16 + Len(in.token), in.code>> \o in.MID

Exchangeable(in) ==
    /\ in.kind \in 0..15 /\ in.code \in Int
    /\ in.MID \in Seq(Int) /\ Len(in.MID) = 2
    /\ in.token \in Seq(Int) /\ Len(in.token) <= 8
    /\ Readable(in.options, 1) /\ Chained(in.options)
    /\ NoMarker(options_into_byte_string(in.options))
    /\ in.payload \in Seq(Int)

LEMMA WrittenBytes ==
    ASSUME NEW in, NEW b \in Seq(Int), NEW capacity,
           coap2buf(in, b, capacity).r = "OscoreNoError",
           NEW packet, packet = PacketBytes(Header(in), in.token,
                                            options_into_byte_string(in.options), in.payload),
           packet \in Seq(Int)
    PROVE  LET written == coap2buf(in, b, capacity)
           IN  Slice(written.b, 1, written.len) = packet
<1> DEFINE written == coap2buf(in, b, capacity)
<1>1. written = [r |-> "OscoreNoError", b |-> Overlay(b, packet), len |-> Len(packet)]
  <2> DEFINE headed == Header(in) \o in.token \o options_into_byte_string(in.options)
  <2>1. packet = IF in.payload = <<>> THEN headed ELSE headed \o <<Marker>> \o in.payload
    BY DEF PacketBytes
  <2> QED
    BY <2>1 DEF coap2buf, Header
<1>2. written.b = Overlay(b, packet) /\ written.len = Len(packet)
  BY <1>1
<1> HIDE DEF written
<1>3. Slice(Overlay(b, packet), 1, Len(packet)) = packet
  BY WrittenInFront
<1> QED
  BY <1>2, <1>3 DEF written

LEMMA UpToFifteen ==
    ASSUME NEW k \in 0..15
    PROVE  k \in Int
OBVIOUS

LEMMA UpToEight ==
    ASSUME NEW n \in Nat, n <= 8
    PROVE  n \in 0..8 /\ ~(n > 8)
OBVIOUS

LEMMA TwoParts ==
    ASSUME NEW b, NEW x \in Seq(Int), NEW y \in Seq(Int), b = x \o y
    PROVE  /\ b \in Seq(Int) /\ Len(b) = Len(x) + Len(y)
           /\ \A i \in 1..Len(x) : b[i] = x[i]
           /\ \A i \in 1..Len(y) : b[Len(x) + i] = y[i]
OBVIOUS

IsPair(x) == x \in Seq(Int) /\ Len(x) = 2

LEMMA TwoPairs ==
    ASSUME NEW x, NEW y, IsPair(x), IsPair(y)
    PROVE  /\ x \o y \in Seq(Int) /\ Len(x \o y) = 4
           /\ (x \o y)[1] = x[1] /\ (x \o y)[2] = x[2]
           /\ (x \o y)[3] = y[1] /\ (x \o y)[4] = y[2]
<1>0. PICK b : b = x \o y
  OBVIOUS
<1> PICK two : two = 2
  OBVIOUS
<1>1. /\ b \in Seq(Int) /\ Len(b) = two + two
      /\ \A i \in 1..two : b[i] = x[i]
      /\ \A i \in 1..two : b[two + i] = y[i]
  <2>1. x \in Seq(Int) /\ y \in Seq(Int) /\ b = x \o y
    BY <1>0 DEF IsPair
  <2>2. /\ b \in Seq(Int) /\ Len(b) = Len(x) + Len(y)
        /\ \A i \in 1..Len(x) : b[i] = x[i]
        /\ \A i \in 1..Len(y) : b[Len(x) + i] = y[i]
    BY ONLY <2>1, TwoParts
  <2>3. Len(x) = two /\ Len(y) = two
    BY DEF IsPair
  <2> QED
    BY ONLY <2>2, <2>3
<1>2. two + two = 4 /\ 1 \in 1..two /\ 2 \in 1..two /\ two + 1 = 3 /\ two + 2 = 4
  OBVIOUS
<1>3. b[1] = x[1] /\ b[2] = x[2] /\ b[two + 1] = y[1] /\ b[two + 2] = y[2]
  BY ONLY <1>1, <1>2
<1>4. /\ b \in Seq(Int) /\ Len(b) = 4
      /\ b[1] = x[1] /\ b[2] = x[2] /\ b[3] = y[1] /\ b[4] = y[2]
  BY ONLY <1>1, <1>2, <1>3
<1> QED
  BY ONLY <1>0, <1>4

LEMMA PacketFields ==
    ASSUME NEW b, NEW tkl, b[1] % 16 = tkl, ~(tkl > 8),
           NEW body, ReadBody(b, 5 + tkl, 1) = body
    PROVE  buf2coap(b)
             = [r |-> body.r, kind |-> b[1] \div 16, code |-> b[2], MID |-> <<b[3], b[4]>>,
                token |-> SubSeq(b, 5, 4 + tkl), options |-> body.options,
                payload |-> body.payload]
BY DEF buf2coap

\* Header, token and payload as coap2buf takes them.
Framed(in) ==
    /\ in.kind \in 0..15 /\ in.code \in Int
    /\ in.MID \in Seq(Int) /\ Len(in.MID) = 2
    /\ in.token \in Seq(Int) /\ Len(in.token) <= 8
    /\ in.payload \in Seq(Int)

\* buf2coap reads header and token as they were written, whatever it makes
\* of the options and the payload.
LEMMA PacketHead ==
    ASSUME NEW in, Framed(in), NEW options \in Seq(Int), NEW packet,
           packet = PacketBytes(Header(in), in.token, options, in.payload)
    PROVE  LET at == 5 + Len(in.token)
               body == ReadBody(packet, at, 1)
           IN  /\ packet \in Seq(Int) /\ at \in Nat \ {0}
               /\ Holds(packet, at, options)
               /\ EndsWithPayload(packet, at + Len(options), in.payload)
               /\ buf2coap(packet)
                    = [r |-> body.r, kind |-> in.kind, code |-> in.code,
                       MID |-> <<in.MID[1], in.MID[2]>>, token |-> in.token,
                       options |-> body.options, payload |-> body.payload]
<1> DEFINE header == Header(in)
           token == in.token
           payload == in.payload
           at == 5 + Len(token)
           body == ReadBody(packet, at, 1)
<1>1. token \in Seq(Int) /\ Len(token) \in 0..8 /\ ~(Len(token) > 8) /\ payload \in Seq(Int)
  <2>1. token \in Seq(Int) /\ Len(token) <= 8 /\ payload \in Seq(Int)
    BY DEF Framed
  <2> HIDE DEF token
  <2>2. Len(token) \in Nat
    BY <2>1
  <2> QED
    BY <2>1, <2>2, UpToEight
<1>2. in.kind \in Int /\ in.code \in Int
  <2>1. in.kind \in 0..15 /\ in.code \in Int
    BY Zenon DEF Framed
  <2> QED
    BY ONLY <2>1, UpToFifteen
<1>3. /\ header \in Seq(Int) /\ Len(header) = 4
      /\ header[1] = in.kind * 16 + Len(token) /\ header[2] = in.code
      /\ header[3] = in.MID[1] /\ header[4] = in.MID[2]
  <2> DEFINE first == <<in.kind * 16 + Len(token), in.code>>
             MID == in.MID
  <2>1. MID \in Seq(Int) /\ Len(MID) = 2
    BY DEF Framed
  <2>2. in.kind * 16 + Len(token) \in Int
    <3>1. Len(token) \in Int
      BY ONLY <1>1
    <3> HIDE DEF token
    <3> QED
      BY ONLY <3>1, <1>2
  <2>3. /\ first \in Seq(Int) /\ Len(first) = 2
        /\ first[1] = in.kind * 16 + Len(token) /\ first[2] = in.code
    BY <1>2, <2>2
  <2>4. header = first \o MID
    BY DEF Header
  <2> HIDE DEF first, MID, header
  <2>5. /\ header \in Seq(Int) /\ Len(header) = 4
        /\ header[1] = first[1] /\ header[2] = first[2]
        /\ header[3] = MID[1] /\ header[4] = MID[2]
    <3>1. IsPair(first) /\ IsPair(MID)
      BY ONLY <2>1, <2>3 DEF IsPair
    <3>2. /\ first \o MID \in Seq(Int) /\ Len(first \o MID) = 4
          /\ (first \o MID)[1] = first[1] /\ (first \o MID)[2] = first[2]
          /\ (first \o MID)[3] = MID[1] /\ (first \o MID)[4] = MID[2]
      BY ONLY <3>1, TwoPairs
    <3> QED
      BY ONLY <2>4, <3>2
  <2> QED
    BY <2>3, <2>5 DEF MID
<1>6. /\ packet \in Seq(Int)
      /\ Holds(packet, 1, header) /\ Holds(packet, 1 + Len(header), token)
      /\ Holds(packet, 1 + Len(header) + Len(token), options)
      /\ EndsWithPayload(packet, 1 + Len(header) + Len(token) + Len(options), payload)
  <2>1. packet = PacketBytes(header, token, options, payload)
    OBVIOUS
  <2> HIDE DEF header, token, payload
  <2> QED
    BY <1>1, <1>3, <2>1, PacketParts
<1> HIDE DEF header, token, payload
<1>8. 1 + Len(header) + Len(token) = at /\ 1 + Len(header) = 5 /\ at \in Nat \ {0}
  BY <1>1, <1>3
<1>9. /\ packet[1] = in.kind * 16 + Len(token) /\ packet[2] = in.code
      /\ packet[3] = in.MID[1] /\ packet[4] = in.MID[2]
  <2>1. \A j \in 1..4 : packet[1 + j - 1] = header[j]
    BY <1>3, <1>6 DEF Holds
  <2>2. /\ packet[1 + 1 - 1] = header[1] /\ packet[1 + 2 - 1] = header[2]
        /\ packet[1 + 3 - 1] = header[3] /\ packet[1 + 4 - 1] = header[4]
    BY <2>1
  <2> QED
    BY <1>3, <2>2
<1>10. packet[1] % 16 = Len(token) /\ packet[1] \div 16 = in.kind
  <2>1. Len(token) \in 0..15
    BY <1>1
  <2> QED
    BY <1>2, <1>9, <2>1, Nibbles
<1>11. SubSeq(packet, 5, 4 + Len(token)) = token
  <2>1. 4 + Len(token) = 5 + Len(token) - 1 /\ 5 \in Nat \ {0}
    BY <1>1
  <2>2. Holds(packet, 5, token)
    BY <1>6, <1>8
  <2>3. packet \in Seq(Int) /\ token \in Seq(Int)
    BY <1>1, <1>6
  <2> QED
    BY ONLY <2>1, <2>2, <2>3, HeldPart
<1>12. Holds(packet, at, options) /\ EndsWithPayload(packet, at + Len(options), payload)
  BY <1>6, <1>8
<1>13. buf2coap(packet)
         = [r |-> body.r, kind |-> in.kind, code |-> in.code,
            MID |-> <<in.MID[1], in.MID[2]>>, token |-> token,
            options |-> body.options, payload |-> body.payload]
  <2>1. buf2coap(packet)
          = [r |-> body.r, kind |-> packet[1] \div 16, code |-> packet[2],
             MID |-> <<packet[3], packet[4]>>, token |-> SubSeq(packet, 5, 4 + Len(token)),
             options |-> body.options, payload |-> body.payload]
    BY <1>1, <1>10, PacketFields
  <2> HIDE DEF body
  <2> QED
    BY <1>9, <1>10, <1>11, <2>1
<1> QED
  BY <1>6, <1>8, <1>12, <1>13 DEF token, payload

\* What coap2buf reports to have written is read by buf2coap as the packet it
\* was given: no part of one runs into another, whatever their sizes, as long
\* as each value has less than 13 bytes and no byte of the options is the
\* marker.
THEOREM WrittenIsRead ==
    ASSUME NEW in, Exchangeable(in), NEW b \in Seq(Int), NEW capacity,
           coap2buf(in, b, capacity).r = "OscoreNoError"
    PROVE  LET written == coap2buf(in, b, capacity)
           IN  buf2coap(Slice(written.b, 1, written.len))
                 = [r |-> "OscoreNoError", kind |-> in.kind, code |-> in.code,
                    MID |-> <<in.MID[1], in.MID[2]>>, token |-> in.token,
                    options |-> in.options, payload |-> in.payload]
<1> DEFINE header == Header(in)
           token == in.token
           options == options_into_byte_string(in.options)
           payload == in.payload
           packet == PacketBytes(header, token, options, payload)
           at == 5 + Len(token)
           body == ReadBody(packet, at, 1)
<1>1. Framed(in) /\ payload \in Seq(Int)
  BY DEF Exchangeable, Framed
<1>4. Readable(in.options, 1) /\ Chained(in.options) /\ NoMarker(options)
  BY DEF Exchangeable
<1>5. options \in Seq(Int)
  <2>1. Writable(in.options)
    BY <1>4, ReadableIsWritable
  <2>2. Len(in.options) \in 0..Len(in.options)
    BY <2>1 DEF Writable
  <2> QED
    BY <2>1, <2>2, WrittenLoop DEF options_into_byte_string
<1>6. /\ packet \in Seq(Int) /\ at \in Nat \ {0}
      /\ Holds(packet, at, options) /\ EndsWithPayload(packet, at + Len(options), payload)
      /\ buf2coap(packet)
           = [r |-> body.r, kind |-> in.kind, code |-> in.code,
              MID |-> <<in.MID[1], in.MID[2]>>, token |-> token,
              options |-> body.options, payload |-> body.payload]
  <2> HIDE DEF options
  <2> QED
    BY <1>1, <1>5, PacketHead
<1>7. Slice(coap2buf(in, b, capacity).b, 1, coap2buf(in, b, capacity).len) = packet
  BY <1>6, WrittenBytes
<1> HIDE DEF header, token, options, payload, packet, at
<1>12. body = [r |-> "OscoreNoError", options |-> in.options, payload |-> payload]
  BY <1>1, <1>4, <1>6, BodyIsRead DEF options
<1>13. body.r = "OscoreNoError" /\ body.options = in.options /\ body.payload = payload
  BY <1>12
<1> HIDE DEF body
<1> QED
  BY <1>6, <1>7, <1>13 DEF token, payload

=============================================================================
