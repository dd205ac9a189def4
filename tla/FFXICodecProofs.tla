-------------------------- MODULE FFXICodecProofs --------------------------
(***************************************************************************)
(* Theorems about FFXICodec, for any tables that agree on the codes of the *)
(* bytes, payloads and buffers.                                            *)
(***************************************************************************)
EXTENDS FFXICodec, SequenceTheorems, TLAPS

-----------------------------------------------------------------------------
(* Division.                                                               *)

LEMMA DivFloor ==
    ASSUME NEW a \in Nat, NEW b \in Nat \ {0}
    PROVE  a \div b \in Nat /\ b * (a \div b) <= a /\ a < b * (a \div b) + b
OBVIOUS

LEMMA DivRoundsUp ==
    ASSUME NEW a \in Nat, NEW c \in Nat, NEW b \in Nat \ {0}, a < c
    PROVE  a \div b < (c + b - 1) \div b
<1>. DEFINE d == c + b - 1
            x == a \div b  y == d \div b
<1>1. d \in Nat /\ a + b <= d
  OBVIOUS
<1>. HIDE DEF d
<1>2. x \in Nat /\ y \in Nat /\ b * x <= a /\ d < b * y + b
  BY <1>1, DivFloor
<1>. HIDE DEF x, y
<1>3. b * x < b * y
  <2>1. b * x \in Nat /\ b * y \in Nat
    BY <1>2
  <2>. QED BY <1>1, <1>2, <2>1
<1>4. x < y
  <2>1. SUFFICES ASSUME y <= x PROVE FALSE
    BY <1>2
  <2>2. b * y <= b * x
    BY <1>2, <2>1
  <2>3. b * x \in Nat /\ b * y \in Nat
    BY <1>2
  <2>. QED BY <1>3, <2>2, <2>3
<1>. QED BY <1>4 DEF x, y, d

LEMMA CountsAreNumbers == \A n \in Counts : n \in Nat
BY BuffersAssumption

LEMMA ByteType == ByteBits \in Nat \ {0}
BY TablesAssumption

-----------------------------------------------------------------------------
(* Types.                                                                  *)

LEMMA CodeBits ==
    ASSUME NEW b \in Bytes
    PROVE  /\ Code(b) \in Seq(Bit) /\ Len(Code(b)) = EncLength[b]
           /\ EncLength[b] \in Nat \ {0}
<1>1. EncLength[b] \in Nat \ {0} /\ EncPattern[b] \in Nat
  BY TablesAssumption
<1>2. \A n \in Nat, k \in Nat : (n \div 2^k) % 2 \in {0, 1}
  OBVIOUS
<1>3. ASSUME NEW k \in 1..EncLength[b] PROVE Code(b)[k] \in Bit
  <2>1. k - 1 \in Nat
    BY <1>1
  <2>2. (EncPattern[b] \div 2^(k - 1)) % 2 \in Bit
    BY <1>1, <1>2, <2>1, Zenon DEF Bit
  <2>3. Code(b)[k] = (EncPattern[b] \div 2^(k - 1)) % 2
    BY DEF Code
  <2>. QED BY <2>2, <2>3
<1>4. Code(b) = [k \in 1..EncLength[b] |-> Code(b)[k]]
  BY DEF Code
<1>. QED BY <1>1, <1>3, <1>4, IsASeq

\* What there is to a type-correct state.
LEMMA TypeFacts ==
    ASSUME TypeOK
    PROVE  /\ src \in Sources /\ src \in Seq(Bytes) /\ Len(src) \in Nat
           /\ room \in Nat \ {0} /\ capacity \in Nat
           /\ next \in 0..Len(src) /\ next \in Nat
           /\ bits \in Seq(Bit) /\ Len(bits) \in Nat /\ MaxBits \in Int
           /\ Len(bits) <= MaxBits
           /\ starts \in Seq(Nat) /\ Len(starts) = next
           /\ count \in Nat /\ pos \in Nat /\ InTable(node)
           /\ out \in Seq(Bytes) /\ Len(out) \in Nat /\ Len(out) <= capacity
<1>1. /\ src \in Sources /\ room \in Nat \ {0} /\ capacity \in Nat
      /\ next \in 0..Len(src) /\ bits \in Seq(Bit)
      /\ starts \in Seq(Nat) /\ Len(starts) = next
      /\ count \in Nat /\ pos \in Nat /\ InTable(node)
      /\ out \in Seq(Bytes) /\ Len(out) <= capacity
  BY Zenon DEF TypeOK
<1>2. Len(bits) <= MaxBits
  BY Zenon DEF TypeOK
<1>3. src \in Seq(Bytes) /\ Len(src) \in Nat /\ next \in Nat
  BY <1>1, BuffersAssumption
<1>4. Len(bits) \in Nat /\ Len(out) \in Nat
  BY <1>1
<1>5. MaxBits \in Int
  BY <1>1, ByteType DEF MaxBits
<1>. QED BY <1>1, <1>2, <1>3, <1>4, <1>5

LEMMA RootInTable == InTable(Root)
BY TablesAssumption DEF Root

\* A child of a node in the table is in the table.
LEMMA NodeBelow ==
    ASSUME TypeOK, IsPtr(Entry)
    PROVE  InTable(Ptr(Entry))
<1>1. {node, node + 1} \subseteq DOMAIN Dec /\ DOMAIN Dec \subseteq Nat
  BY TypeFacts, TablesAssumption DEF InTable
<1>2. BitAt(pos) \in {0, 1}
  <2>1. bits \in Seq(Bit) /\ pos \in Nat /\ Len(bits) \in Nat
    BY TypeFacts
  <2>2. pos < Len(bits) => bits[pos + 1] \in Bit
    BY <2>1
  <2>. QED BY <2>2 DEF BitAt, Bit
<1>3. Entry \in DOMAIN Dec
  BY <1>1, <1>2 DEF Entry
<1>. QED BY <1>3, TablesAssumption

LEMMA InitTypes == Init => TypeOK
<1>. SUFFICES ASSUME Init PROVE TypeOK
  OBVIOUS
<1>1. src \in Sources /\ Len(src) \in Nat /\ capacity \in Nat
  BY BuffersAssumption DEF Init
<1>2. room \in Nat \ {0}
  BY <1>1, BuffersAssumption DEF Init, RouterRoom
<1>3. bits \in Seq(Bit) /\ starts \in Seq(Nat) /\ out \in Seq(Bytes)
      /\ Len(bits) = 0 /\ Len(starts) = 0 /\ Len(out) = 0
  BY DEF Init
<1>4. 0 <= MaxBits
  BY <1>2, ByteType DEF MaxBits
<1>5. InTable(node)
  BY RootInTable DEF Init
<1>. QED BY <1>1, <1>2, <1>3, <1>4, <1>5 DEF Init, TypeOK

LEMMA CompressTypes ==
    ASSUME TypeOK, CompressByte
    PROVE  TypeOK'
<1>. DEFINE b == src[next + 1]
<1>1. src \in Seq(Bytes) /\ next \in Nat /\ next < Len(src) /\ b \in Bytes
  BY TypeFacts DEF CompressByte
<1>2. /\ Code(b) \in Seq(Bit) /\ Len(Code(b)) = EncLength[b]
      /\ EncLength[b] \in Nat
  BY <1>1, CodeBits
<1>3. /\ starts' = Append(starts, Len(bits)) /\ bits' = bits \o Code(b)
      /\ next' = next + 1 /\ EncLength[b] + Len(bits) < MaxBits
      /\ UNCHANGED <<pc, src, room, capacity, count, pos, node, out>>
  BY DEF CompressByte, Fits, input, decompressor
<1>. HIDE DEF b
<1>4. bits \in Seq(Bit) /\ starts \in Seq(Nat) /\ Len(bits) \in Nat
  BY TypeFacts
<1>5. starts' \in Seq(Nat) /\ Len(starts') = Len(starts) + 1
  BY <1>3, <1>4, AppendProperties
<1>6. bits' \in Seq(Bit) /\ Len(bits') = Len(bits) + EncLength[b]
  <2>1. /\ bits \o Code(b) \in Seq(Bit)
        /\ Len(bits \o Code(b)) = Len(bits) + Len(Code(b))
    BY <1>2, <1>4, ConcatProperties, Zenon
  <2>. QED BY <1>2, <1>3, <2>1, Zenon
<1>7. Len(bits') <= MaxBits'
  <2>. DEFINE m == MaxBits
  <2>1. m \in Int
    BY TypeFacts
  <2>2. MaxBits' = m
    BY <1>3 DEF MaxBits
  <2>3. EncLength[b] + Len(bits) < m
    BY <1>3
  <2>. HIDE DEF m
  <2>. QED BY <1>2, <1>4, <1>6, <2>1, <2>2, <2>3
<1>8. pc' \in {"compress", "compressed", "overflow", "no space",
               "decompress", "done", "error"}
  BY <1>3, Zenon DEF TypeOK
<1>9. next' \in 0..Len(src') /\ Len(starts') = next'
  BY <1>1, <1>3, <1>5, TypeFacts
<1>10. /\ src' \in Sources /\ room' \in Nat \ {0} /\ capacity' \in Nat
       /\ count' \in Nat /\ pos' \in Nat /\ InTable(node)'
       /\ out' \in Seq(Bytes) /\ Len(out') <= capacity'
  BY <1>3, TypeFacts
<1>. QED BY <1>5, <1>6, <1>7, <1>8, <1>9, <1>10, Zenon DEF TypeOK

LEMMA ReadTypes ==
    ASSUME TypeOK, ReadBit
    PROVE  TypeOK'
<1>. DEFINE below == Ptr(Entry)
<1>1. /\ UNCHANGED <<pc, src, room, capacity, next, bits, starts, count>>
      /\ pos' = pos + 1 /\ Len(out) < capacity /\ IsPtr(Entry)
      /\ IsLeaf(below) => HasValue(below)
      /\ out' = IF IsLeaf(below) THEN Append(out, Dec[below + 3]) ELSE out
      /\ node' = IF IsLeaf(below) THEN Root ELSE below
  BY DEF ReadBit, Running, input, compressor
<1>2. InTable(below) /\ InTable(Root)
  BY <1>1, NodeBelow, RootInTable
<1>3. IsLeaf(below) => Dec[below + 3] \in Bytes
  <2>1. MaxByte \in Int
    <3>1. \A k \in Nat : 2^k \in Int
      OBVIOUS
    <3>. QED BY <3>1, TablesAssumption DEF MaxByte
  <2>2. \A e \in DOMAIN Dec : Dec[e] \in Nat
    BY TablesAssumption
  <2>3. Bytes = 0..MaxByte
    BY TablesAssumption
  <2>. HIDE DEF below
  <2>. QED BY <1>1, <1>2, <2>1, <2>2, <2>3 DEF HasValue, InTable
<1>4. /\ out \in Seq(Bytes) /\ Len(out) \in Nat /\ capacity \in Nat /\ pos \in Nat
      /\ Len(bits) <= MaxBits
  BY TypeFacts
<1>. HIDE DEF below
<1>5. out' \in Seq(Bytes) /\ Len(out') <= capacity
  BY <1>1, <1>3, <1>4, AppendProperties
<1>6. Len(bits') <= MaxBits'
  <2>1. MaxBits' = MaxBits /\ bits' = bits
    BY <1>1 DEF MaxBits
  <2>. QED BY <1>4, <2>1, Zenon
<1>7. pos' \in Nat /\ InTable(node)'
  BY <1>1, <1>2, <1>4
<1>8. pc' \in {"compress", "compressed", "overflow", "no space",
               "decompress", "done", "error"}
  BY <1>1, Zenon DEF TypeOK
<1>9. /\ src' \in Sources /\ room' \in Nat \ {0} /\ capacity' \in Nat
      /\ next' \in 0..Len(src') /\ bits' \in Seq(Bit)
      /\ starts' \in Seq(Nat) /\ Len(starts') = next' /\ count' \in Nat
  BY <1>1, TypeFacts
<1>10. Len(out') <= capacity'
  BY <1>1, <1>5
<1>. QED BY <1>5, <1>6, <1>7, <1>8, <1>9, <1>10, Zenon DEF TypeOK

LEMMA OtherTypes ==
    ASSUME TypeOK,
           Overflow \/ Compressed \/ Start \/ Malformed \/ Decompressed \/ UNCHANGED vars
    PROVE  TypeOK'
<1>1. UNCHANGED <<src, room, capacity, next, bits, starts, pos, node, out>>
  BY DEF Overflow, Compressed, Start, Malformed, Decompressed, vars, input, compressor,
      decompressor
<1>2. Len(src) \in Nat /\ Len(bits) \in Nat /\ ByteBits \in Nat /\ count \in Nat
  BY TypeFacts, ByteType
<1>3. count' \in Nat
  <2>1. CASE Compressed
    <3>1. count' \in Counts \/ count' = Len(bits) \/ count' = Len(bits) + ByteBits
      BY <2>1 DEF Compressed
    <3>. QED BY <1>2, <3>1, CountsAreNumbers
  <2>2. CASE Overflow
    <3>1. count' = Len(src)
      BY <2>2 DEF Overflow
    <3>. QED BY <1>2, <3>1
  <2>3. CASE Start \/ Malformed \/ Decompressed \/ UNCHANGED vars
    <3>1. count' = count
      BY <2>3 DEF Start, Malformed, Decompressed, vars
    <3>. QED BY <1>2, <3>1
  <2>. QED BY <2>1, <2>2, <2>3
<1>4. pc' \in {"compress", "compressed", "overflow", "no space",
               "decompress", "done", "error"}
  <2>1. CASE UNCHANGED vars
    BY <2>1, Zenon DEF TypeOK, vars
  <2>2. CASE Overflow \/ Compressed \/ Start \/ Malformed \/ Decompressed
    BY <2>2 DEF Overflow, Compressed, Start, Malformed, Decompressed
  <2>. QED BY <2>1, <2>2
<1>5. Len(bits') <= MaxBits'
  <2>1. MaxBits' = MaxBits /\ bits' = bits
    BY <1>1 DEF MaxBits
  <2>. QED BY <2>1, TypeFacts, Zenon
<1>6. /\ src' \in Sources /\ room' \in Nat \ {0} /\ capacity' \in Nat
      /\ next' \in 0..Len(src') /\ bits' \in Seq(Bit)
      /\ starts' \in Seq(Nat) /\ Len(starts') = next'
      /\ pos' \in Nat /\ InTable(node)'
      /\ out' \in Seq(Bytes) /\ Len(out') <= capacity'
  BY <1>1, TypeFacts
<1>. QED BY <1>3, <1>4, <1>5, <1>6, Zenon DEF TypeOK

\* Type correctness, for any tables whose pointers lead to whole nodes: every
\* node the decoder reaches is in the table with the entries it reads, every
\* value written is a byte, and what is written fits both buffers.
THEOREM TypeCorrect == Spec => []TypeOK
<1>1. TypeOK /\ [Next]_vars => TypeOK'
  BY CompressTypes, ReadTypes, OtherTypes DEF Next
<1>. QED BY <1>1, InitTypes, PTL DEF Spec

-----------------------------------------------------------------------------
(* The invariant.                                                          *)

Values == {Code(b)[k] : b \in Bytes, k \in Nat}

\* Where the code of byte i starts, once n are written, and where the last one
\* ends.
StartOf(i, n, at, written) == IF i <= n THEN at[i] ELSE Len(written)

Sizes ==
    /\ src \in Seq(Bytes) /\ capacity \in Nat
    /\ next \in 0..Len(src)
    /\ bits \in Seq(Values) /\ starts \in Seq(Nat) /\ Len(starts) = next
    /\ Len(bits) <= next * (2 * ByteBits)

\* The code of byte b is at offset n of what is written.
CodeAt(b, n, written) ==
    /\ n + EncLength[b] <= Len(written)
    /\ \A k \in 1..EncLength[b] : written[n + k] = Code(b)[k]

\* What is written is the codes of the bytes so far, one after the other.
Written ==
    /\ Sizes
    /\ StartOf(1, next, starts, bits) = 0
    /\ \A i \in 1..next :
        /\ StartOf(i + 1, next, starts, bits) = starts[i] + EncLength[src[i]]
        /\ CodeAt(src[i], starts[i], bits)
        /\ \A j \in 1..next : i < j => EndOf(i) <= starts[j]

\* With m bytes decoded, bit p is to be read at node n: this is on the path of
\* the next byte, unless there is none.
Position(m, p, n) ==
    IF m < next
    THEN /\ starts[m + 1] <= p /\ p < starts[m + 1] + EncLength[src[m + 1]]
         /\ n = Path[src[m + 1]][p - starts[m + 1]]
    ELSE /\ Len(bits) <= p
         /\ p = Len(bits) => m = next

\* What it has written agrees with the payload.
Reading ==
    /\ next = Len(src)
    /\ count \in Nat /\ pos \in 0..count /\ pos <= DataBytes * ByteBits
    /\ Len(out) \in Nat /\ Len(out) <= capacity
    /\ \A i \in 1..Len(src) : i <= Len(out) => out[i] = src[i]
    /\ Position(Len(out), pos, node)

CodecInv ==
    /\ pc \in {"compress", "compressed", "overflow", "no space",
               "decompress", "done", "error"}
    /\ Written
    /\ pc \in {"compress", "compressed", "overflow"} =>
        pos = 0 /\ node = Root /\ out = <<>>
    /\ pc = "compressed" => next = Len(src) /\ count \in Nat
    /\ pc \in {"overflow", "no space"} =>
        next < Len(src) /\ room # RouterRoom(Len(src))
    /\ pc \in {"decompress", "done"} => Reading
    /\ pc = "done" => ~Running
    /\ pc = "error" => next < Len(src) \/ count = 0 \/ count > Len(bits)

-----------------------------------------------------------------------------
(* Compress.                                                               *)

LEMMA CodeType ==
    ASSUME NEW b \in Bytes
    PROVE  /\ EncLength[b] \in Nat \ {0} /\ EncLength[b] <= 2 * ByteBits
           /\ Code(b) \in Seq(Values) /\ Len(Code(b)) = EncLength[b]
<1>1. EncLength[b] \in Nat \ {0} /\ EncLength[b] <= 2 * ByteBits
  BY TablesAssumption, BuffersAssumption
<1>2. \A k \in 1..EncLength[b] : Code(b)[k] \in Values
  BY <1>1 DEF Values
<1>3. DOMAIN Code(b) = 1..EncLength[b]
  BY DEF Code
<1>4. Code(b) = [k \in 1..EncLength[b] |-> Code(b)[k]]
  BY DEF Code
<1>. QED BY <1>1, <1>2, <1>3, <1>4, IsASeq

LEMMA InitCodec == Init => CodecInv
<1>. SUFFICES ASSUME Init PROVE CodecInv
  OBVIOUS
<1>1. src \in Seq(Bytes) /\ Len(src) \in Nat /\ ByteBits \in Nat
  BY BuffersAssumption, TablesAssumption DEF Init
<1>2. capacity \in Nat
  BY <1>1, BuffersAssumption DEF Init
<1>3. bits \in Seq(Values) /\ starts \in Seq(Nat) /\ Len(starts) = 0 /\ Len(bits) = 0
  BY DEF Init
<1>4. next = 0 /\ next * (2 * ByteBits) = 0
  BY <1>1 DEF Init
<1>5. Sizes
  BY <1>1, <1>2, <1>3, <1>4 DEF Sizes
<1>6. Written
  BY <1>3, <1>4, <1>5 DEF Written, StartOf
<1>. QED BY <1>6 DEF Init, CodecInv

LEMMA CompressStep ==
    ASSUME CodecInv, CompressByte
    PROVE  CodecInv'
<1>. DEFINE b == src[next + 1]
<1>1. Sizes
  BY DEF CodecInv, Written
<1>2. /\ src \in Seq(Bytes) /\ next \in 0..Len(src) /\ next < Len(src)
      /\ b \in Bytes /\ ByteBits \in Nat
  BY <1>1, ByteType DEF Sizes, CompressByte
<1>3. /\ EncLength[b] \in Nat \ {0} /\ EncLength[b] <= 2 * ByteBits
      /\ Code(b) \in Seq(Values) /\ Len(Code(b)) = EncLength[b]
  BY <1>2, CodeType
<1>4. bits \in Seq(Values) /\ starts \in Seq(Nat) /\ Len(starts) = next /\ Len(bits) \in Nat
  BY <1>1 DEF Sizes
<1>5. /\ starts' = Append(starts, Len(bits)) /\ bits' = bits \o Code(b)
      /\ next' = next + 1 /\ src' = src /\ capacity' = capacity
  BY DEF CompressByte, input
<1>. HIDE DEF b
<1>6. /\ starts' \in Seq(Nat) /\ Len(starts') = next + 1
      /\ \A i \in 1..next : starts'[i] = starts[i]
      /\ starts'[next + 1] = Len(bits)
  BY <1>4, <1>5, AppendProperties
<1>7. /\ bits' \in Seq(Values) /\ Len(bits') = Len(bits) + EncLength[b]
      /\ \A i \in 1..Len(bits) + EncLength[b] : bits'[i] =
            IF i <= Len(bits) THEN bits[i] ELSE Code(b)[i - Len(bits)]
  <2>1. /\ bits \o Code(b) \in Seq(Values)
        /\ Len(bits \o Code(b)) = Len(bits) + Len(Code(b))
        /\ \A i \in 1..Len(bits) + Len(Code(b)) : (bits \o Code(b))[i] =
              IF i <= Len(bits) THEN bits[i] ELSE Code(b)[i - Len(bits)]
    BY <1>3, <1>4, ConcatProperties, Zenon
  <2>. QED BY <1>3, <1>5, <2>1, Zenon
<1>8. Len(bits') <= next' * (2 * ByteBits)
  <2>. DEFINE d == 2 * ByteBits
  <2>1. d \in Nat /\ Len(bits) <= next * d /\ EncLength[b] <= d /\ next \in Nat
    BY <1>1, <1>2, <1>3 DEF Sizes
  <2>. HIDE DEF d
  <2>2. (next + 1) * d = next * d + d /\ next * d \in Nat
    BY <2>1
  <2>3. Len(bits) + EncLength[b] <= next * d + d
    BY <1>3, <1>4, <2>1, <2>2
  <2>4. Len(bits') <= next' * d
    BY <1>5, <1>7, <2>2, <2>3
  <2>. QED BY <2>4 DEF d
<1>9. Sizes'
  BY <1>1, <1>2, <1>5, <1>6, <1>7, <1>8 DEF Sizes
<1>10. StartOf(1, next, starts, bits) = 0
  BY DEF CodecInv, Written
<1>11. StartOf(1, next', starts', bits') = 0
  BY <1>2, <1>4, <1>5, <1>6, <1>10 DEF StartOf
<1>12. ASSUME NEW a \in Bytes, NEW n \in Nat, CodeAt(a, n, bits)
       PROVE  CodeAt(a, n, bits')
  <2>1. EncLength[a] \in Nat
    BY CodeType
  <2>2. n + EncLength[a] <= Len(bits)
    BY <1>12 DEF CodeAt
  <2>3. ASSUME NEW k \in 1..EncLength[a] PROVE bits'[n + k] = Code(a)[k]
    <3>1. bits[n + k] = Code(a)[k]
      BY <1>12 DEF CodeAt
    <3>2. n + k \in 1..Len(bits)
      BY <1>4, <2>1, <2>2
    <3>. QED BY <1>3, <1>4, <1>7, <3>1, <3>2
  <2>. QED BY <1>3, <1>4, <1>7, <2>1, <2>2, <2>3 DEF CodeAt
<1>13. CodeAt(b, Len(bits), bits')
  <2>1. ASSUME NEW k \in 1..EncLength[b] PROVE bits'[Len(bits) + k] = Code(b)[k]
    <3>. DEFINE j == Len(bits) + k
    <3>1. j \in 1..Len(bits) + EncLength[b] /\ ~(j <= Len(bits)) /\ j - Len(bits) = k
      BY <1>3, <1>4
    <3>. HIDE DEF j
    <3>2. bits'[j] = Code(b)[j - Len(bits)]
      BY <1>7, <3>1
    <3>. QED BY <3>1, <3>2 DEF j
  <2>. QED BY <1>3, <1>4, <1>7, <2>1 DEF CodeAt
<1>14. ASSUME NEW i \in 1..next'
       PROVE  /\ StartOf(i + 1, next', starts', bits') = starts'[i] + EncLength[src'[i]]
              /\ CodeAt(src'[i], starts'[i], bits')
  <2>1. CASE i = next + 1
    <3>1. src'[i] = b /\ starts'[i] = Len(bits)
      BY <1>5, <1>6, <2>1 DEF b
    <3>2. StartOf(i + 1, next', starts', bits') = Len(bits')
      BY <1>2, <1>5, <2>1 DEF StartOf
    <3>. QED BY <1>3, <1>4, <1>7, <1>13, <3>1, <3>2
  <2>2. CASE i \in 1..next
    <3>1. /\ StartOf(i + 1, next, starts, bits) = starts[i] + EncLength[src[i]]
          /\ CodeAt(src[i], starts[i], bits)
      BY <2>2 DEF CodecInv, Written
    <3>2. src[i] \in Bytes /\ starts[i] \in Nat
      BY <1>2, <1>4, <2>2
    <3>3. StartOf(i + 1, next', starts', bits') = StartOf(i + 1, next, starts, bits)
      BY <1>2, <1>5, <1>6, <2>2 DEF StartOf
    <3>4. src'[i] = src[i] /\ starts'[i] = starts[i]
      BY <1>5, <1>6, <2>2
    <3>5. CodeAt(src[i], starts[i], bits')
      BY <1>12, <3>1, <3>2
    <3>. QED BY <3>1, <3>3, <3>4, <3>5
  <2>3. i = next + 1 \/ i \in 1..next
    BY <1>2, <1>5
  <2>. QED BY <2>1, <2>2, <2>3
<1>15. ASSUME NEW i \in 1..next', NEW j \in 1..next', i < j
       PROVE  EndOf(i)' <= starts'[j]
  <2>1. i \in 1..next
    BY <1>2, <1>5, <1>15
  <2>2. EndOf(i)' = EndOf(i)
    BY <1>5, <1>6, <2>1 DEF EndOf
  <2>3. CASE j = next + 1
    <3>1. CodeAt(src[i], starts[i], bits)
      BY <2>1 DEF CodecInv, Written
    <3>. QED BY <1>6, <2>2, <2>3, <3>1 DEF CodeAt, EndOf
  <2>4. CASE j \in 1..next
    <3>1. EndOf(i) <= starts[j]
      BY <1>15, <2>1, <2>4 DEF CodecInv, Written
    <3>. QED BY <1>6, <2>2, <2>4, <3>1
  <2>5. j = next + 1 \/ j \in 1..next
    BY <1>2, <1>5
  <2>. QED BY <2>3, <2>4, <2>5
<1>16. Written'
  BY <1>9, <1>11, <1>14, <1>15 DEF Written
<1>17. pc = "compress" /\ pc' = pc /\ pos' = pos /\ node' = node /\ out' = out
  BY DEF CompressByte, decompressor
<1>. QED BY <1>16, <1>17 DEF CodecInv

\* Nothing is written after the payload is compressed.
LEMMA WrittenUnmoved ==
    ASSUME Written, UNCHANGED <<src, capacity, next, bits, starts>>
    PROVE  Written'
BY DEF Written, Sizes, EndOf

\* Codes of two bytes or less cannot fill a buffer of the router's size.
LEMMA OverflowStep ==
    ASSUME CodecInv, Overflow
    PROVE  CodecInv'
<1>1. Written /\ Sizes
  BY DEF CodecInv, Written
<1>2. Written'
  BY <1>1, WrittenUnmoved DEF Overflow, input, compressor
<1>3. room # RouterRoom(Len(src))
  <2>1. SUFFICES ASSUME room = 2 * Len(src) + 64 PROVE FALSE
    BY DEF RouterRoom
  <2>. DEFINE d == 2 * ByteBits
              e == EncLength[src[next + 1]]
  <2>2. /\ src \in Seq(Bytes) /\ next \in 0..Len(src) /\ next < Len(src)
        /\ Len(src) \in Nat /\ src[next + 1] \in Bytes
    <3>1. next < Len(src)
      BY DEF Overflow
    <3>. QED BY <1>1, <3>1 DEF Sizes
  <2>3. e \in Nat /\ e <= d /\ ByteBits \in Nat \ {0} /\ d \in Nat /\ d # 0
    BY <2>2, CodeType, TablesAssumption
  <2>4. Len(bits) \in Nat /\ Len(bits) <= next * d
    BY <1>1 DEF Sizes
  <2>5. (room - 1) * ByteBits <= e + Len(bits)
    <3>1. ~(e + Len(bits) < (room - 1) * ByteBits)
      BY DEF Overflow, Fits, MaxBits
    <3>. HIDE DEF e
    <3>2. room \in Nat
      BY <2>1, <2>2
    <3>3. (room - 1) * ByteBits \in Int
      BY <2>3, <3>2
    <3>. QED BY <2>3, <2>4, <3>1, <3>3
  <2>6. (room - 1) * ByteBits = Len(src) * d + 63 * ByteBits
    BY <2>1, <2>2, <2>3
  <2>. HIDE DEF e, d
  <2>7. next * d + d <= Len(src) * d
    <3>1. (next + 1) * d = next * d + d
      BY <2>2, <2>3
    <3>2. (next + 1) * d <= Len(src) * d
      BY <2>2, <2>3
    <3>. QED BY <3>1, <3>2
  <2>8. next * d \in Nat /\ Len(src) * d \in Nat /\ 63 * ByteBits \in Nat \ {0}
    BY <2>2, <2>3
  <2>. QED BY <2>3, <2>4, <2>5, <2>6, <2>7, <2>8
<1>4. /\ pc = "compress" /\ next < Len(src)
      /\ pc' = "overflow" \/ pc' = "no space"
      /\ UNCHANGED <<src, room, next, pos, node, out>>
  BY DEF Overflow, input, compressor, decompressor
<1>. QED BY <1>2, <1>3, <1>4 DEF CodecInv

LEMMA CompressedStep ==
    ASSUME CodecInv, Compressed
    PROVE  CodecInv'
<1>1. Written'
  BY WrittenUnmoved DEF CodecInv, Compressed, input, compressor
<1>2. /\ pc = "compress" /\ pc' = "compressed" /\ next = Len(src)
      /\ UNCHANGED <<src, next, bits, pos, node, out>>
      /\ count' \in Counts \cup {Len(bits), Len(bits) + ByteBits}
  BY DEF Compressed, input, compressor, decompressor
<1>3. count' \in Nat
  <2>1. Len(bits) \in Nat /\ ByteBits \in Nat
    <3>1. Sizes
      BY DEF CodecInv, Written
    <3>. QED BY <3>1, ByteType DEF Sizes
  <2>. QED BY <1>2, <2>1, CountsAreNumbers
<1>. QED BY <1>1, <1>2, <1>3 DEF CodecInv

-----------------------------------------------------------------------------
(* Decompress.                                                             *)

\* The bytes of the data hold all its bits.
LEMMA DataHolds ==
    ASSUME Sizes
    PROVE  /\ DataBytes \in Nat /\ DataBytes * ByteBits \in Nat
           /\ Len(bits) <= DataBytes * ByteBits
           /\ \A i \in Nat :
                /\ i < Len(bits) => i \div ByteBits < DataBytes
                /\ i \div ByteBits < DataBytes => i + 1 <= DataBytes * ByteBits
<1>. DEFINE n == Len(bits)
            d == DataBytes
<1>1. n \in Nat /\ ByteBits \in Nat \ {0} /\ n + ByteBits - 1 \in Nat
  BY TablesAssumption DEF Sizes
<1>2. d = (n + ByteBits - 1) \div ByteBits
  BY DEF DataBytes, CompressedSize
<1>. HIDE DEF n, d
<1>3. d \in Nat /\ n + ByteBits - 1 < ByteBits * d + ByteBits
  BY <1>1, <1>2, DivFloor
<1>4. d * ByteBits \in Nat /\ n <= d * ByteBits
  BY <1>1, <1>3
<1>5. ASSUME NEW i \in Nat
      PROVE  /\ i < n => i \div ByteBits < d
             /\ i \div ByteBits < d => i + 1 <= d * ByteBits
  <2>1. i < n => i \div ByteBits < d
    BY <1>1, <1>2, DivRoundsUp
  <2>2. i \div ByteBits < d => i + 1 <= d * ByteBits
    <3>. DEFINE q == i \div ByteBits
    <3>1. q \in Nat /\ i < ByteBits * q + ByteBits
      BY <1>1, DivFloor
    <3>. HIDE DEF q
    <3>2. q < d => ByteBits * q + ByteBits <= d * ByteBits
      <4>1. (q + 1) * ByteBits = ByteBits * q + ByteBits
        BY <1>1, <3>1
      <4>2. q < d => (q + 1) * ByteBits <= d * ByteBits
        BY <1>1, <1>3, <3>1
      <4>. QED BY <4>1, <4>2
    <3>3. ByteBits * q \in Nat
      BY <1>1, <3>1
    <3>4. q < d => i + 1 <= d * ByteBits
      BY <1>1, <1>4, <3>1, <3>2, <3>3
    <3>. QED BY <3>4 DEF q
  <2>. QED BY <2>1, <2>2
<1>. QED BY <1>3, <1>4, <1>5 DEF n, d

\* Where the code of the next byte is.
LEMMA NextCode ==
    ASSUME Written, NEW m \in Nat, m < next
    PROVE  LET b == src[m + 1]
               s == starts[m + 1] IN
           /\ b \in Bytes /\ s \in Nat /\ EncLength[b] \in Nat \ {0}
           /\ s + EncLength[b] <= Len(bits) /\ Len(bits) \in Nat
           /\ \A k \in 1..EncLength[b] : bits[s + k] = Code(b)[k]
           /\ m + 1 < next => starts[m + 2] = s + EncLength[b]
           /\ m + 1 = next => Len(bits) = s + EncLength[b]
<1>. DEFINE b == src[m + 1]
            s == starts[m + 1]
<1>1. /\ Sizes /\ CodeAt(b, s, bits)
      /\ StartOf(m + 2, next, starts, bits) = s + EncLength[b]
  <2>1. Sizes
    BY DEF Written
  <2>2. m + 1 \in 1..next /\ (m + 1) + 1 = m + 2
    BY <2>1 DEF Sizes
  <2>. QED BY <2>1, <2>2 DEF Written
<1>2. b \in Bytes /\ s \in Nat /\ next \in Nat /\ Len(bits) \in Nat
  BY <1>1 DEF Sizes
<1>. HIDE DEF b, s
<1>3. EncLength[b] \in Nat \ {0}
  BY <1>2, CodeType
<1>4. m + 1 < next => starts[m + 2] = s + EncLength[b]
  BY <1>1, <1>2 DEF StartOf
<1>5. m + 1 = next => Len(bits) = s + EncLength[b]
  BY <1>1, <1>2 DEF StartOf
<1>6. /\ s + EncLength[b] <= Len(bits)
      /\ \A k \in 1..EncLength[b] : bits[s + k] = Code(b)[k]
  BY <1>1 DEF CodeAt
<1>. QED BY <1>2, <1>3, <1>4, <1>5, <1>6 DEF b, s

\* The decoder is at the first byte, or there is none.
LEMMA FirstPosition ==
    ASSUME Written, next = Len(src)
    PROVE  Position(0, 0, Root)
<1>1. next \in Nat /\ Len(bits) \in Nat /\ StartOf(1, next, starts, bits) = 0
  BY DEF Written, Sizes
<1>2. CASE next = 0
  BY <1>1, <1>2 DEF Position, StartOf
<1>3. CASE 0 < next
  <2>1. starts[1] = 0
    BY <1>1, <1>3 DEF StartOf
  <2>2. src[1] \in Bytes /\ EncLength[src[1]] \in Nat \ {0}
    BY <1>3, NextCode
  <2>3. Path[src[1]][0] = Root
    BY <2>2, TablesAssumption
  <2>. QED BY <1>3, <2>1, <2>2, <2>3 DEF Position
<1>. QED BY <1>1, <1>2, <1>3

LEMMA StartStep ==
    ASSUME CodecInv, Start
    PROVE  CodecInv'
<1>1. Written /\ Written'
  BY WrittenUnmoved DEF CodecInv, Start, input, compressor
<1>2. pos = 0 /\ node = Root /\ out = <<>>
  BY DEF CodecInv, Start
<1>3. UNCHANGED <<src, capacity, next, bits, starts, count, pos, node, out>>
  BY DEF Start, input, compressor, decompressor
<1>4. CASE pc' = "error"
  <2>1. TooManyBits /\ count \in Nat => count > Len(bits)
    <3>1. /\ DataBytes \in Nat /\ DataBytes * ByteBits \in Nat
          /\ Len(bits) <= DataBytes * ByteBits
          /\ Len(bits) \in Nat /\ ByteBits \in Nat
      BY <1>1, DataHolds, TablesAssumption DEF Written, Sizes
    <3>2. (DataBytes + 1) * ByteBits = DataBytes * ByteBits + ByteBits
      BY <3>1
    <3>. QED BY <3>1, <3>2 DEF TooManyBits
  <2>. QED BY <1>1, <1>3, <1>4, <2>1 DEF CodecInv, Start
<1>5. CASE pc' = "decompress"
  <2>1. pc = "compressed"
    BY <1>5 DEF Start
  <2>2. next = Len(src) /\ count \in Nat
    BY <2>1 DEF CodecInv
  <2>3. Position(0, 0, Root)
    BY <1>1, <1>2, <2>2, FirstPosition
  <2>4. capacity \in Nat /\ DataBytes * ByteBits \in Nat
    BY <1>1, DataHolds DEF Written, Sizes
  <2>5. Len(out) = 0
    BY <1>2
  <2>6. Reading
    BY <1>2, <2>2, <2>3, <2>4, <2>5 DEF Reading
  <2>7. Reading'
    BY <1>3, <2>6 DEF Reading, Position, DataBytes
  <2>. QED BY <1>1, <1>5, <2>7 DEF CodecInv
<1>. QED BY <1>4, <1>5 DEF Start

\* On the path of a byte, the next bit leads along the path; the leaf at its
\* end has this byte.
LEMMA OnPath ==
    ASSUME Written, Reading, NEW m \in Nat, m = Len(out), m < next
    PROVE  LET b == src[m + 1]
               k == pos - starts[m + 1] + 1 IN
           /\ b \in Bytes /\ k \in 1..EncLength[b] /\ EncLength[b] \in Nat
           /\ pos < Len(bits)
           /\ IsPtr(Entry) /\ Ptr(Entry) = Path[b][k]
           /\ IsLeaf(Ptr(Entry)) <=> k = EncLength[b]
           /\ IsLeaf(Ptr(Entry)) => HasValue(Ptr(Entry)) /\ Dec[Ptr(Entry) + 3] = b
<1>. DEFINE b == src[m + 1]
            s == starts[m + 1]
            k == pos - s + 1
<1>1. /\ b \in Bytes /\ s \in Nat /\ EncLength[b] \in Nat \ {0}
      /\ s + EncLength[b] <= Len(bits) /\ Len(bits) \in Nat
      /\ \A j \in 1..EncLength[b] : bits[s + j] = Code(b)[j]
  BY NextCode
<1>2. s <= pos /\ pos < s + EncLength[b] /\ node = Path[b][pos - s]
  BY DEF Reading, Position
<1>3. pos \in Nat
  BY DEF Reading
<1>. HIDE DEF b, s
<1>4. /\ k \in 1..EncLength[b] /\ pos < Len(bits)
      /\ pos - s = k - 1 /\ pos + 1 = s + k
  BY <1>1, <1>2, <1>3
<1>. HIDE DEF k
<1>5. BitAt(pos) = Code(b)[k]
  <2>1. bits[pos + 1] = Code(b)[k]
    BY <1>1, <1>4
  <2>. QED BY <1>4, <2>1 DEF BitAt
<1>6. Entry = Path[b][k - 1] + Code(b)[k]
  BY <1>2, <1>4, <1>5 DEF Entry
<1>7. /\ IsPtr(Path[b][k - 1] + Code(b)[k])
      /\ Path[b][k] = Ptr(Path[b][k - 1] + Code(b)[k])
      /\ IsLeaf(Path[b][k]) <=> k = EncLength[b]
      /\ HasValue(Path[b][EncLength[b]]) /\ Dec[Path[b][EncLength[b]] + 3] = b
  BY <1>1, <1>4, TablesAssumption
<1>8. IsPtr(Entry) /\ Ptr(Entry) = Path[b][k]
  BY <1>6, <1>7
<1>9. /\ IsLeaf(Ptr(Entry)) <=> k = EncLength[b]
      /\ IsLeaf(Ptr(Entry)) => HasValue(Ptr(Entry)) /\ Dec[Ptr(Entry) + 3] = b
  BY <1>7, <1>8
<1>. QED BY <1>1, <1>4, <1>8, <1>9 DEF b, s, k

LEMMA PositionStep ==
    ASSUME TypeOK, Written, Reading, ReadBit
    PROVE  /\ Position(Len(out'), pos', node')
           /\ Len(out') \in Nat /\ Len(out') <= capacity
           /\ \A i \in 1..Len(src) : i <= Len(out') => out'[i] = src[i]
<1>. DEFINE m == Len(out)
            below == Ptr(Entry)
<1>1. /\ out \in Seq(Bytes) /\ m \in Nat /\ m < capacity /\ capacity \in Nat
      /\ next \in Nat /\ next = Len(src) /\ Len(bits) \in Nat
      /\ \A i \in 1..Len(src) : i <= m => out[i] = src[i]
  BY TypeFacts DEF Reading, ReadBit, Running, Written, Sizes
<1>2. pos \in Nat /\ pos' = pos + 1
  BY DEF Reading, ReadBit
<1>3. /\ IsLeaf(below) => HasValue(below)
      /\ out' = IF IsLeaf(below) THEN Append(out, Dec[below + 3]) ELSE out
      /\ node' = IF IsLeaf(below) THEN Root ELSE below
  BY DEF ReadBit
<1>4. Position(m, pos, node)
  BY DEF Reading
<1>5. m < next =>
        LET b == src[m + 1]
            k == pos - starts[m + 1] + 1 IN
        /\ b \in Bytes /\ k \in 1..EncLength[b] /\ EncLength[b] \in Nat
        /\ below = Path[b][k]
        /\ IsLeaf(below) <=> k = EncLength[b]
        /\ IsLeaf(below) => Dec[below + 3] = b
  BY <1>1, OnPath
<1>. HIDE DEF m, below
<1>6. IsLeaf(below) =>
        /\ Len(out') = m + 1
        /\ \A i \in 1..m : out'[i] = out[i]
        /\ out'[m + 1] = Dec[below + 3]
  BY <1>1, <1>3, AppendProperties DEF m
<1>7. Len(out') \in Nat /\ Len(out') <= capacity
  BY <1>1, <1>3, <1>6 DEF m
<1>8. ASSUME NEW i \in 1..Len(src), i <= Len(out') PROVE out'[i] = src[i]
  <2>1. CASE ~IsLeaf(below)
    BY <1>1, <1>3, <1>8, <2>1 DEF m
  <2>2. CASE IsLeaf(below) /\ i <= m
    BY <1>1, <1>6, <1>8, <2>2
  <2>3. CASE IsLeaf(below) /\ ~(i <= m)
    <3>1. i = m + 1 /\ m < next
      BY <1>1, <1>6, <1>8, <2>3
    <3>. QED BY <1>5, <1>6, <2>3, <3>1
  <2>. QED BY <2>1, <2>2, <2>3
<1>9. CASE ~(m < next)
  <2>1. Len(bits) <= pos
    BY <1>4, <1>9 DEF Position
  <2>2. ~(Len(out') < next)
    BY <1>1, <1>3, <1>6, <1>9 DEF m
  <2>3. Len(bits) <= pos' /\ pos' # Len(bits)
    BY <1>1, <1>2, <2>1
  <2>. QED BY <1>7, <1>8, <2>2, <2>3 DEF Position
<1>10. CASE m < next
  <2>. DEFINE b == src[m + 1]
              s == starts[m + 1]
              k == pos - s + 1
  <2>1. /\ b \in Bytes /\ s \in Nat /\ EncLength[b] \in Nat \ {0}
        /\ m + 1 < next => starts[m + 2] = s + EncLength[b]
        /\ m + 1 = next => Len(bits) = s + EncLength[b]
    BY <1>1, <1>10, NextCode
  <2>2. /\ k \in 1..EncLength[b] /\ below = Path[b][k]
        /\ IsLeaf(below) <=> k = EncLength[b]
    BY <1>5, <1>10
  <2>. HIDE DEF b
  <2>3. s <= pos /\ pos' = s + k /\ pos' - s = k
    <3>1. s <= pos
      BY <1>4, <1>10 DEF Position
    <3>. QED BY <1>2, <2>1, <3>1
  <2>. HIDE DEF s, k
  <2>4. CASE ~IsLeaf(below)
    <3>1. Len(out') = m /\ node' = Path[b][pos' - s]
      BY <1>3, <2>2, <2>3, <2>4 DEF m
    <3>2. s <= pos' /\ pos' < s + EncLength[b]
      BY <2>1, <2>2, <2>3, <2>4
    <3>3. Position(m, pos', node')
      BY <1>10, <3>1, <3>2 DEF Position, b, s
    <3>. QED BY <1>7, <1>8, <3>1, <3>3
  <2>5. CASE IsLeaf(below) /\ m + 1 = next
    <3>1. Len(out') = next /\ pos' = Len(bits)
      BY <1>6, <2>1, <2>2, <2>3, <2>5
    <3>2. ~(next < next) /\ Len(bits) <= Len(bits)
      BY <1>1
    <3>3. Position(next, Len(bits), node')
      BY <3>2 DEF Position
    <3>. QED BY <1>7, <1>8, <3>1, <3>3
  <2>6. CASE IsLeaf(below) /\ m + 1 < next
    <3>1. /\ Len(out') = m + 1 /\ node' = Root /\ pos' = starts[m + 2]
      BY <1>3, <1>6, <2>1, <2>2, <2>3, <2>6
    <3>2. /\ src[m + 2] \in Bytes /\ EncLength[src[m + 2]] \in Nat \ {0}
          /\ starts[m + 2] \in Nat
      <4>1. m + 1 \in Nat /\ (m + 1) + 1 = m + 2
        BY <1>1
      <4>. QED BY <2>6, <4>1, NextCode
    <3>3. Path[src[m + 2]][0] = Root
      BY <3>2, TablesAssumption
    <3>4. /\ (m + 1) + 1 = m + 2 /\ starts[m + 2] - starts[m + 2] = 0
          /\ starts[m + 2] <= starts[m + 2]
          /\ starts[m + 2] < starts[m + 2] + EncLength[src[m + 2]]
      BY <1>1, <3>2
    <3>5. Position(m + 1, starts[m + 2], Root)
      BY <2>6, <3>3, <3>4 DEF Position
    <3>. QED BY <1>7, <1>8, <3>1, <3>5
  <2>7. m + 1 = next \/ m + 1 < next
    BY <1>1, <1>10
  <2>. QED BY <2>4, <2>5, <2>6, <2>7
<1>. QED BY <1>9, <1>10

LEMMA ReadBitStep ==
    ASSUME TypeOK, CodecInv, ReadBit
    PROVE  CodecInv'
<1>1. Written /\ Reading /\ Sizes
  BY DEF CodecInv, ReadBit, Written
<1>2. Written'
  BY <1>1, WrittenUnmoved DEF ReadBit, input, compressor
<1>3. UNCHANGED <<src, capacity, next, bits, starts, count>> /\ pos' = pos + 1
  BY DEF ReadBit, input, compressor
<1>4. /\ Position(Len(out'), pos', node')
      /\ Len(out') \in Nat /\ Len(out') <= capacity
      /\ \A i \in 1..Len(src) : i <= Len(out') => out'[i] = src[i]
  BY <1>1, PositionStep
<1>5. pos' \in 0..count /\ pos' <= DataBytes * ByteBits
  <2>1. pos \in 0..count /\ pos < count /\ count \in Nat /\ pos \in Nat
    BY <1>1 DEF Reading, ReadBit, Running
  <2>2. pos \div ByteBits < DataBytes
    BY DEF ReadBit, InData
  <2>3. pos + 1 <= DataBytes * ByteBits
    BY <1>1, <2>1, <2>2, DataHolds
  <2>. QED BY <1>3, <2>1, <2>3
<1>6. Position(Len(out), pos, node)' /\ DataBytes' = DataBytes
  BY <1>3, <1>4 DEF Position, DataBytes
<1>7. Reading'
  <2>1. next = Len(src) /\ count \in Nat
    BY <1>1 DEF Reading
  <2>. QED BY <1>3, <1>4, <1>5, <1>6, <2>1 DEF Reading
<1>8. pc' = "decompress"
  BY DEF ReadBit
<1>. QED BY <1>2, <1>7, <1>8 DEF CodecInv

\* With no more than the payload's bits nothing is malformed.
LEMMA MalformedStep ==
    ASSUME CodecInv, Malformed
    PROVE  CodecInv'
<1>1. Written /\ Reading /\ Sizes
  BY DEF CodecInv, Malformed, Written
<1>2. Written'
  BY <1>1, WrittenUnmoved DEF Malformed, input, compressor
<1>3. /\ Len(bits) \in Nat /\ pos \in 0..count /\ count \in Nat /\ pos < count
      /\ Len(out) \in Nat /\ next \in Nat
  BY <1>1 DEF Reading, Malformed, Running, Sizes
<1>4. ~(Len(out) < next) => Len(bits) <= pos
  BY <1>1 DEF Reading, Position
<1>5. ~(Len(out) < next)
  <2>1. SUFFICES ASSUME Len(out) < next PROVE FALSE
    OBVIOUS
  <2>2. /\ pos < Len(bits) /\ IsPtr(Entry)
        /\ IsLeaf(Ptr(Entry)) => HasValue(Ptr(Entry))
    BY <1>1, <1>3, <2>1, OnPath
  <2>3. pos \in Nat
    BY <1>3
  <2>4. InData
    BY <1>1, <2>2, <2>3, DataHolds DEF InData
  <2>. QED BY <2>2, <2>4 DEF Malformed
<1>6. count > Len(bits)
  BY <1>3, <1>4, <1>5
<1>7. pc' = "error" /\ UNCHANGED <<src, next, bits, count>>
  BY DEF Malformed, input, compressor
<1>. QED BY <1>2, <1>6, <1>7 DEF CodecInv

LEMMA DecompressedStep ==
    ASSUME CodecInv, Decompressed
    PROVE  CodecInv'
<1>1. Written /\ Reading /\ ~Running
  BY DEF CodecInv, Decompressed
<1>2. UNCHANGED <<src, capacity, next, bits, starts, count, pos, node, out>>
      /\ pc' = "done"
  BY DEF Decompressed, input, compressor, decompressor
<1>3. Written' /\ Reading' /\ ~Running'
  BY <1>1, <1>2, WrittenUnmoved DEF Reading, Position, Running, DataBytes
<1>. QED BY <1>2, <1>3 DEF CodecInv

LEMMA CodecStep == TypeOK /\ CodecInv /\ [Next]_vars => CodecInv'
<1>. SUFFICES ASSUME TypeOK, CodecInv, [Next]_vars PROVE CodecInv'
  OBVIOUS
<1>1. CASE UNCHANGED vars
  <2>1. UNCHANGED <<pc, src, room, capacity, next, bits, starts, count, pos, node, out>>
    BY <1>1 DEF vars, input, compressor, decompressor
  <2>2. Written'
    BY <2>1, WrittenUnmoved DEF CodecInv
  <2>3. Reading => Reading'
    BY <2>1 DEF Reading, Position, DataBytes
  <2>4. ~Running => ~Running'
    BY <2>1 DEF Running
  <2>. QED BY <2>1, <2>2, <2>3, <2>4 DEF CodecInv
<1>. QED
  BY <1>1, CompressStep, OverflowStep, CompressedStep, StartStep, ReadBitStep,
     MalformedStep, DecompressedStep DEF Next

LEMMA CodecAlways == Spec => []CodecInv
BY InitCodec, CodecStep, TypeCorrect, PTL DEF Spec

\* The loop over the bits ends with the bytes whose codes are before pos.
LEMMA DoneWith ==
    ASSUME CodecInv, pc = "done"
    PROVE  /\ next = Len(src)
           /\ \A i \in 1..Len(src) :
                /\ i <= Len(out) <=> i <= capacity /\ EndOf(i) <= count
                /\ i <= Len(out) => out[i] = src[i]
           /\ count <= Len(bits) => Len(out) <= Len(src)
           /\ count > DataBytes * ByteBits => Len(out) = capacity
<1>. DEFINE m == Len(out)
<1>1. /\ Written /\ Reading /\ Sizes
      /\ ~(pos < count) \/ ~(m < capacity)
  BY DEF CodecInv, Written, Running
<1>2. /\ Len(src) \in Nat /\ Len(bits) \in Nat /\ capacity \in Nat
      /\ m \in Nat /\ m <= capacity /\ next = Len(src)
      /\ count \in Nat /\ pos \in 0..count /\ pos <= DataBytes * ByteBits
      /\ \A i \in 1..Len(src) : i <= m => out[i] = src[i]
      /\ DataBytes * ByteBits \in Nat
  BY <1>1, DataHolds DEF Reading, Sizes
<1>3. \A i \in 1..next : /\ EndOf(i) \in Nat /\ EndOf(i) <= Len(bits)
                          /\ starts[i] \in Nat /\ starts[i] <= EndOf(i)
  <2>. TAKE i \in 1..next
  <2>1. src[i] \in Bytes /\ starts[i] \in Nat
    BY <1>1, <1>2 DEF Sizes
  <2>2. EncLength[src[i]] \in Nat
    BY <2>1, CodeType
  <2>3. CodeAt(src[i], starts[i], bits)
    BY <1>1 DEF Written
  <2>. QED BY <2>1, <2>2, <2>3 DEF CodeAt, EndOf
<1>4. m < next => pos < EndOf(m + 1) /\ starts[m + 1] <= pos
  BY <1>1 DEF Reading, Position, EndOf
<1>5. ~(m < next) => Len(bits) <= pos /\ (pos = Len(bits) => m = next)
  BY <1>1 DEF Reading, Position
<1>6. \A i, j \in 1..next : i < j => EndOf(i) <= starts[j]
  BY <1>1 DEF Written
<1>. HIDE DEF m
<1>7. ASSUME NEW i \in 1..next
      PROVE  i <= m <=> i <= capacity /\ EndOf(i) <= count
  <2>1. CASE i <= m
    <3>1. EndOf(i) <= pos
      <4>1. CASE m < next
        <5>1. i < m + 1 /\ m + 1 \in 1..next
          BY <1>2, <2>1, <4>1
        <5>2. EndOf(i) <= starts[m + 1]
          BY <1>6, <5>1
        <5>. QED BY <1>2, <1>3, <1>4, <4>1, <5>1, <5>2
      <4>2. CASE ~(m < next)
        BY <1>2, <1>3, <1>5, <4>2
      <4>. QED BY <4>1, <4>2
    <3>. QED BY <1>2, <1>3, <2>1, <3>1
  <2>2. CASE ~(i <= m)
    <3>1. m < next /\ m + 1 \in 1..next /\ (i = m + 1 \/ m + 1 < i)
      BY <1>2, <2>2
    <3>2. EndOf(m + 1) <= EndOf(i)
      BY <1>3, <1>6, <3>1
    <3>3. pos < EndOf(i)
      BY <1>2, <1>3, <1>4, <3>1, <3>2
    <3>. QED BY <1>1, <1>2, <1>3, <2>2, <3>3
  <2>. QED BY <2>1, <2>2
<1>8. count <= Len(bits) => m <= Len(src)
  BY <1>2, <1>5
<1>9. count > DataBytes * ByteBits => m = capacity
  BY <1>1, <1>2
<1>. QED BY <1>2, <1>7, <1>8, <1>9 DEF m

\* Decompress undoes Compress as far as the count and the buffer allow: for
\* any tables that agree on the codes, any payload, count and buffers, it
\* returns the payload's bytes whose codes the count covers, and nothing else
\* unless the count exceeds the data; an error has a cause.
THEOREM PayloadsComeBack == Spec => []RoundTrip
<1>1. CodecInv => RoundTrip
  BY DoneWith DEF CodecInv, RoundTrip
<1>. QED BY <1>1, CodecAlways, PTL

\* A bit count beyond the last byte of the data succeeds only with a full
\* buffer, for any tables, payload, count and buffers.
THEOREM OverrunsAreRejected == Spec => []OverrunRejected
<1>1. CodecInv => OverrunRejected
  BY DoneWith DEF OverrunRejected
<1>. QED BY <1>1, CodecAlways, PTL

\* buildNetworkPacket's buffer of 2n + 64 bytes is enough for every payload
\* of n bytes, if no code is longer than two bytes.
THEOREM RouterBuffersSuffice == Spec => []RouterBufferSuffices
<1>1. CodecInv => RouterBufferSuffices
  BY DEF CodecInv, RouterBufferSuffices
<1>. QED BY <1>1, CodecAlways, PTL
=============================================================================
