----------------------------- MODULE FFXICodec -----------------------------
(***************************************************************************)
(* The bit coding of datagrams: a payload is compressed byte by byte into  *)
(* a buffer, and what was written is decompressed bit by bit into another. *)
(* Both directions work on tables loaded from resource files: the length   *)
(* and the bits of each byte's code, and a jump table that holds the tree  *)
(* of the codes.  Compress and Decompress are loops, one iteration a step. *)
(*                                                                         *)
(* A byte has ByteBits bits.  The buffer of the compressor is fresh, hence *)
(* zero beyond what is written.                                            *)
(***************************************************************************)
EXTENDS Integers, Sequences

CONSTANTS
    Bytes,          \* the values of a byte
    ByteBits,       \* bits in a byte
    EncLength,      \* compress.dat: the length of each byte's code ...
    EncPattern,     \* ... and the code, its first bit the lowest
    Dec,            \* decompress.dat: words, indexed from 0
    Path,           \* the nodes of the tree on the way to each byte
    Sources,        \* payloads
    Rooms,          \* lengths of the buffers to compress into
    Counts,         \* bit counts handed to Decompress, besides Compress' own
    Capacities      \* lengths of the buffers to decompress into

Bit == {0, 1}

\* The code of a byte, as compressSub takes it from the pattern.
Code(b) == [k \in 1..EncLength[b] |-> (EncPattern[b] \div 2^(k - 1)) % 2]

-----------------------------------------------------------------------------
(* The jump table: an entry is a pointer to another one, or a value.       *)

Base == Dec[0] - 4

MaxByte == 2^ByteBits - 1

IsPtr(e) == Dec[e] > MaxByte

Ptr(e) == (Dec[e] - Base) \div 4

Root == Ptr(0)

\* Neither child is there: the value is three entries on.
IsLeaf(node) == ~IsPtr(node) /\ ~IsPtr(node + 1)

HasValue(node) == Dec[node + 3] <= MaxByte

\* jumpEntryAt adds to a pointer unchecked: a pointer must lead to a node with
\* its two entries, and with the value's entry if it is a leaf.
InTable(node) ==
    /\ {node, node + 1} \subseteq DOMAIN Dec
    /\ IsLeaf(node) => node + 3 \in DOMAIN Dec

\* What populateJumpTable insists on, a root and pointers into the table; what
\* it leaves to the resource file, whole nodes; and what the two files owe
\* each other: the code of a byte leads from the root of the tree to a leaf
\* with this byte.
ASSUME TablesAssumption ==
    /\ ByteBits \in Nat \ {0} /\ Bytes = 0..MaxByte
    /\ 0 \in DOMAIN Dec /\ DOMAIN Dec \subseteq Nat
    /\ \A e \in DOMAIN Dec : Dec[e] \in Nat
    /\ IsPtr(0)
    /\ \A e \in DOMAIN Dec : IsPtr(e) => InTable(Ptr(e))
    /\ EncLength \in [Bytes -> Nat \ {0}]
    /\ EncPattern \in [Bytes -> Nat]
    /\ \A b \in Bytes :
        /\ Path[b] \in [0..EncLength[b] -> Nat]
        /\ Path[b][0] = Root
        /\ \A k \in 1..EncLength[b] :
            /\ IsPtr(Path[b][k - 1] + Code(b)[k])
            /\ Path[b][k] = Ptr(Path[b][k - 1] + Code(b)[k])
            /\ IsLeaf(Path[b][k]) <=> k = EncLength[b]
        /\ HasValue(Path[b][EncLength[b]])
        /\ Dec[Path[b][EncLength[b]] + 3] = b

\* The router's buffers are large enough for codes of two bytes or less.
ASSUME BuffersAssumption ==
    /\ Sources \subseteq Seq(Bytes)
    /\ Rooms \subseteq Nat \ {0}
    /\ Counts \subseteq Nat /\ Capacities \subseteq Nat
    /\ \A b \in Bytes : EncLength[b] <= 2 * ByteBits

VARIABLES
    pc,
    src,            \* the payload
    room,           \* the length of the compressor's buffer
    next,           \* how many bytes are compressed
    bits,           \* what is written after the first byte of the buffer
    starts,         \* where the code of each byte starts
    count,          \* the bit count handed to Decompress
    capacity,       \* the length of Decompress's buffer
    pos,            \* the bit to be read
    node,           \* jmp
    out             \* the bytes decompressed

input == <<src, room, capacity>>
compressor == <<next, bits, starts>>
decompressor == <<pos, node, out>>
vars == <<pc, input, compressor, count, decompressor>>

\* Mutant: the buffer is as long as the payload, and its first byte.
RouterRoomShort(n) == n + 1

\* buildNetworkPacket's buffer for a payload of n bytes.
RouterRoom(n) == 2 * n + 64

Init ==
    /\ pc = "compress"
    /\ src \in Sources
    /\ room \in Rooms \cup {RouterRoom(Len(src))}
    /\ capacity \in Capacities
    /\ next = 0 /\ bits = <<>> /\ starts = <<>>
    /\ count = 0
    /\ pos = 0 /\ node = Root /\ out = <<>>

-----------------------------------------------------------------------------
(* Compress                                                                *)

MaxBits == (room - 1) * ByteBits

\* Mutant: the whole buffer counts, its first byte included.
FitsWithHeader(b) == EncLength[b] + Len(bits) < room * ByteBits

\* The code fits with at least a bit to spare.
Fits(b) == EncLength[b] + Len(bits) < MaxBits

CompressByte ==
    /\ pc = "compress" /\ next < Len(src)
    /\ Fits(src[next + 1])
    /\ starts' = Append(starts, Len(bits))
    /\ bits' = bits \o Code(src[next + 1])
    /\ next' = next + 1
    /\ UNCHANGED <<pc, input, count, decompressor>>

\* A buffer that is too small for the payload as it is: fillOverflowOutput
\* leaves zero in the first byte, and the length is returned as a success.
Overflow ==
    /\ pc = "compress" /\ next < Len(src)
    /\ ~Fits(src[next + 1])
    /\ pc' = IF Len(src) + 1 >= room THEN "overflow" ELSE "no space"
    /\ count' = Len(src)
    /\ UNCHANGED <<input, compressor, decompressor>>

\* The first byte is set to one.  The bit count returned has this byte's bits
\* too; a caller of Decompress passes it as it is, takes them off again, or
\* passes the count that came with the datagram, which may be any.
Compressed ==
    /\ pc = "compress" /\ next = Len(src)
    /\ pc' = "compressed"
    /\ count' \in Counts \cup {Len(bits), Len(bits) + ByteBits}
    /\ UNCHANGED <<input, compressor, decompressor>>

-----------------------------------------------------------------------------
(* Decompress                                                              *)

\* compressedSize: whole bytes for a number of bits.
CompressedSize(n) == (n + ByteBits - 1) \div ByteBits

\* The bytes after the first one.
DataBytes == CompressedSize(Len(bits))

\* More bits than the input has, its first byte included.
TooManyBits == count > (DataBytes + 1) * ByteBits

\* Mutant: the first byte is not looked at.
StartUnchecked ==
    /\ pc \in {"compressed", "overflow"}
    /\ pc' = IF count = 0 \/ TooManyBits THEN "error" ELSE "decompress"
    /\ UNCHANGED <<input, compressor, count, decompressor>>

\* A first byte other than one, no bits at all or too many are refused.
Start ==
    /\ pc \in {"compressed", "overflow"}
    /\ pc' = IF count = 0 \/ pc = "overflow" \/ TooManyBits THEN "error"
             ELSE "decompress"
    /\ UNCHANGED <<input, compressor, count, decompressor>>

Running == pos < count /\ Len(out) < capacity

BitAt(i) == IF i < Len(bits) THEN bits[i + 1] ELSE 0

Entry == node + BitAt(pos)

\* Mutant: the data is not known to end.
InDataAlways == TRUE

InData == pos \div ByteBits < DataBytes

\* One bit down the tree; at a leaf, a byte is written and the way starts
\* again at the root.
ReadBit ==
    LET below == Ptr(Entry) IN
    /\ pc = "decompress" /\ Running
    /\ InData /\ IsPtr(Entry)
    /\ IsLeaf(below) => HasValue(below)
    /\ pos' = pos + 1
    /\ out' = IF IsLeaf(below) THEN Append(out, Dec[below + 3]) ELSE out
    /\ node' = IF IsLeaf(below) THEN Root ELSE below
    /\ UNCHANGED <<pc, input, compressor, count>>

\* Beyond the data, no child on this side, or a leaf without a value.
Malformed ==
    /\ pc = "decompress" /\ Running
    /\ \/ ~InData
       \/ ~IsPtr(Entry)
       \/ IsPtr(Entry) /\ IsLeaf(Ptr(Entry)) /\ ~HasValue(Ptr(Entry))
    /\ pc' = "error"
    /\ UNCHANGED <<input, compressor, count, decompressor>>

Decompressed ==
    /\ pc = "decompress" /\ ~Running
    /\ pc' = "done"
    /\ UNCHANGED <<input, compressor, count, decompressor>>

Next ==
    \/ CompressByte \/ Overflow \/ Compressed
    \/ Start \/ ReadBit \/ Malformed \/ Decompressed

Spec == Init /\ [][Next]_vars

-----------------------------------------------------------------------------
(* Properties.                                                             *)

\* Type correctness.  What is written never reaches beyond the buffer, so
\* that compressSub's own check does not fire; the decoder's unchecked reads
\* stay inside the jump table.
TypeOK ==
    /\ pc \in {"compress", "compressed", "overflow", "no space",
               "decompress", "done", "error"}
    /\ src \in Sources /\ room \in Nat \ {0} /\ capacity \in Nat
    /\ next \in 0..Len(src)
    /\ bits \in Seq(Bit) /\ Len(bits) <= MaxBits
    /\ starts \in Seq(Nat) /\ Len(starts) = next
    /\ count \in Nat /\ pos \in Nat /\ InTable(node)
    /\ out \in Seq(Bytes) /\ Len(out) <= capacity

\* The bits up to the end of the i-th byte's code.
EndOf(i) == starts[i] + EncLength[src[i]]

\* With any count and any buffer, what Decompress returns as a success has
\* each byte of the payload that has its whole code within the count and its
\* place within the buffer, and no other unless the count exceeds the bits of
\* the data.  An error is for such a count, for none, or for a payload that
\* did not fit and was never compressed, although Compress may have returned
\* success for it.
RoundTrip ==
    /\ pc = "done" =>
        /\ next = Len(src)
        /\ \A i \in 1..Len(src) :
            /\ i <= Len(out) <=> i <= capacity /\ EndOf(i) <= count
            /\ i <= Len(out) => out[i] = src[i]
        /\ count <= Len(bits) => Len(out) <= Len(src)
    /\ pc = "error" => next < Len(src) \/ count = 0 \/ count > Len(bits)

\* A count beyond the last byte of the data, as Compress' own is that has the
\* first byte's bits too (codec_test.go takes 8 off), succeeds only if the
\* buffer is full before the data ends.
OverrunRejected ==
    pc = "done" /\ count > DataBytes * ByteBits => Len(out) = capacity

\* The buffer of buildNetworkPacket is never too small, so that no datagram
\* carries what Compress leaves in a buffer that is.
RouterBufferSuffices ==
    room = RouterRoom(Len(src)) => pc \notin {"overflow", "no space"}
=============================================================================
