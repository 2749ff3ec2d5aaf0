------------------------------ MODULE BitPacker ------------------------------
(***************************************************************************)
(* Packing of Huffman codes into bytes: ConcutByteArrayToByteArray and     *)
(* ConcutBitsToSingleByte (CommonFunctions.c), called with the row of      *)
(* results that CompressURLsMachine cleared and with one code after the    *)
(* other.  A step is a call, an iteration of the copying loop, or the      *)
(* return.                                                                 *)
(*                                                                         *)
(* A byte is a function from 0..7 to bits, 0 being the most significant    *)
(* bit: a shift moves bits and drops those that leave the byte.  (C shifts *)
(* ints, but stores every result in an unsigned char.)                     *)
(***************************************************************************)
EXTENDS Integers

CONSTANTS
    Codes,    \* the codes: records of an array of bytes and a size in bits
    MaxBytes  \* length of a row of results (50 in main.c)

Bit  == {0, 1}
Byte == [0 .. 7 -> Bit]

\* memcpy reads size/8 + 1 bytes of a code.
ASSUME BPAssumption ==
    /\ MaxBytes \in Nat
    /\ \A c \in Codes : /\ c.size \in Nat
                        /\ c.bytes \in [0 .. c.size \div 8 -> Byte]

VARIABLES
    dest,         \* the row of results
    indexFrom,    \* the byte being filled
    used,         \* sizeOfDataInLastUsedIndex: bits used in that byte
    tempSource,   \* the copy of the code the loop shifts
    sourceIndex,  \* the byte of the code being copied
    inByte,       \* numOfRemainingToCopyBitsInSourceIndex
    left,         \* sizeOfSourceData, counted down
    code,         \* the code of the call
    pc,           \* "idle", "copy", "overflow"
    committed     \* auxiliary: bits in dest when the call began

outVars  == <<dest, indexFrom, used>>
callVars == <<tempSource, sourceIndex, inByte, left, code>>
bpVars   == <<outVars, callVars, pc, committed>>

-----------------------------------------------------------------------------
Least(m, n) == IF m < n THEN m ELSE n

ZeroByte == [b \in 0 .. 7 |-> 0]

ShiftLeft(x, n)  == [b \in 0 .. 7 |-> IF b + n <= 7 THEN x[b + n] ELSE 0]
ShiftRight(x, n) == [b \in 0 .. 7 |-> IF b - n >= 0 THEN x[b - n] ELSE 0]
BitOr(x, y)      == [b \in 0 .. 7 |-> IF x[b] = 1 \/ y[b] = 1 THEN 1 ELSE 0]

\* numOfBits bits of source behind the first sizeOfDest bits of byte.
ConcutUnmasked(byte, sizeOfDest, source, numOfBits) ==   \* mutant: source not shifted
    LET free == 8 - (sizeOfDest + numOfBits)
    IN  ShiftLeft(BitOr(ShiftRight(byte, free), source), free)
ConcutWithTail(byte, sizeOfDest, source, numOfBits) ==   \* mutant: no bits cut off
    BitOr(byte, ShiftRight(source, sizeOfDest))
ConcutBitsToSingleByte(byte, sizeOfDest, source, numOfBits) ==
    LET free == 8 - (sizeOfDest + numOfBits)
    IN  ShiftLeft(BitOr(ShiftRight(byte, free),
                        ShiftRight(source, 8 - numOfBits)), free)

-----------------------------------------------------------------------------
BPInit ==
    /\ dest = [k \in 0 .. MaxBytes - 1 |-> ZeroByte]
    /\ indexFrom = 0 /\ used = 0 /\ committed = 0
    /\ pc = "idle"
    /\ code \in Codes
    /\ tempSource = code.bytes
    /\ sourceIndex = 0 /\ inByte = 0 /\ left = 0

Call(c) ==
    /\ pc = "idle"
    /\ code' = c
    /\ tempSource' = c.bytes
    /\ sourceIndex' = 0
    /\ left' = c.size
    /\ inByte' = Least(8, c.size)
    /\ pc' = "copy"
    /\ UNCHANGED <<outVars, committed>>

\* An iteration moves as many bits as the source byte still has and the
\* destination byte still takes.
roomLeft   == 8 - used          \* mutant: more than the source byte has
bitsToCopy == Least(inByte, 8 - used)

CopyBits ==
    LET n == bitsToCopy IN
    /\ pc = "copy" /\ left > 0 /\ indexFrom < MaxBytes
    /\ dest' = [dest EXCEPT ![indexFrom] =
                  ConcutBitsToSingleByte(@, used, tempSource[sourceIndex], n)]
    /\ indexFrom' = IF used + n = 8 THEN indexFrom + 1 ELSE indexFrom
    /\ used' = IF used + n = 8 THEN 0 ELSE used + n
    /\ tempSource' = [tempSource EXCEPT ![sourceIndex] = ShiftLeft(@, n)]
    /\ left' = left - n
    /\ sourceIndex' = IF inByte = n THEN sourceIndex + 1 ELSE sourceIndex
    /\ inByte' = IF inByte = n THEN Least(8, left - n) ELSE inByte - n
    /\ UNCHANGED <<code, pc, committed>>

\* The row is full and the code is not: the next write is outside the row.
Overflow ==
    /\ pc = "copy" /\ left > 0 /\ indexFrom >= MaxBytes
    /\ pc' = "overflow"
    /\ UNCHANGED <<outVars, callVars, committed>>

Return ==
    /\ pc = "copy" /\ left = 0
    /\ pc' = "idle"
    /\ committed' = 8 * indexFrom + used
    /\ UNCHANGED <<outVars, callVars>>

ConcutByteArrayToByteArray ==
    (\E c \in Codes : Call(c)) \/ CopyBits \/ Overflow \/ Return

BPStopped == pc = "overflow" /\ UNCHANGED bpVars

BPNext == ConcutByteArrayToByteArray \/ BPStopped

BPSpec == BPInit /\ [][BPNext]_bpVars

-----------------------------------------------------------------------------
(* Properties.                                                             *)

\* Bit p of an array of bytes.
BitAt(bytes, p) == bytes[p \div 8][p % 8]

\* Bits written, bits of the code copied.
Filled == 8 * indexFrom + used
Copied == code.size - left

\* Every variable has its type: no byte is filled beyond its eight bits, no index
\* is behind the row, no count is negative.
BPTypeOK ==
    /\ code \in Codes
    /\ dest \in [0 .. MaxBytes - 1 -> Byte]
    /\ tempSource \in [0 .. code.size \div 8 -> Byte]
    /\ indexFrom \in 0 .. MaxBytes /\ used \in 0 .. 7
    /\ left \in 0 .. code.size /\ inByte \in 0 .. 8 /\ sourceIndex \in Nat
    /\ pc \in {"idle", "copy", "overflow"}
    /\ committed \in Nat

\* Between two iterations the row holds what it held before the call followed
\* by the bits of the code copied so far, and behind them only zeros: no
\* iteration disturbs a bit that was written or leaves one it did not copy.
RowHoldsStream ==
    pc # "idle" =>
        /\ Filled = committed + Copied
        /\ \A p \in committed .. Filled - 1 :
              BitAt(dest, p) = BitAt(code.bytes, p - committed)

\* Behind the bits written the row is zero, whatever followed the last bit of a
\* code: the next code is ORed into clean bits.
ZeroBehind ==
    \A p \in Filled .. 8 * MaxBytes - 1 : BitAt(dest, p) = 0

\* The bits of a code, and of the finished calls.
BitsOf(c) == [p \in 1 .. c.size |-> BitAt(c.bytes, p - 1)]
Output    == [p \in 1 .. committed |-> BitAt(dest, p - 1)]

\* The packer implements BitStream: the row is the concatenation of the codes,
\* bit by bit, and every call appends its code as one.
Stream == INSTANCE BitStream WITH stream   <- Output,
                                  CodeBits <- {BitsOf(c) : c \in Codes}
AppendsCodes == Stream!Spec

=============================================================================
