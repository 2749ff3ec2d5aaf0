---------------------------- MODULE StateEncodings ----------------------------
(***************************************************************************)
(* The byte layouts of the compressed machine's states (src/States) and    *)
(* the bit arrays they use (Common/BitArray).  A state is the memory of    *)
(* one malloc: a function from offsets to bytes.  A writer returns the     *)
(* memory it leaves, a reader what it makes of it.                         *)
(*                                                                         *)
(* The parallel arrays chars, gotos (failures in a path), ptrTypes and     *)
(* matches are one sequence of elements [c, ptr, type, match].             *)
(***************************************************************************)
EXTENDS Integers, Sequences, SequencesExt, FiniteSetsExt

\* STATE_TYPE_...
LINEAR_ENCODED == 0
BITMAP_ENCODED == 1
LOOKUP_TABLE == 2
PATH_COMPRESSED == 3
\* PTR_TYPE_...
REGULAR == 0
LEVEL0 == 1
LEVEL1 == 2
LEVEL2 == 3

PTR_SIZE == 2
MAX_NODE_DEGREE == 64
LOOKUP_VALUE_NOT_FOUND == 65535
Nowhere == -1      \* a pointer fetched through NULL: hashmap_get found nothing

Byte == 0 .. 255
StateId == 0 .. LOOKUP_VALUE_NOT_FOUND - 1
Element == [c : Byte, ptr : StateId, type : {REGULAR, LEVEL1, LEVEL2}, match : {0, 1}]
MAX_ARRAY_LENGTH == 100     \* of the local arrays of sortArrays
MAX_PATH_LENGTH == 512      \* of the local arrays that collect a path
Whole(v) == v            \* mutant: a byte is not cut off
Lo(v) == v % 256
Hi(v) == (v \div 256) % 256
CeilDiv(a, b) == (a + b - 1) \div b                  \* (int)ceil(a / b)
Signed(b) == IF b > 127 THEN b - 256 ELSE b          \* a char is signed

malloc(n, garbage) == [i \in 0 .. n - 1 |-> garbage]
Store(d, at, bytes) ==
    [i \in DOMAIN d |-> IF i - at \in 0 .. Len(bytes) - 1 THEN bytes[i - at + 1] ELSE d[i]]
Fill(d, at, n, b) == [i \in DOMAIN d |-> IF i - at \in 0 .. n - 1 THEN b ELSE d[i]]
\* A pointer, low byte first.
Fetch(d, at) == d[at + 1] * 256 + d[at]
SetPtr(d, at, v) == [d EXCEPT ![at] = Lo(v), ![at + 1] = Hi(v)]

Header(type, size) == type + 4 * (size % 64)         \* GET_HEADER_AS_BYTE0
GET_STATE_TYPE(d) == d[0] % 4
HeaderSize(d)     == d[0] \div 4

-----------------------------------------------------------------------------
(* BitArray.                                                               *)

GET_1BIT(d, at, i) == (d[at + i \div 8] \div 2 ^ (i % 8)) % 2
SET_1BIT(d, at, i, v) ==
    IF v % 2 = 1 /\ GET_1BIT(d, at, i) = 0
    THEN [d EXCEPT ![at + i \div 8] = @ + 2 ^ (i % 8)] ELSE d
GET_2BITS_Unshifted(d, at, i) == GET_1BIT(d, at, 2 * i) + GET_1BIT(d, at, 2 * i + 1)   \* mutant
GET_2BITS(d, at, i) == GET_1BIT(d, at, 2 * i) + 2 * GET_1BIT(d, at, 2 * i + 1)
SET_2BITS(d, at, i, v) == SET_1BIT(SET_1BIT(d, at, 2 * i, v), at, 2 * i + 1, v \div 2)

\* An element of three bits may lie in two bytes: the masks pick the bits of
\* either byte.
SET_3BITS_InOneByte(d, at, i, v) ==     \* mutant: what the next byte holds is lost
    LET last == 8 * ((3 * i) \div 8) + 7
        Put(m, k) == IF 3 * i + k > last THEN m
                     ELSE SET_1BIT(m, at, 3 * i + k, v \div 2 ^ k)
    IN Put(Put(Put(d, 0), 1), 2)
SET_3BITS(d, at, i, v) ==
    LET Put(m, k) == SET_1BIT(m, at, 3 * i + k, v \div 2 ^ k)
    IN Put(Put(Put(d, 0), 1), 2)

GET_3BITS(d, at, i) ==
    LET bit  == (3 * i) % 8
        byte == at + (3 * i) \div 8
        high == IF bit > 5 THEN (d[byte + 1] % (2 ^ (bit - 5))) * 2 ^ (8 - bit) ELSE 0
    IN ((d[byte] \div 2 ^ bit) % (IF bit < 6 THEN 8 ELSE 2 ^ (8 - bit))) + high

GET_MATCH_BIT(v) == v % 2
GET_PTR_TYPE(v)  == (v \div 2) % 4

\* POPCOUNT and the loop over the match bitmap of a lookup table count the
\* bits in front of a bit.
POPCOUNT(d, at, bit) == Cardinality({b \in 0 .. bit - 1 : GET_1BIT(d, at, b) = 1})

-----------------------------------------------------------------------------
(* What the writers share.                                                 *)

\* The loop over the elements, from the memory d: round i turns the memory m
\* into set[m][i].
Memories(d) == [DOMAIN d -> Int]
ForEach(es, d, set) ==
    LET after[n \in Nat] == IF n = 0 THEN d ELSE set[after[n - 1]][n]
    IN after[Len(es)]

\* Stores the pointers of type REGULAR one behind the other.
StorePtr(d, ptrs, es, i) ==
    IF es[i].type # REGULAR THEN d
    ELSE SetPtr(d, ptrs + PTR_SIZE * Cardinality({k \in 1 .. i - 1 : es[k].type = REGULAR}),
                es[i].ptr)

\* "Memory index out of bound": the process exits.
OutOfBound_Early(ptrs, es, memsize) ==      \* mutant: the last byte is out of bound
    \E i \in DOMAIN es :
        /\ es[i].type = REGULAR
        /\ ptrs + PTR_SIZE * Cardinality({k \in 1 .. i : es[k].type = REGULAR}) >= memsize
OutOfBound(ptrs, es, memsize) ==
    \E i \in DOMAIN es :
        /\ es[i].type = REGULAR
        /\ ptrs + PTR_SIZE * Cardinality({k \in 1 .. i : es[k].type = REGULAR}) - 1 >= memsize

\* What the readers share: the i-th pointer of type REGULAR.
FetchPtr(d, ptrs, TypeOf(_), i) ==
    Fetch(d, ptrs + PTR_SIZE * Cardinality({k \in 0 .. i - 1 : TypeOf(k) = REGULAR}))

\* A pointer of another type is looked up with the last characters; first and
\* second are machine->firstLevelLookupTable and ->secondLevelLookupHash.
GET_FIRST_LEVEL_STATE(first, c) == first[c]
GET_SECOND_LEVEL_STATE(second, b, c) ==
    IF <<b, c>> \in DOMAIN second THEN second[<<b, c>>] ELSE Nowhere

-----------------------------------------------------------------------------
(* LinearEncodedState.c                                                    *)
(* [ type:2 size:6, id:16, memsize, fail:16, chars, flags:3 each, ptrs ]   *)

FAIL_IDX == 4
FlagsOf_LE(d) == FAIL_IDX + 2 + HeaderSize(d)
PtrsOf_LE(d)  == FlagsOf_LE(d) + CeilDiv(3 * HeaderSize(d), 8)

createEmptyState_LE(id, size, numPtrsToL12, garbage) ==
    LET memsize == 4 + size + PTR_SIZE * (size - numPtrsToL12) + CeilDiv(3 * size, 8) + PTR_SIZE
    IN Store(malloc(memsize, garbage), 0,
             <<Header(LINEAR_ENCODED, size), Hi(id), Lo(id), Lo(memsize)>>)

Flag(e) == 2 * e.type + e.match

SetChild_LE(d, es, m, i) ==
    StorePtr(SET_3BITS([m EXCEPT ![FAIL_IDX + 1 + i] = es[i].c], FlagsOf_LE(d), i - 1, Flag(es[i])),
             PtrsOf_LE(d), es, i)
setStateData_LE(d, elements, failure) ==
    LET es    == SubSeq(elements, 1, HeaderSize(d))
        set   == [m \in Memories(d) |-> [i \in Nat |-> SetChild_LE(d, es, m, i)]]
        clean == Fill(SetPtr(d, FAIL_IDX, failure),
                      FlagsOf_LE(d), CeilDiv(3 * HeaderSize(d), 8), 0)
    IN ForEach(es, clean, set)

\* The readers return the next state's id, whether they failed, the match bit,
\* the rows of the state's patterns that matched and the new *idx.
Failed(fail, idx) == [next |-> fail, fail |-> TRUE, match |-> 0, rows |-> <<>>, idx |-> idx]
Goto(next, match, row, idx) ==
    [next |-> next, fail |-> FALSE, match |-> match,
     rows |-> IF match = 1 THEN <<row>> ELSE <<>>, idx |-> idx + 1]

\* A pointer by its type; the last character read is str[idx].
Resolve(type, regular, str, idx, first, second) ==
    CASE type = REGULAR -> regular
      [] type = LEVEL0 -> 0
      [] type = LEVEL1 -> GET_FIRST_LEVEL_STATE(first, str[idx])
      [] type = LEVEL2 -> GET_SECOND_LEVEL_STATE(second, str[idx - 1], str[idx])

\* A goto of a linear or bitmap encoded state by its flag.  Type LEVEL0 is
\* unknown to them: "Unknown pointer type".
GotoByFlag(d, flags, ptrs, i, str, idx, first, second) ==
    LET flag(k) == GET_3BITS(d, flags, k)
        type(k) == GET_PTR_TYPE(flag(k))
        next == IF type(i) = LEVEL0 THEN Nowhere
                ELSE Resolve(type(i), FetchPtr(d, ptrs, type, i), str, idx + 1, first, second)
    IN Goto(next, GET_MATCH_BIT(flag(i)),
            Cardinality({k \in 0 .. i - 1 : GET_MATCH_BIT(flag(k)) = 1}), idx)

\* The characters of the state are compared as signed chars.
getNextState_LE(d, str, idx, first, second) ==
    LET at == {k \in 0 .. HeaderSize(d) - 1 : Signed(d[FAIL_IDX + 2 + k]) = str[idx + 1]}
        i  == CHOOSE k \in at : \A l \in at : k <= l
    IN IF at = {} THEN Failed(Fetch(d, FAIL_IDX), idx)
       ELSE GotoByFlag(d, FlagsOf_LE(d), PtrsOf_LE(d), i, str, idx, first, second)

\* What the C standard leaves undefined: a copy beyond an array, a variable
\* without a value.
Undefined == [undefined |-> TRUE]

\* What a line of a printed state shows: a pointer of another type as -1, -2.
PrintedFlag(d, flags, ptrs, i, c) ==
    LET type(k) == GET_PTR_TYPE(GET_3BITS(d, flags, k))
    IN [c |-> c, match |-> GET_MATCH_BIT(GET_3BITS(d, flags, i)),
        ptr |-> CASE type(i) = REGULAR -> FetchPtr(d, ptrs, type, i)
                  [] type(i) = LEVEL1 -> -1
                  [] type(i) = LEVEL2 -> -2]

printState_LE(d) ==
    [i \in 1 .. HeaderSize(d) |->
        PrintedFlag(d, FlagsOf_LE(d), PtrsOf_LE(d), i - 1, d[FAIL_IDX + 1 + i])]

getStateID_LE(d)     == d[1] * 256 + d[2]
getSizeInBytes_LE(d) == d[3]

-----------------------------------------------------------------------------
(* BitmapEncodedState.c                                                    *)
(* [ type:2 size:6, id:16, memsize, fail:16, bitmap:256, flags, ptrs ]     *)

BitmapOf_BM   == FAIL_IDX + 2
FlagsOf_BM    == FAIL_IDX + 2 + 32
PtrsOf_BM(d)  == FlagsOf_BM + CeilDiv(3 * HeaderSize(d), 8)

createEmptyState_BM(id, size, numPtrsToL12, garbage) ==
    LET memsize == 4 + 32 + PTR_SIZE * (size - numPtrsToL12) + CeilDiv(3 * size, 8) + PTR_SIZE
    IN Store(malloc(memsize, garbage), 0,
             <<Header(BITMAP_ENCODED, size), Hi(id), Lo(id), Lo(memsize)>>)

SetChild_BM(d, es, m, i) ==
    StorePtr(SET_3BITS(SET_1BIT(m, BitmapOf_BM, es[i].c, 1), FlagsOf_BM, i - 1, Flag(es[i])),
             PtrsOf_BM(d), es, i)
setStateData_BM(d, elements, failure) ==
    LET es    == SubSeq(elements, 1, HeaderSize(d))
        set   == [m \in Memories(d) |-> [i \in Nat |-> SetChild_BM(d, es, m, i)]]
        clean == Fill(SetPtr(d, FAIL_IDX, failure),
                      BitmapOf_BM, 32 + CeilDiv(3 * HeaderSize(d), 8), 0)
    IN ForEach(es, clean, set)

getNextState_BM(d, str, idx, first, second) ==
    LET c == str[idx + 1]
    IN IF GET_1BIT(d, BitmapOf_BM, c) = 0 THEN Failed(Fetch(d, FAIL_IDX), idx)
       ELSE GotoByFlag(d, FlagsOf_BM, PtrsOf_BM(d), POPCOUNT(d, BitmapOf_BM, c),
                       str, idx, first, second)

printState_BM(d) ==
    LET nth(i) == CHOOSE c \in Byte : GET_1BIT(d, BitmapOf_BM, c) = 1 /\ POPCOUNT(d, BitmapOf_BM, c) = i
    IN [i \in 1 .. HeaderSize(d) |->
           PrintedFlag(d, FlagsOf_BM, PtrsOf_BM(d), i - 1, nth(i - 1))]

getStateID_BM(d)     == d[1] * 256 + d[2]
getSizeInBytes_BM(d) == d[3]

-----------------------------------------------------------------------------
(* LookupTableState.c and .h                                               *)
(* [ type:2 size:14, id:16, 255, fail:16, match bitmap:256, 256 ptrs ]     *)

SIZE_IN_BYTES == 551
FAIL_IDX_LT == 5
BitmapOf_LT == FAIL_IDX_LT + 2
TableOf_LT  == FAIL_IDX_LT + 2 + 32

Length14(d) == HeaderSize(d) * 256 + d[1]       \* size:14 of two layouts

createEmptyState_LT(id, size, garbage) ==
    Store(malloc(SIZE_IN_BYTES, garbage), 0,
          <<Header(LOOKUP_TABLE, size \div 256), Lo(size), Hi(id), Lo(id), 255>>)

SetChild_LT(es, m, i) ==
    SetPtr(SET_1BIT(m, BitmapOf_LT, es[i].c, es[i].match),
           TableOf_LT + PTR_SIZE * es[i].c, es[i].ptr)
setStateData_LT(d, elements, failure) ==
    LET es    == SubSeq(elements, 1, Length14(d))
        set   == [m \in Memories(d) |-> [i \in Nat |-> SetChild_LT(es, m, i)]]
        clean == Fill(Fill(SetPtr(d, FAIL_IDX_LT, failure),
                           BitmapOf_LT, 32, 0), TableOf_LT, 256 * PTR_SIZE, 255)
    IN ForEach(es, clean, set)

TableEntry(d, c) == Fetch(d, TableOf_LT + PTR_SIZE * c)

\* The macro, and the copies of it in matchIterative and
\* CompressURLsStateMachine: an entry of ones is no goto.
GET_NEXT_STATE_LT(d, str, idx) ==
    LET c == str[idx + 1]
    IN IF TableEntry(d, c) = LOOKUP_VALUE_NOT_FOUND THEN Failed(Fetch(d, FAIL_IDX_LT), idx)
       ELSE Goto(TableEntry(d, c), GET_1BIT(d, BitmapOf_LT, c), POPCOUNT(d, BitmapOf_LT, c), idx)

\* The function: an entry of zeros is no goto.  Its masks are 0x1, 0x2, 0x4,
\* 0x8, 0x16, 0x32, 0x64 and 0x128, and its loop leaves after the first byte or
\* counts no bit behind it.
getNextState_LT_LowByte(d, str, idx) ==     \* mutant: a byte of the entry decides
    LET c == str[idx + 1]
    IN IF TableEntry(d, c) % 256 = 0 THEN Failed(Fetch(d, FAIL_IDX_LT), idx)
       ELSE Goto(TableEntry(d, c), GET_1BIT(d, BitmapOf_LT, c), 0, idx)
Mask_LT == <<{0}, {1}, {2}, {3}, {1, 2, 4}, {1, 4, 5}, {2, 5, 6}, {3, 5}>>
getNextState_LT(d, str, idx) ==
    LET c == str[idx + 1]
        counted == {p \in 0 .. 7 : p < c /\ \E b \in Mask_LT[p + 1] : GET_1BIT(d, BitmapOf_LT, b) = 1}
    IN IF TableEntry(d, c) = 0 THEN Failed(Fetch(d, FAIL_IDX_LT), idx)
       ELSE Goto(TableEntry(d, c), GET_1BIT(d, BitmapOf_LT, c), Cardinality(counted), idx)

\* printState_LT and printState_PC collect lines of 14 characters behind the 31
\* of a header, and a NUL, in a buffer of 2048: this many fit.
MAX_PRINTED == 144

\* The lines printState_LT prints, by their character, and the states
\* getAllNextStates_LT returns: an entry of zeros is left out.
printState_LT(d) ==
    LET shown == {c \in Byte : TableEntry(d, c) # 0}
    IN IF Cardinality(shown) > MAX_PRINTED THEN Undefined
       ELSE [c \in shown |-> [match |-> GET_1BIT(d, BitmapOf_LT, c), ptr |-> TableEntry(d, c)]]
getAllNextStates_LT(d) == {TableEntry(d, c) : c \in {b \in Byte : TableEntry(d, b) # 0}}

getStateID_LT(d)     == d[2] * 256 + d[3]
getSizeInBytes_LT(d) == SIZE_IN_BYTES

-----------------------------------------------------------------------------
(* PathCompressedState.c and .h                                            *)
(* [ type:2 size:14, id:16, memsize:16, goto:16, chars, matches, flags:2   *)
(*   each, failures ]                                                      *)

GOTO_IDX == 6
MatchesOf_PC(d)  == GOTO_IDX + 2 + Length14(d)
FlagsOf_PC(d)    == MatchesOf_PC(d) + CeilDiv(Length14(d), 8)
FailuresOf_PC(d) == FlagsOf_PC(d) + CeilDiv(Length14(d), 4)

createEmptyState_PC(id, size, numFailPtrsToL12, garbage) ==
    LET memsize == 6 + size + PTR_SIZE * (size - numFailPtrsToL12) + CeilDiv(size, 8)
                     + CeilDiv(size, 4) + PTR_SIZE
    IN Store(malloc(memsize, garbage), 0,
             <<Header(PATH_COMPRESSED, size \div 256), Lo(size), Hi(id), Lo(id),
               Hi(memsize), Lo(memsize)>>)

\* A failure to the root has a type of its own.
WithLevel0(es) == [i \in DOMAIN es |-> IF es[i].ptr = 0 THEN [es[i] EXCEPT !.type = LEVEL0]
                                       ELSE es[i]]
SetPosition_PC(d, es, m, i) ==
    StorePtr(SET_2BITS(SET_1BIT([m EXCEPT ![GOTO_IDX + 1 + i] = es[i].c],
                                MatchesOf_PC(d), i - 1, es[i].match),
                       FlagsOf_PC(d), i - 1, es[i].type),
             FailuresOf_PC(d), es, i)
setStateData_PC(d, elements, next) ==
    LET es    == WithLevel0(SubSeq(elements, 1, Length14(d)))
        set   == [m \in Memories(d) |-> [i \in Nat |-> SetPosition_PC(d, es, m, i)]]
        clean == Fill(SetPtr(d, GOTO_IDX, next), MatchesOf_PC(d),
                      CeilDiv(Length14(d), 8) + CeilDiv(Length14(d), 4), 0)
    IN ForEach(es, clean, set)

\* Both readers follow the path while the characters agree and the input lasts.
Walked(d, str, idx) ==
    LET agrees(k) == \A i \in 1 .. k : idx + i <= Len(str) /\ str[idx + i] = d[GOTO_IDX + 1 + i]
    IN CHOOSE k \in 0 .. Length14(d) : agrees(k) /\ (k = Length14(d) \/ ~ agrees(k + 1))

MatchesThrough(d, i) ==         \* mutant: the matching position counts itself
    Cardinality({j \in 0 .. i : GET_1BIT(d, MatchesOf_PC(d), j) = 1})
MatchesBefore(d, i) == Cardinality({j \in 0 .. i - 1 : GET_1BIT(d, MatchesOf_PC(d), j) = 1})

\* The matching ones among the first k positions, in their order.
MatchingPositions(d, k) ==
    LET matching == {i \in 0 .. k - 1 : GET_1BIT(d, MatchesOf_PC(d), i) = 1}
    IN [r \in 1 .. Cardinality(matching) |->
           CHOOSE i \in matching : Cardinality({j \in matching : j < i}) = r - 1]

\* row is the row of patterns of every position.
WalkPath(d, str, idx, first, second, row) ==
    LET walked == Walked(d, str, idx)
        failed == walked < Length14(d) /\ idx + walked < Len(str)
        matched == MatchingPositions(d, walked)
        type(i) == GET_2BITS(d, FlagsOf_PC(d), i)
    IN [next  |-> IF ~ failed THEN Fetch(d, GOTO_IDX)
                  ELSE Resolve(type(walked), FetchPtr(d, FailuresOf_PC(d), type, walked),
                               str, idx + walked, first, second),
        fail  |-> failed,
        match |-> IF DOMAIN matched = {} THEN 0 ELSE 1,
        rows  |-> [r \in DOMAIN matched |-> row[matched[r]]],
        idx   |-> idx + walked]

GET_NEXT_STATE_PC(d, str, idx, first, second) ==
    WalkPath(d, str, idx, first, second, [i \in 0 .. Length14(d) |-> MatchesBefore(d, i)])

\* The function counts the matching position itself, once per position
\* before it.  Then it copies as many bytes as `length' bits take between arrays
\* of 100 bytes.  length is its local hoffmanCodeLength: without a value, unless a
\* match was seen with verbose; then it is that of a pattern of the table, which
\* nobody sets.  A negative number of bytes is a huge one.
CopyFits(length) == length \in -15 .. 799
getNextState_PC(d, str, idx, first, second, length) ==
    IF CopyFits(length) THEN WalkPath(d, str, idx, first, second, [i \in 0 .. Length14(d) |-> i])
    ELSE Undefined

\* The lines of printState_PC.  It still reads the layout of the comment above
\* createEmptyState_PC that says OLD: flags of three bits, match and type, where
\* the match bits are, and the failures behind them.
OldFailuresOf_PC(d) == MatchesOf_PC(d) + CeilDiv(3 * Length14(d), 8)
PrintedPosition_PC(d, i) ==
    LET flag(k) == GET_3BITS(d, MatchesOf_PC(d), k)
        type(k) == GET_PTR_TYPE(flag(k))
        at == OldFailuresOf_PC(d) + PTR_SIZE * Cardinality({k \in 0 .. i - 1 : type(k) = REGULAR})
    IN [c |-> d[GOTO_IDX + 2 + i], match |-> GET_MATCH_BIT(flag(i)),
        ptr |-> CASE type(i) = REGULAR /\ at + 1 \in DOMAIN d -> Fetch(d, at)
                  [] type(i) = REGULAR /\ at + 1 \notin DOMAIN d -> Undefined
                  [] type(i) = LEVEL0 -> Undefined
                  [] type(i) = LEVEL1 -> -1
                  [] type(i) = LEVEL2 -> -2]
printState_PC(d) ==
    IF Length14(d) > MAX_PRINTED THEN Undefined
    ELSE [i \in 1 .. Length14(d) |-> PrintedPosition_PC(d, i - 1)]

getAllNextStates_PC(d) == {Fetch(d, GOTO_IDX)}

getStateID_PC(d)       == d[2] * 256 + d[3]
getSizeInBytes_PC(d)   == d[4] * 256 + d[5]

-----------------------------------------------------------------------------
(* SimpleLinearEncodedState.c: linear states, and tables for nodes of 64   *)
(* children or more.                                                       *)
(* [ type:2 failMSB:4 idMSB:1 match:1, size, id:16, memsize:16, fail:16,   *)
(*   chars, 2 high bits of each ptr, ptrs ]                                *)

FAIL_IDX_SLE == 6
IdMSB(id) == IF id > 65535 THEN 16 ELSE 0

createEmptyTableState(id, size, garbage) ==
    LET memsize == 6 + 256 * PTR_SIZE + 32 + 32 + PTR_SIZE
    IN Store(malloc(memsize, garbage), 0,
             <<Header(LOOKUP_TABLE, IdMSB(id)), Lo(size), Hi(id), Lo(id), Hi(memsize), Lo(memsize)>>)

createEmptyState_SLE(id, size, garbage) ==
    LET memsize == 6 + size + PTR_SIZE * size + CeilDiv(2 * size, 8) + PTR_SIZE
    IN IF size >= 64 THEN createEmptyTableState(id, size, garbage)
       ELSE Store(malloc(memsize, garbage), 0,
                  <<Header(LINEAR_ENCODED, IdMSB(id)), Lo(size), Hi(id), Lo(id),
                    Hi(memsize), Lo(memsize)>>)

\* The failure and the match bit; failMSB is still clear.
SetFailure_SLE(d, failure, match) ==
    SetPtr([d EXCEPT ![0] = @ + 4 * (((failure \div 65536) % 16) + IF match THEN 32 ELSE 0)],
           FAIL_IDX_SLE, failure)

HighBits(d, at, i, ptr) ==
    SET_1BIT(SET_1BIT(d, at, 2 * i, ptr \div 65536), at, 2 * i + 1, ptr \div 131072)

SetChild_Table(bits, ptrs, es, m, i) ==
    SetPtr(HighBits(m, bits, es[i].c, es[i].ptr), ptrs + PTR_SIZE * es[i].c, es[i].ptr)
setTableStateData(d, es, failure, match) ==
    LET bits  == FAIL_IDX_SLE + 2
        ptrs  == FAIL_IDX_SLE + 2 + 32 + 32
        set   == [m \in Memories(d) |-> [i \in Nat |-> SetChild_Table(bits, ptrs, es, m, i)]]
        clean == Fill(Fill(SetFailure_SLE(d, failure, match), bits, 64, 0), ptrs, 256 * PTR_SIZE, 255)
    IN ForEach(SubSeq(es, 1, d[1]), clean, set)

SetChild_SLE(bits, ptrs, es, m, i) ==
    SetPtr(HighBits([m EXCEPT ![FAIL_IDX_SLE + 1 + i] = es[i].c], bits, i - 1, es[i].ptr),
           ptrs + PTR_SIZE * (i - 1), es[i].ptr)
setStateData_SLE(d, es, failure, match) ==
    LET bits  == FAIL_IDX_SLE + 2 + d[1]
        ptrs  == bits + CeilDiv(2 * d[1], 8)
        set   == [m \in Memories(d) |-> [i \in Nat |-> SetChild_SLE(bits, ptrs, es, m, i)]]
        clean == Fill(SetFailure_SLE(d, failure, match), bits, CeilDiv(2 * d[1], 8), 0)
    IN IF GET_STATE_TYPE(d) = LOOKUP_TABLE THEN setTableStateData(d, es, failure, match)
       ELSE ForEach(SubSeq(es, 1, d[1]), clean, set)

FailureOf_SLE(d) == (HeaderSize(d) % 16) * 65536 + Fetch(d, FAIL_IDX_SLE)

\* The bits are those of the character, the pointer is not: it is read 32
\* bytes in front of where it was stored.
getNextStateFromTableState(d, str, idx) ==
    LET c == str[idx + 1]
        value == GET_2BITS(d, FAIL_IDX_SLE + 2, c)
        ptr == FAIL_IDX_SLE + 2 + 64 + 2 * c
    IN IF value # 3 \/ d[ptr] = 0 \/ d[ptr + 1] = 0
       THEN Goto(value * 65536 + Fetch(d, FAIL_IDX_SLE + 2 + 32 + c * 2), 0, 0, idx)
       ELSE Failed(FailureOf_SLE(d), idx)

\* The pointers are looked for behind one bit per child, not two.
getNextState_SLE(d, str, idx) ==
    LET at == {k \in 0 .. d[1] - 1 : Signed(d[FAIL_IDX_SLE + 2 + k]) = str[idx + 1]}
        i  == CHOOSE k \in at : \A l \in at : k <= l
        bits == FAIL_IDX_SLE + 2 + d[1]
    IN IF GET_STATE_TYPE(d) = LOOKUP_TABLE THEN getNextStateFromTableState(d, str, idx)
       ELSE IF at = {} THEN Failed(FailureOf_SLE(d), idx)
       ELSE Goto(GET_2BITS(d, bits, i) * 65536 + Fetch(d, bits + CeilDiv(d[1], 8) + 2 * i), 0, 0, idx)

-----------------------------------------------------------------------------
(* StateGenerator.c, and the dispatch on a state's type in StateMachine.c. *)


\* The requested type, or a lookup table where the state is too large for it.
TypeFor(type, size) == IF type # LOOKUP_TABLE /\ size > MAX_NODE_DEGREE THEN LOOKUP_TABLE ELSE type

generateEmptyBranchState(type, id, size, numPtrsToL12, garbage) ==
    CASE TypeFor(type, size) = LINEAR_ENCODED -> createEmptyState_LE(id, size, numPtrsToL12, garbage)
      [] TypeFor(type, size) = BITMAP_ENCODED -> createEmptyState_BM(id, size, numPtrsToL12, garbage)
      [] TypeFor(type, size) = LOOKUP_TABLE -> createEmptyState_LT(id, size, garbage)

\* The bubble sort of sortArrays: by character.
SortArrays(es) ==
    [k \in DOMAIN es |->
        CHOOSE e \in ToSet(es) : Cardinality({f \in ToSet(es) : f.c < e.c}) = k - 1]

\* The elements in the order in which a state stores them.
StoredOrder(d, es) ==
    CASE GET_STATE_TYPE(d) = LINEAR_ENCODED -> es
      [] GET_STATE_TYPE(d) = BITMAP_ENCODED -> SortArrays(SubSeq(es, 1, HeaderSize(d)))
      [] GET_STATE_TYPE(d) = LOOKUP_TABLE -> SortArrays(SubSeq(es, 1, Length14(d)))

setDataBranchState(d, es, failure) ==
    CASE GET_STATE_TYPE(d) = LINEAR_ENCODED -> setStateData_LE(d, StoredOrder(d, es), failure)
      [] GET_STATE_TYPE(d) = BITMAP_ENCODED -> setStateData_BM(d, StoredOrder(d, es), failure)
      [] GET_STATE_TYPE(d) = LOOKUP_TABLE -> setStateData_LT(d, StoredOrder(d, es), failure)

\* The writer exits: "Memory index out of bound".
WriterExits(d, es) ==
    CASE GET_STATE_TYPE(d) = LINEAR_ENCODED ->
            OutOfBound(PtrsOf_LE(d), SubSeq(es, 1, HeaderSize(d)), d[3])
      [] GET_STATE_TYPE(d) = BITMAP_ENCODED ->
            OutOfBound(PtrsOf_BM(d), SubSeq(es, 1, HeaderSize(d)), d[3])
      [] GET_STATE_TYPE(d) = LOOKUP_TABLE -> FALSE
      [] GET_STATE_TYPE(d) = PATH_COMPRESSED ->
            OutOfBound(FailuresOf_PC(d), WithLevel0(es), getSizeInBytes_PC(d))

getStateID(d) ==
    CASE GET_STATE_TYPE(d) = LINEAR_ENCODED -> getStateID_LE(d)
      [] GET_STATE_TYPE(d) = BITMAP_ENCODED -> getStateID_BM(d)
      [] GET_STATE_TYPE(d) = LOOKUP_TABLE -> getStateID_LT(d)
      [] GET_STATE_TYPE(d) = PATH_COMPRESSED -> getStateID_PC(d)

getStateSizeInBytes(d) ==
    CASE GET_STATE_TYPE(d) = LINEAR_ENCODED -> getSizeInBytes_LE(d)
      [] GET_STATE_TYPE(d) = BITMAP_ENCODED -> getSizeInBytes_BM(d)
      [] GET_STATE_TYPE(d) = LOOKUP_TABLE -> getSizeInBytes_LT(d)
      [] GET_STATE_TYPE(d) = PATH_COMPRESSED -> getSizeInBytes_PC(d)

\* A step of matchIterative and CompressURLsStateMachine outside the root.
NextStateOf(d, str, idx, first, second) ==
    CASE GET_STATE_TYPE(d) = LINEAR_ENCODED -> getNextState_LE(d, str, idx, first, second)
      [] GET_STATE_TYPE(d) = BITMAP_ENCODED -> getNextState_BM(d, str, idx, first, second)
      [] GET_STATE_TYPE(d) = LOOKUP_TABLE -> GET_NEXT_STATE_LT(d, str, idx)
      [] GET_STATE_TYPE(d) = PATH_COMPRESSED -> GET_NEXT_STATE_PC(d, str, idx, first, second)

\* A step of matchRecursive; length as for getNextState_PC.
getNextState(d, str, idx, first, second, length) ==
    CASE GET_STATE_TYPE(d) = LINEAR_ENCODED -> getNextState_LE(d, str, idx, first, second)
      [] GET_STATE_TYPE(d) = BITMAP_ENCODED -> getNextState_BM(d, str, idx, first, second)
      [] GET_STATE_TYPE(d) = LOOKUP_TABLE -> getNextState_LT(d, str, idx)
      [] GET_STATE_TYPE(d) = PATH_COMPRESSED -> getNextState_PC(d, str, idx, first, second, length)
=============================================================================
