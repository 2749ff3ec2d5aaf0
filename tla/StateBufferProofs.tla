-------------------------- MODULE StateBufferProofs --------------------------
(***************************************************************************)
(* Proofs about module StateBuffer, over the lemmas of EncodingProofs.     *)
(***************************************************************************)
EXTENDS StateBuffer, EncodingProofs

\* The pointers of type REGULAR of a sequence.
LEMMA RegularPtrsIs ==
    ASSUME NEW es, NEW l \in Nat, DOMAIN es = 1 .. l
    PROVE  RegularPtrs(es) = RegularIn(es, l)
  BY DEF RegularPtrs, RegularIn

-----------------------------------------------------------------------------
(* The invariant.                                                          *)

MemSize == Cardinality(DOMAIN data)
TypesOf(k) == IF k = "path" THEN {PATH_COMPRESSED} ELSE {LINEAR_ENCODED, BITMAP_ENCODED, LOOKUP_TABLE}

SBTypes ==
    /\ phase \in {"new", "empty", "set", "exit"} /\ kind \in {"branch", "path", "simple"}
    /\ id \in Ids \cup {0} /\ failure \in Ids \cup {0} /\ matching \in BOOLEAN
    /\ MemSize \in Nat /\ data \in Memory(MemSize)
    /\ phase = "new" => elements = <<>>
    /\ phase # "new" => elements \in IF kind = "path" THEN PathLists ELSE ElementLists

\* A state is as it was created or holds what it was given; a writer exited
\* only if the memory was too small.
StateIsCreated ==
    phase # "new" /\ kind # "simple" =>
        \E type \in TypesOf(kind) : Created(data, type, MemSize, id, Len(elements))
StateIsSet ==
    phase \in {"set", "exit"} /\ kind # "simple" =>
        /\ phase = "exit" <=> WriterExits(data, elements)
        /\ phase = "set" => Holds(data, MemSize, elements, failure)
SimpleIsEmpty ==
    phase = "empty" /\ kind = "simple" => data[0] <= 127 /\ data[1] = Len(elements)

SBInv == SBTypes /\ StateIsCreated /\ StateIsSet /\ SimpleIsEmpty

\* The constants of the module, as the lemmas need them.
LEMMA ListsAre ==
    /\ \A es \in ElementLists : es \in Seq(Element) /\ Len(es) \in 1 .. MAX_ARRAY_LENGTH /\ Distinct(es)
    /\ \A es \in PathLists : es \in Seq(Element) /\ Len(es) \in 1 .. MAX_PATH_LENGTH
    /\ \A i \in Ids : i \in StateId
    /\ \A g \in Garbage : g \in Byte
  BY SBAssumption DEF Distinct

\* The counts of pointers that take no memory are at most those of elements.
LEMMA CountsAre ==
    /\ \A es \in Seq(Element) : PtrsToL12(es) \subseteq 0 .. Len(es)
    /\ \A es \in Seq(Element) : PtrsToL12(WithLevel0(es)) \subseteq 0 .. Len(es)
<1>1. \A es : PtrsToL12(es) \subseteq 0 .. Len(es)
  BY DEF PtrsToL12
<1> QED
  BY <1>1, Level0

\* The initial states satisfy the invariant.
LEMMA InitIsRight ==
    SBInit => SBInv
<1> SUFFICES ASSUME SBInit PROVE SBInv
  OBVIOUS
<1> USE DEF SBInit
<1>1. data \in Memory(0)
  BY DEF malloc, Memory
<1>2. MemSize = 0
  BY <1>1, MemoryIs DEF MemSize
<1>3. SBTypes
  BY <1>1, <1>2 DEF SBTypes
<1> QED
  BY <1>3 DEF SBInv, StateIsCreated, StateIsSet, SimpleIsEmpty

\* createEmptyState of a branch keeps the invariant.
LEMMA NewBranchKeepsInv ==
    SBInv /\ NewBranch => SBInv'
<1> SUFFICES ASSUME SBInv, NewBranch PROVE SBInv'
  OBVIOUS
<1>1. PICK type \in {LINEAR_ENCODED, BITMAP_ENCODED, LOOKUP_TABLE}, g \in Garbage :
      \E i \in Ids, es \in ElementLists : \E p \in PtrsToL12(es) :
         data' = generateEmptyBranchState(type, i, Len(es), p, g) /\ id' = i /\ elements' = es
  BY DEF NewBranch
<1>0. PICK i \in Ids, es \in ElementLists :
      \E p \in PtrsToL12(es) :
         data' = generateEmptyBranchState(type, i, Len(es), p, g) /\ id' = i /\ elements' = es
  BY <1>1
<1>2. PICK p \in PtrsToL12(es) :
         data' = generateEmptyBranchState(type, i, Len(es), p, g) /\ id' = i /\ elements' = es
  BY <1>0
<1>3. kind' = "branch" /\ phase' = "empty" /\ failure' = failure /\ matching' = matching
  BY DEF NewBranch
<1>4. es \in Seq(Element) /\ Len(es) \in 1 .. MAX_ARRAY_LENGTH /\ i \in StateId /\ g \in Byte
  BY ListsAre
<1>5. p \in 0 .. Len(es)
  BY <1>2, <1>4, CountsAre
<1>6. PICK t \in {LINEAR_ENCODED, BITMAP_ENCODED, LOOKUP_TABLE}, n \in Nat : Created(data', t, n, i, Len(es))
  BY SMTT(20), <1>2, <1>4, <1>5, BranchIsCreated
<1>7. data' \in Memory(n)
  BY <1>6 DEF Created
<1>8. MemSize' = n
  BY <1>7, MemoryIs DEF MemSize
<1>9. SBTypes'
  <2>1. failure \in Ids \cup {0} /\ matching \in BOOLEAN
    BY DEF SBInv, SBTypes
  <2> QED
    BY <1>2, <1>3, <1>7, <1>8, <2>1 DEF SBTypes
<1>10. StateIsCreated'
  BY <1>2, <1>3, <1>6, <1>8 DEF StateIsCreated, TypesOf
<1> QED
  BY <1>3, <1>9, <1>10 DEF SBInv, StateIsSet, SimpleIsEmpty

\* createEmptyState_PC keeps the invariant.
LEMMA NewPathKeepsInv ==
    SBInv /\ NewPath => SBInv'
<1> SUFFICES ASSUME SBInv, NewPath PROVE SBInv'
  OBVIOUS
<1>1. PICK g \in Garbage, i \in Ids, es \in PathLists :
      \E p \in PtrsToL12(WithLevel0(es)) :
         data' = createEmptyState_PC(i, Len(es), p, g) /\ id' = i /\ elements' = es
  BY DEF NewPath
<1>2. PICK p \in PtrsToL12(WithLevel0(es)) :
         data' = createEmptyState_PC(i, Len(es), p, g) /\ id' = i /\ elements' = es
  BY <1>1
<1>3. kind' = "path" /\ phase' = "empty" /\ failure' = failure /\ matching' = matching
  BY DEF NewPath
<1>4. es \in Seq(Element) /\ Len(es) \in 1 .. MAX_PATH_LENGTH /\ i \in StateId /\ g \in Byte
  BY ListsAre
<1>5. p \in 0 .. Len(es)
  BY <1>2, <1>4, CountsAre
<1>6. PICK n \in Nat : Created(data', PATH_COMPRESSED, n, i, Len(es))
  BY <1>2, <1>4, <1>5, PathIsCreated
<1>7. data' \in Memory(n)
  BY <1>6 DEF Created
<1>8. MemSize' = n
  BY <1>7, MemoryIs DEF MemSize
<1>9. SBTypes'
  <2>1. failure \in Ids \cup {0} /\ matching \in BOOLEAN
    BY DEF SBInv, SBTypes
  <2> QED
    BY <1>2, <1>3, <1>7, <1>8, <2>1 DEF SBTypes
<1>10. StateIsCreated'
  BY <1>2, <1>3, <1>6, <1>8 DEF StateIsCreated, TypesOf
<1> QED
  BY <1>3, <1>9, <1>10 DEF SBInv, StateIsSet, SimpleIsEmpty

\* createEmptyState_SLE keeps the invariant.
LEMMA NewSimpleKeepsInv ==
    SBInv /\ NewSimple => SBInv'
<1> SUFFICES ASSUME SBInv, NewSimple PROVE SBInv'
  OBVIOUS
<1>1. PICK g \in Garbage, i \in Ids, es \in ElementLists :
         data' = createEmptyState_SLE(i, Len(es), g) /\ id' = i /\ elements' = es
  BY DEF NewSimple
<1>2. kind' = "simple" /\ phase' = "empty" /\ failure' = failure /\ matching' = matching
  BY DEF NewSimple
<1>3. Len(es) \in 1 .. MAX_ARRAY_LENGTH /\ i \in StateId /\ g \in Byte
  BY ListsAre
<1>4. PICK n \in Nat : data' \in Memory(n) /\ (data')[0] <= 127 /\ (data')[1] = Len(es)
  BY <1>1, <1>3, SimpleIsCreated
<1>5. MemSize' = n
  BY <1>4, MemoryIs DEF MemSize
<1>6. SBTypes'
  <2>1. failure \in Ids \cup {0} /\ matching \in BOOLEAN
    BY DEF SBInv, SBTypes
  <2> QED
    BY <1>1, <1>2, <1>4, <1>5, <2>1 DEF SBTypes
<1> QED
  BY <1>1, <1>2, <1>4, <1>6 DEF SBInv, StateIsCreated, StateIsSet, SimpleIsEmpty


\* A writer that does not exit keeps the invariant.
LEMMA SetDataKeepsInv ==
    SBInv /\ SetData => SBInv'
<1> SUFFICES ASSUME SBInv, SetData PROVE SBInv'
  OBVIOUS
<1>1. /\ phase = "empty" /\ phase' = "set" /\ kind' = kind /\ id' = id /\ elements' = elements
      /\ failure' \in Ids /\ matching' \in BOOLEAN
      /\ kind # "simple" => ~ WriterExits(data, elements)
  BY DEF SetData
<1>2. /\ kind = "branch" => data' = setDataBranchState(data, elements, failure')
      /\ kind = "path" => data' = setStateData_PC(data, elements, failure')
      /\ kind = "simple" => data' = setStateData_SLE(data, elements, failure', matching')
  BY DEF SetData
<1>3. /\ kind \in {"branch", "path", "simple"} /\ MemSize \in Nat /\ data \in Memory(MemSize)
      /\ id \in Ids \cup {0} /\ elements \in IF kind = "path" THEN PathLists ELSE ElementLists
  BY <1>1 DEF SBInv, SBTypes
<1>4. failure' \in StateId
  BY <1>1, ListsAre
<1>5. kind # "simple" => \E t \in TypesOf(kind) : Created(data, t, MemSize, id, Len(elements))
  BY <1>1 DEF SBInv, StateIsCreated
<1> DEFINE n == MemSize
           m == data'
           fail == failure'
           Right(t) == Created(m, t, n, id, Len(elements)) /\ ~ WriterExits(m, elements) /\ Holds(m, n, elements, fail)
<1>6. CASE kind = "branch"
  <2>1. elements \in ElementLists
    BY <1>3, <1>6
  <2>2. elements \in Seq(Element) /\ Distinct(elements)
    BY <2>1, ListsAre
  <2>3. PICK t \in {LINEAR_ENCODED, BITMAP_ENCODED, LOOKUP_TABLE} : Created(data, t, n, id, Len(elements))
    BY <1>5, <1>6 DEF TypesOf
  <2>4. m = setDataBranchState(data, elements, fail)
    BY <1>2, <1>6
  <2>5. ~ WriterExits(data, elements) /\ n \in Nat /\ fail \in StateId
    BY <1>1, <1>3, <1>4, <1>6
  <2>6. Right(t)
    <3> HIDE DEF n, m, fail
    <3>1. CASE t = LINEAR_ENCODED
      BY <2>2, <2>3, <2>4, <2>5, <3>1, LinearStateIsSet
    <3>2. CASE t = BITMAP_ENCODED
      BY <2>2, <2>3, <2>4, <2>5, <3>2, BitmapStateIsSet
    <3>3. CASE t = LOOKUP_TABLE
      BY <2>2, <2>3, <2>4, <2>5, <3>3, LookupStateIsSet
    <3> QED
      BY <3>1, <3>2, <3>3
  <2>7. m \in Memory(n)
    BY <2>6 DEF Created
  <2>8. MemSize' = n
    BY <1>3, <2>7, MemoryIs DEF MemSize
  <2>9. SBTypes'
    BY <1>1, <1>3, <1>6, <2>7, <2>8 DEF SBTypes
  <2>10. StateIsCreated'
    <3> HIDE DEF n
    <3> QED
      BY <1>1, <1>6, <2>6, <2>8 DEF StateIsCreated, TypesOf
  <2>11. StateIsSet'
    <3> HIDE DEF n
    <3> QED
      BY <1>1, <1>6, <2>6, <2>8 DEF StateIsSet
  <2> QED
    BY <1>1, <1>6, <2>9, <2>10, <2>11 DEF SBInv, SimpleIsEmpty
<1>7. CASE kind = "path"
  <2>1. elements \in PathLists
    BY <1>3, <1>7
  <2>2. elements \in Seq(Element)
    BY <2>1, ListsAre
  <2>3. Created(data, PATH_COMPRESSED, n, id, Len(elements))
    BY <1>5, <1>7 DEF TypesOf
  <2>4. m = setStateData_PC(data, elements, fail)
    BY <1>2, <1>7
  <2>5. ~ WriterExits(data, elements) /\ n \in Nat /\ fail \in StateId
    BY <1>1, <1>3, <1>4, <1>7
  <2>6. Right(PATH_COMPRESSED)
    <3> HIDE DEF n, m, fail
    <3> QED
      BY <2>2, <2>3, <2>4, <2>5, PathStateIsSet
  <2>7. m \in Memory(n)
    BY <2>6 DEF Created
  <2>8. MemSize' = n
    BY <1>3, <2>7, MemoryIs DEF MemSize
  <2>9. SBTypes'
    BY <1>1, <1>3, <1>7, <2>7, <2>8 DEF SBTypes
  <2>10. StateIsCreated'
    <3> HIDE DEF n
    <3> QED
      BY <1>1, <1>7, <2>6, <2>8 DEF StateIsCreated, TypesOf
  <2>11. StateIsSet'
    <3> HIDE DEF n
    <3> QED
      BY <1>1, <1>7, <2>6, <2>8 DEF StateIsSet
  <2> QED
    BY <1>1, <1>7, <2>9, <2>10, <2>11 DEF SBInv, SimpleIsEmpty
<1>8. CASE kind = "simple"
  <2>1. elements \in ElementLists
    BY <1>3, <1>8
  <2>2. elements \in Seq(Element) /\ Len(elements) \in Nat
    BY <2>1, ListsAre
  <2>3. data[0] <= 127 /\ data[1] = Len(elements)
    BY <1>1, <1>8 DEF SBInv, SimpleIsEmpty
  <2>4. data[1] \in Nat /\ data[1] <= Len(elements)
    BY <2>2, <2>3
  <2>5. m \in Memory(n)
    <3> HIDE DEF n
    <3>1. n \in Nat /\ data \in Memory(n) /\ m = setStateData_SLE(data, elements, fail, matching')
      BY <1>2, <1>3, <1>8 DEF n
    <3> HIDE DEF m, fail
    <3>2. fail \in StateId /\ matching' \in BOOLEAN
      BY <1>1, <1>4 DEF fail
    <3> QED
      BY <2>2, <2>3, <2>4, <3>1, <3>2, SimpleIsSet
  <2>6. MemSize' = n
    BY <1>3, <2>5, MemoryIs DEF MemSize
  <2>7. SBTypes'
    BY <1>1, <1>3, <1>8, <2>5, <2>6 DEF SBTypes
  <2> QED
    BY <1>1, <1>8, <2>7 DEF SBInv, StateIsCreated, StateIsSet, SimpleIsEmpty
<1> QED
  BY <1>3, <1>6, <1>7, <1>8

\* A writer that exits keeps the invariant.
LEMMA WriterExitKeepsInv ==
    SBInv /\ WriterExit => SBInv'
<1> SUFFICES ASSUME SBInv, WriterExit PROVE SBInv'
  OBVIOUS
<1>1. /\ phase = "empty" /\ kind # "simple" /\ WriterExits(data, elements) /\ phase' = "exit"
      /\ kind' = kind /\ data' = data /\ id' = id /\ elements' = elements /\ failure' = failure
      /\ matching' = matching
  BY DEF WriterExit
<1>2. MemSize' = MemSize
  BY <1>1 DEF MemSize
<1>3. SBTypes'
  BY <1>1, <1>2 DEF SBInv, SBTypes
<1>4. StateIsCreated'
  BY <1>1, <1>2 DEF SBInv, StateIsCreated
<1>5. StateIsSet'
  BY <1>1, <1>2 DEF StateIsSet
<1> QED
  BY <1>1, <1>3, <1>4, <1>5 DEF SBInv, SimpleIsEmpty

\* A stuttering step keeps the invariant.
LEMMA StutterKeepsInv ==
    SBInv /\ UNCHANGED sbVars => SBInv'
<1> SUFFICES ASSUME SBInv, UNCHANGED sbVars PROVE SBInv'
  OBVIOUS
<1>1. /\ phase' = phase /\ kind' = kind /\ data' = data /\ id' = id /\ elements' = elements
      /\ failure' = failure /\ matching' = matching
  BY DEF sbVars
<1>2. MemSize' = MemSize
  BY <1>1 DEF MemSize
<1> QED
  BY <1>1, <1>2 DEF SBInv, SBTypes, StateIsCreated, StateIsSet, SimpleIsEmpty

\* Every state of the memory of a state keeps the invariant.
THEOREM SBInvHolds == SBSpec => []SBInv
<1>1. SBInv /\ [SBNext]_sbVars => SBInv'
  BY NewBranchKeepsInv, NewPathKeepsInv, NewSimpleKeepsInv, SetDataKeepsInv, WriterExitKeepsInv,
     StutterKeepsInv DEF SBNext, SBDone
<1> QED
  BY <1>1, InitIsRight, PTL DEF SBSpec

\* Whatever lists, ids and garbage there are, a state is a memory of bytes with
\* no gap, and stays one.
THEOREM SBTypesAreRight == SBSpec => []SBTypeOK
<1>1. SBInv => SBTypeOK
  <2> SUFFICES ASSUME SBInv PROVE SBTypeOK
    OBVIOUS
  <2>1. SBTypes
    BY DEF SBInv
  <2>2. DOMAIN data = 0 .. MemSize - 1
    BY <2>1, MemoryIs DEF SBTypes
  <2>3. \A i \in DOMAIN data : data[i] \in Byte
    BY <2>1, <2>2 DEF SBTypes, Memory
  <2>4. elements \in ElementLists \cup PathLists \cup {<<>>}
    BY <2>1 DEF SBTypes
  <2> QED
    BY <2>1, <2>2, <2>3, <2>4 DEF SBTypes, SBTypeOK, MemSize
<1> QED
  BY <1>1, SBInvHolds, PTL

\* A writer exits exactly when the memory is too small for what it is about to
\* fill, whatever the lists: never with room left, and never after it wrote
\* outside.
THEOREM WritersStayInside == SBSpec => []NeverWritesOutside
<1>1. SBInv => NeverWritesOutside
  <2> SUFFICES ASSUME SBInv, kind # "simple", phase \in {"set", "exit"}
               PROVE  phase = "exit" <=> Filled > MemSize
    BY DEF NeverWritesOutside, MemSize
  <2> DEFINE n == MemSize
  <2>1. /\ kind \in {"branch", "path"} /\ n \in Nat
        /\ elements \in IF kind = "path" THEN PathLists ELSE ElementLists
    BY DEF SBInv, SBTypes
  <2>2. phase = "exit" <=> WriterExits(data, elements)
    BY DEF SBInv, StateIsSet
  <2>3. elements \in Seq(Element)
    BY <2>1, ListsAre
  <2>4. PICK t \in TypesOf(kind) : Created(data, t, n, id, Len(elements))
    BY DEF SBInv, StateIsCreated
  <2>5. \A l \in Nat : l <= Len(elements) =>
           RegularPtrs(SubSeq(elements, 1, l)) = RegularIn(SubSeq(elements, 1, l), l)
    <3>1. SUFFICES ASSUME NEW l \in Nat, l <= Len(elements)
                   PROVE  RegularPtrs(SubSeq(elements, 1, l)) = RegularIn(SubSeq(elements, 1, l), l)
      OBVIOUS
    <3>2. DOMAIN SubSeq(elements, 1, l) = 1 .. l
      BY <2>3, <3>1
    <3> QED
      BY <3>2, RegularPtrsIs
  <2>6. CASE kind = "path"
    <3>1. Created(data, PATH_COMPRESSED, n, id, Len(elements))
      BY <2>4, <2>6 DEF TypesOf
    <3>2. WriterExits(data, elements) <=> PathNeeds(data, elements) > n
      <4> HIDE DEF n
      <4> QED
        BY <2>1, <2>3, <3>1, PathIs
    <3>3. RegularPtrs(WithLevel0(elements)) = RegularIn(WithLevel0(elements), Len(elements))
      <4>1. DOMAIN WithLevel0(elements) = 1 .. Len(elements) /\ Len(elements) \in Nat
        BY <2>3, Level0
      <4> QED
        BY <4>1, RegularPtrsIs
    <3>4. Filled = PathNeeds(data, elements)
      <4>1. Filled = FailuresOf_PC(data) + PTR_SIZE * RegularPtrs(WithLevel0(elements))
        BY <2>6 DEF Filled, IsType
      <4> QED
        BY <3>3, <4>1 DEF PathNeeds, PTR_SIZE
    <3> QED
      BY <2>2, <3>2, <3>4
  <2>7. CASE kind = "branch" /\ t = LINEAR_ENCODED
    <3>1. WriterExits(data, elements) <=> LinearNeeds(data, elements) > n
      <4> HIDE DEF n
      <4> QED
        BY <2>1, <2>3, <2>4, <2>7, LinearIs
    <3>2. /\ GET_STATE_TYPE(data) = LINEAR_ENCODED
          /\ HeaderSize(data) \in Nat /\ HeaderSize(data) <= Len(elements)
      <4> HIDE DEF n
      <4> QED
        BY <2>1, <2>3, <2>4, <2>7, LinearIs
    <3>3. Filled = LinearNeeds(data, elements)
      <4>1. Filled = PtrsOf_LE(data) + PTR_SIZE * RegularPtrs(SubSeq(elements, 1, HeaderSize(data)))
        BY <2>7, <3>2 DEF Filled, IsType, LINEAR_ENCODED, BITMAP_ENCODED, LOOKUP_TABLE
      <4>2. RegularPtrs(SubSeq(elements, 1, HeaderSize(data)))
              = RegularIn(SubSeq(elements, 1, HeaderSize(data)), HeaderSize(data))
        BY <2>5, <3>2
      <4> QED
        BY <4>1, <4>2 DEF LinearNeeds, PTR_SIZE
    <3> QED
      BY <2>2, <3>1, <3>3
  <2>8. CASE kind = "branch" /\ t = BITMAP_ENCODED
    <3>1. WriterExits(data, elements) <=> BitmapNeeds(data, elements) > n
      <4> HIDE DEF n
      <4> QED
        BY <2>1, <2>3, <2>4, <2>8, BitmapIs
    <3>2. /\ GET_STATE_TYPE(data) = BITMAP_ENCODED
          /\ HeaderSize(data) \in Nat /\ HeaderSize(data) <= Len(elements)
      <4> HIDE DEF n
      <4> QED
        BY <2>1, <2>3, <2>4, <2>8, BitmapIs
    <3>3. Filled = BitmapNeeds(data, elements)
      <4>1. Filled = PtrsOf_BM(data) + PTR_SIZE * RegularPtrs(SubSeq(elements, 1, HeaderSize(data)))
        BY <2>8, <3>2 DEF Filled, IsType, LINEAR_ENCODED, BITMAP_ENCODED, LOOKUP_TABLE
      <4>2. RegularPtrs(SubSeq(elements, 1, HeaderSize(data)))
              = RegularIn(SubSeq(elements, 1, HeaderSize(data)), HeaderSize(data))
        BY <2>5, <3>2
      <4> QED
        BY <4>1, <4>2 DEF BitmapNeeds, PTR_SIZE
    <3> QED
      BY <2>2, <3>1, <3>3
  <2>9. CASE kind = "branch" /\ t = LOOKUP_TABLE
    <3>1. n = SIZE_IN_BYTES /\ ~ WriterExits(data, elements) /\ GET_STATE_TYPE(data) = LOOKUP_TABLE
      <4> HIDE DEF n
      <4> QED
        BY <2>1, <2>3, <2>4, <2>9, LookupIs
    <3>2. Filled = SIZE_IN_BYTES
      BY <2>9, <3>1 DEF Filled, IsType, LINEAR_ENCODED, BITMAP_ENCODED, LOOKUP_TABLE
    <3> QED
      BY <2>2, <3>1, <3>2 DEF SIZE_IN_BYTES
  <2> QED
    BY <2>1, <2>4, <2>6, <2>7, <2>8, <2>9 DEF TypesOf
<1> QED
  BY <1>1, SBInvHolds, PTL

\* Every character of a branch is answered as its elements say, beyond the
\* characters the runs ask for.
BranchReadsEverywhere ==
    phase = "set" /\ kind = "branch" => \A c \in Byte : ReadsChild(c)

\* Whatever list of at most 100 children with different characters was set over
\* whatever garbage, the machine reads from a branch state the id, the size and
\* for every character the goto, the match bit and the row that were set, or
\* the failure.
THEOREM BranchIsReadBack == SBSpec => [](BranchReadsBack /\ BranchReadsEverywhere)
<1>1. SBInv => BranchReadsBack /\ BranchReadsEverywhere
  <2> SUFFICES ASSUME SBInv, phase = "set", kind = "branch"
               PROVE  /\ getStateID(data) = id
                      /\ getStateSizeInBytes(data) = Cardinality(DOMAIN data)
                      /\ \A c \in Probes : ReadsChild(c)
                      /\ \A c \in Byte : ReadsChild(c)
    BY DEF BranchReadsBack, BranchReadsEverywhere
  <2> DEFINE n == MemSize
             l == Len(elements)
  <2>1. n \in Nat /\ elements \in ElementLists /\ id \in Ids \cup {0}
    BY DEF SBInv, SBTypes
  <2>2. elements \in Seq(Element) /\ l \in Nat /\ l # 0 /\ Distinct(elements) /\ DOMAIN elements = 1 .. l
    BY <2>1, ListsAre
  <2>3. Holds(data, n, elements, failure)
    BY DEF SBInv, StateIsSet
  <2>4. PICK t \in {LINEAR_ENCODED, BITMAP_ENCODED, LOOKUP_TABLE} : Created(data, t, n, id, l)
    BY DEF SBInv, StateIsCreated, TypesOf
  <2>5. Hi(id) * 256 + Lo(id) = id
    <3>1. id \in Nat /\ id <= 65535
      <4>1. 0 \in StateId
        BY DEF StateId, LOOKUP_VALUE_NOT_FOUND
      <4>2. Ids \subseteq StateId
        BY SBAssumption
      <4>3. id \in StateId
        BY <2>1, <4>1, <4>2
      <4> QED
        BY <4>3, StateIdRange
    <3> QED
      BY <3>1, TwoBytes
  <2>6. GET_STATE_TYPE(data) = t
    BY <2>4 DEF Created, HeaderIs
  <2>7. getStateID(data) = id /\ getStateSizeInBytes(data) = n
    <3>1. CASE t = LINEAR_ENCODED
      <4>1. data[1] = Hi(id) /\ data[2] = Lo(id) /\ data[3] = n
        <5> HIDE DEF n, l
        <5> QED
          BY <2>4, <3>1 DEF Created, HeaderIs
      <4> QED
        BY <2>5, <2>6, <3>1, <4>1 DEF getStateID, getStateSizeInBytes, getStateID_LE, getSizeInBytes_LE,
           LINEAR_ENCODED, BITMAP_ENCODED, LOOKUP_TABLE, PATH_COMPRESSED
    <3>2. CASE t = BITMAP_ENCODED
      <4>1. data[1] = Hi(id) /\ data[2] = Lo(id) /\ data[3] = n
        <5> HIDE DEF n, l
        <5> QED
          BY <2>4, <3>2 DEF Created, HeaderIs
      <4> QED
        BY <2>5, <2>6, <3>2, <4>1 DEF getStateID, getStateSizeInBytes, getStateID_BM, getSizeInBytes_BM,
           LINEAR_ENCODED, BITMAP_ENCODED, LOOKUP_TABLE, PATH_COMPRESSED
    <3>3. CASE t = LOOKUP_TABLE
      <4>1. data[2] = Hi(id) /\ data[3] = Lo(id) /\ n = SIZE_IN_BYTES
        <5> HIDE DEF n, l
        <5> QED
          BY <2>4, <3>3 DEF Created, HeaderIs
      <4> QED
        BY <2>5, <2>6, <3>3, <4>1 DEF getStateID, getStateSizeInBytes, getStateID_LT, getSizeInBytes_LT,
           LINEAR_ENCODED, BITMAP_ENCODED, LOOKUP_TABLE, PATH_COMPRESSED
    <3> QED
      BY <3>1, <3>2, <3>3
  <2>8. \A k \in 1 .. l : elements[k].c \in Byte
    BY <2>2, ElementFits
  <2>9. \A c \in Probes : c \in Byte
    <3>1. \A c \in Chars : c \in Byte /\ c \in Nat
      <4>1. \A c \in Chars : c \in Byte
        BY <2>2, <2>8 DEF Chars
      <4> QED
        BY <4>1 DEF Byte
    <3>2. \A c \in Nat : (c + 1) % 256 \in Byte
      BY DEF Byte
    <3> QED
      BY <3>1, <3>2 DEF Probes
  <2> SUFFICES ASSUME NEW c \in Byte
               PROVE  LET e    == ElementOf(c)
                          text == <<7, c>>
                          before == {i \in DOMAIN elements :
                                       /\ elements[i].match = 1
                                       /\ IF IsType(LINEAR_ENCODED)
                                          THEN \E j \in DOMAIN elements : i < j /\ elements[j] = e
                                          ELSE elements[i].c < c}
                      IN NextStateOf(data, text, 1, First, Second) =
                           IF c \notin Chars \/ Lost(c) THEN Failed(failure, 1)
                           ELSE Goto(IF IsType(LOOKUP_TABLE) THEN e.ptr
                                     ELSE Resolve(e.type, e.ptr, text, 2, First, Second),
                                     e.match, Cardinality(before), 1)
    <3>1. \A c \in Byte : ReadsChild(c)
      BY DEF ReadsChild
    <3> QED
      BY <2>7, <2>9, <3>1 DEF MemSize
  <2> DEFINE e == ElementOf(c)
             text == <<7, c>>
             before == {i \in DOMAIN elements :
                          /\ elements[i].match = 1
                          /\ IF IsType(LINEAR_ENCODED)
                             THEN \E j \in DOMAIN elements : i < j /\ elements[j] = e
                             ELSE elements[i].c < c}
             r == NextStateOf(data, text, 1, First, Second)
  <2>10. c \in Byte /\ text[1 + 1] = c
    OBVIOUS
  <2>11. c \notin Chars <=> \A k \in 1 .. l : elements[k].c # c
    BY <2>2 DEF Chars
  <2>12. c \in Chars => \E k \in 1 .. l : elements[k].c = c /\ e = elements[k]
    <3>1. SUFFICES ASSUME c \in Chars PROVE \E k \in 1 .. l : elements[k].c = c /\ e = elements[k]
      OBVIOUS
    <3>2. PICK k \in 1 .. l : elements[k].c = c
      BY <2>11, <3>1
    <3>3. elements[k] \in ToSet(elements)
      BY <2>2 DEF ToSet
    <3>4. \A f \in ToSet(elements) : f.c = c => f = elements[k]
      BY <2>2, <3>2 DEF ToSet, Distinct
    <3>5. e = elements[k]
      BY <3>2, <3>3, <3>4 DEF ElementOf
    <3> QED
      BY <3>2, <3>5
  <2>13. IsType(LINEAR_ENCODED) <=> t = LINEAR_ENCODED
    BY <2>6 DEF IsType
  <2>14. IsType(LOOKUP_TABLE) <=> t = LOOKUP_TABLE
    BY <2>6 DEF IsType
  <2>15. IsType(BITMAP_ENCODED) <=> t = BITMAP_ENCODED
    BY <2>6 DEF IsType
  <2>16. /\ LINEAR_ENCODED # LOOKUP_TABLE /\ BITMAP_ENCODED # LOOKUP_TABLE /\ LINEAR_ENCODED # BITMAP_ENCODED
         /\ 1 + 1 = 2
    BY DEF LINEAR_ENCODED, BITMAP_ENCODED, LOOKUP_TABLE
  <2>17. Lost(c) <=> (t = LINEAR_ENCODED /\ c > 127) \/ (t # LOOKUP_TABLE /\ l = 64)
    BY <2>13, <2>15, <2>16 DEF Lost, MAX_NODE_DEGREE
  <2>18. t # LINEAR_ENCODED => Cardinality(before) = MatchesBelow(elements, l, c)
    BY <2>2, <2>13 DEF MatchesBelow
  <2> SUFFICES r = IF c \notin Chars \/ Lost(c) THEN Failed(failure, 1)
                   ELSE Goto(IF IsType(LOOKUP_TABLE) THEN e.ptr
                             ELSE Resolve(e.type, e.ptr, text, 2, First, Second),
                             e.match, Cardinality(before), 1)
    OBVIOUS
  <2> HIDE DEF n, l, e, text, before, r
  <2>19. r = NextStateOf(data, text, 1, First, Second)
    BY DEF r
  <2>20. CASE t = LINEAR_ENCODED
    <3>1. /\ (\A k \in 1 .. l : elements[k].c # c) \/ c > 127 \/ l = 64 => r = Failed(failure, 1)
          /\ \A k \in 1 .. l : elements[k].c = c /\ c <= 127 /\ l # 64 =>
                r = GotoOf(elements[k], MatchesIn(elements, k - 1), text, 1, First, Second)
      <4>1. Created(data, LINEAR_ENCODED, n, id, Len(elements)) /\ Len(elements) # 0
        BY <2>2, <2>4, <2>20 DEF l
      <4>2. elements \in Seq(Element) /\ Distinct(elements)
        BY <2>2
      <4>3. LinearAnswers(elements, Len(elements), c, text, 1, First, Second, failure, r)
        BY <2>1, <2>3, <2>10, <2>19, <4>1, <4>2, LinearStateReads
      <4> QED
        BY <4>3 DEF LinearAnswers, l
    <3>2. CASE c \notin Chars \/ Lost(c)
      BY <2>11, <2>16, <2>17, <2>20, <3>1, <3>2
    <3>3. CASE ~ (c \notin Chars \/ Lost(c))
      <4>1. PICK k \in 1 .. l : elements[k].c = c /\ e = elements[k]
        BY <2>12, <3>3
      <4>2. c <= 127 /\ l # 64
        <5>1. c \in Nat
          BY <2>10 DEF Byte
        <5> QED
          BY <2>16, <2>17, <2>20, <3>3, <5>1
      <4>3. r = GotoOf(e, MatchesIn(elements, k - 1), text, 1, First, Second)
        BY <3>1, <4>1, <4>2
      <4>4. before = {i \in 1 .. k - 1 : elements[i].match = 1}
        <5>1. ASSUME NEW i \in 1 .. l
              PROVE  (\E j \in 1 .. l : i < j /\ elements[j] = e) <=> i \in 1 .. k - 1
          <6>1. \A j \in 1 .. l : elements[j] = e => j = k
            BY <2>2, <4>1 DEF Distinct
          <6>2. (\E j \in 1 .. l : i < j /\ elements[j] = e) <=> i < k
            BY <4>1, <6>1
          <6> QED
            BY <2>2, <6>2
        <5>2. before = {i \in 1 .. l : elements[i].match = 1 /\ \E j \in 1 .. l : i < j /\ elements[j] = e}
          BY <2>2, <2>13, <2>20 DEF before
        <5>3. \A i \in 1 .. k - 1 : i \in 1 .. l
          BY <2>2
        <5> QED
          BY <5>1, <5>2, <5>3
      <4>5. Cardinality(before) = MatchesIn(elements, k - 1)
        BY <4>4 DEF MatchesIn
      <4> QED
        BY <2>14, <2>16, <2>20, <3>3, <4>3, <4>5 DEF GotoOf
    <3> QED
      BY <3>2, <3>3
  <2>21. CASE t = BITMAP_ENCODED
    <3>1. /\ (\A k \in 1 .. l : elements[k].c # c) \/ l = 64 => r = Failed(failure, 1)
          /\ \A k \in 1 .. l : elements[k].c = c /\ l # 64 =>
                r = GotoOf(elements[k], MatchesBelow(elements, l, c), text, 1, First, Second)
      <4>1. Created(data, BITMAP_ENCODED, n, id, Len(elements)) /\ Len(elements) # 0
        BY <2>2, <2>4, <2>21 DEF l
      <4>2. elements \in Seq(Element) /\ Distinct(elements)
        BY <2>2
      <4>3. BitmapAnswers(elements, Len(elements), c, text, 1, First, Second, failure, r)
        BY <2>1, <2>3, <2>10, <2>19, <4>1, <4>2, BitmapStateReads
      <4> QED
        BY <4>3 DEF BitmapAnswers, l
    <3>2. CASE c \notin Chars \/ Lost(c)
      BY <2>11, <2>16, <2>17, <2>21, <3>1, <3>2
    <3>3. CASE ~ (c \notin Chars \/ Lost(c))
      <4>1. PICK k \in 1 .. l : elements[k].c = c /\ e = elements[k]
        BY <2>12, <3>3
      <4>2. l # 64
        BY <2>16, <2>17, <2>21, <3>3
      <4>3. r = GotoOf(e, MatchesBelow(elements, l, c), text, 1, First, Second)
        BY <3>1, <4>1, <4>2
      <4> QED
        BY <2>14, <2>16, <2>18, <2>21, <3>3, <4>3 DEF GotoOf
    <3> QED
      BY <3>2, <3>3
  <2>22. CASE t = LOOKUP_TABLE
    <3>1. /\ (\A k \in 1 .. l : elements[k].c # c) => r = Failed(failure, 1)
          /\ \A k \in 1 .. l : elements[k].c = c =>
                r = Goto(elements[k].ptr, elements[k].match, MatchesBelow(elements, l, c), 1)
      <4>1. Created(data, LOOKUP_TABLE, n, id, Len(elements)) /\ Len(elements) # 0
        BY <2>2, <2>4, <2>22 DEF l
      <4>2. elements \in Seq(Element) /\ Distinct(elements)
        BY <2>2
      <4>3. LookupAnswers(elements, Len(elements), c, 1, failure, r)
        BY <2>1, <2>3, <2>10, <2>19, <4>1, <4>2, LookupStateReads
      <4> QED
        BY <4>3 DEF LookupAnswers, l
    <3>2. CASE c \notin Chars \/ Lost(c)
      BY <2>11, <2>16, <2>17, <2>22, <3>1, <3>2
    <3>3. CASE ~ (c \notin Chars \/ Lost(c))
      <4>1. PICK k \in 1 .. l : elements[k].c = c /\ e = elements[k]
        BY <2>12, <3>3
      <4>2. r = Goto(e.ptr, e.match, MatchesBelow(elements, l, c), 1)
        BY <3>1, <4>1
      <4> QED
        BY <2>14, <2>16, <2>18, <2>22, <3>3, <4>2
    <3> QED
      BY <3>2, <3>3
  <2> QED
    BY <2>20, <2>21, <2>22
<1> QED
  BY <1>1, SBInvHolds, PTL

\* The first k characters of a path, and more.
TextIs(k, more) ==
    /\ Len(PathText(k, more)) = 2 + k + Len(more)
    /\ \A i \in 1 .. k : PathText(k, more)[2 + i] = elements[i].c
    /\ more # <<>> => PathText(k, more)[2 + (k + 1)] = more[1]

\* The texts of PathReadsBack begin like the path.
LEMMA PathTextIs ==
    ASSUME NEW k \in Nat, \A i \in 1 .. k : elements[i].c \in Nat, NEW more \in Seq(Nat)
    PROVE  TextIs(k, more)
<1> DEFINE start == <<1, 2>>
           walk == [i \in 1 .. k |-> elements[i].c]
           both == start \o walk
           all == both \o more
<1>1. start \in Seq(Nat) /\ Len(start) = 2
  OBVIOUS
<1>2. walk \in Seq(Nat) /\ Len(walk) = k /\ \A i \in 1 .. k : walk[i] = elements[i].c
  OBVIOUS
<1>3. PathText(k, more) = all
  BY DEF PathText
<1> HIDE DEF start, walk
<1>4. Joined(start, walk, both)
  BY <1>1, <1>2, JoinedIs
<1>5. both \in Seq(Nat)
  BY <1>4 DEF Joined
<1> HIDE DEF both
<1>6. Joined(both, more, all)
  BY <1>5, JoinedIs
<1> HIDE DEF all
<1>7. Len(both) = 2 + k /\ \A i \in 1 .. k : both[2 + i] = elements[i].c
  BY <1>1, <1>2, <1>4 DEF Joined
<1>8. /\ Len(all) = 2 + k + Len(more) /\ \A i \in 1 .. 2 + k : all[i] = both[i]
      /\ \A i \in 1 .. Len(more) : all[2 + k + i] = more[i]
  BY <1>6, <1>7 DEF Joined
<1>9. \A i \in 1 .. k : 2 + i \in 1 .. 2 + k
  OBVIOUS
<1>10. more # <<>> => 1 \in 1 .. Len(more)
  OBVIOUS
<1>11. 2 + k + 1 = 2 + (k + 1)
  OBVIOUS
<1> QED
  BY <1>3, <1>7, <1>8, <1>9, <1>10, <1>11 DEF TextIs

\* Every character of a path is reached and every walk ends as its elements say,
\* beyond the positions the runs ask for.
PathReadsEverywhere ==
    phase = "set" /\ kind = "path" => \A k \in 0 .. Len(elements) - 1 : ReadsPath(k)

\* A path set from any elements over any memory: its id and its size are read
\* back, and every walk ends as the elements say.
THEOREM PathIsReadBack == SBSpec => [](PathReadsBack /\ PathReadsEverywhere)
<1>1. SBInv => PathReadsBack /\ PathReadsEverywhere
  <2> SUFFICES ASSUME SBInv, phase = "set", kind = "path"
               PROVE  /\ getStateID(data) = id
                      /\ getStateSizeInBytes(data) = Cardinality(DOMAIN data)
                      /\ \A k \in PathEnds : ReadsPath(k)
                      /\ \A k \in 0 .. Len(elements) - 1 : ReadsPath(k)
    BY DEF PathReadsBack, PathReadsEverywhere
  <2> DEFINE n == MemSize
             l == Len(elements)
             given == WithLevel0(elements)
             answer(k, text) == PathAnswer(given, l, failure, k, text, 2, First, Second)
  <2>1. n \in Nat /\ elements \in PathLists /\ id \in Ids \cup {0} /\ n = Cardinality(DOMAIN data)
    BY DEF SBInv, SBTypes, MemSize
  <2>2. elements \in Seq(Element) /\ l \in Nat /\ l # 0 /\ DOMAIN elements = 1 .. l
    BY <2>1, ListsAre
  <2>3. Holds(data, n, elements, failure)
    BY DEF SBInv, StateIsSet
  <2>4. Created(data, PATH_COMPRESSED, n, id, l)
    BY DEF SBInv, StateIsCreated, TypesOf
  <2>5. /\ GET_STATE_TYPE(data) = PATH_COMPRESSED /\ Length14(data) = l
        /\ data[2] = Hi(id) /\ data[3] = Lo(id) /\ getSizeInBytes_PC(data) = n
    BY <2>4 DEF Created, HeaderIs
  <2>6. Hi(id) * 256 + Lo(id) = id
    <3>1. id \in Nat /\ id <= 65535
      <4>1. 0 \in StateId
        BY DEF StateId, LOOKUP_VALUE_NOT_FOUND
      <4>2. Ids \subseteq StateId
        BY SBAssumption
      <4>3. id \in StateId
        BY <2>1, <4>1, <4>2
      <4> QED
        BY <4>3, StateIdRange
    <3> QED
      BY <3>1, TwoBytes
  <2>7. getStateID(data) = id /\ getStateSizeInBytes(data) = n
    BY <2>5, <2>6 DEF getStateID, getStateSizeInBytes, getStateID_PC,
       LINEAR_ENCODED, BITMAP_ENCODED, LOOKUP_TABLE, PATH_COMPRESSED
  <2>8. data \in PathHas(n, data, given, failure, l)
    <3>1. SubSeq(elements, 1, l) = elements
      BY <2>2
    <3> HIDE DEF n, l, given
    <3>2. data \in PathHas(n, data, WithLevel0(SubSeq(elements, 1, Length14(data))), failure, Length14(data))
      BY <2>3, <2>5 DEF Holds, LINEAR_ENCODED, BITMAP_ENCODED, LOOKUP_TABLE, PATH_COMPRESSED
    <3> QED
      BY <2>5, <3>1, <3>2 DEF given
  <2>9. /\ Len(given) = l
        /\ \A k \in 1 .. l : /\ PathFits(given[k]) /\ given[k].c = elements[k].c
                             /\ given[k].match = elements[k].match
    BY <2>2, Level0
  <2>10. \A k \in 1 .. l : data[GOTO_IDX + 1 + k] = elements[k].c /\ elements[k].c \in Byte
    BY <2>8, <2>9 DEF PathHas, PathFits
  <2>11. ASSUME NEW k \in 0 .. l, NEW text, Leaves(data, text, 2, k)
         PROVE  NextStateOf(data, text, 2, First, Second) = answer(k, text)
    <3>1. NextStateOf(data, text, 2, First, Second) = GET_NEXT_STATE_PC(data, text, 2, First, Second)
      BY <2>5 DEF NextStateOf, LINEAR_ENCODED, BITMAP_ENCODED, LOOKUP_TABLE, PATH_COMPRESSED
    <3> HIDE DEF given, n, l
    <3>2. GET_NEXT_STATE_PC(data, text, 2, First, Second)
            = PathAnswer(given, l, failure, k, text, 2, First, Second)
      <4>1. \A i \in 1 .. l : PathFits(given[i])
        BY <2>9
      <4> QED
        BY <2>2, <2>5, <2>8, <2>9, <2>11, <4>1, PathReads
    <3> QED
      BY <3>1, <3>2
  <2>12. ASSUME NEW k \in 0 .. l
         PROVE  /\ MatchesIn(given, k) = Cardinality(MatchesUpTo(k))
                /\ MatchesIn(given, k) = 0 <=> MatchesUpTo(k) = {}
    <3>1. {i \in 1 .. k : given[i].match = 1} = MatchesUpTo(k)
      BY <2>2, <2>9 DEF MatchesUpTo
    <3>2. IsFiniteSet(MatchesUpTo(k))
      <4>1. MatchesUpTo(k) \in SUBSET (1 .. k) /\ IsFiniteSet(1 .. k)
        <5>1. k \in Int
          OBVIOUS
        <5> QED
          BY <5>1, FS_Interval DEF MatchesUpTo
      <4> QED
        BY <4>1, FS_Subset
    <3> QED
      BY <3>1, <3>2, FS_EmptySet DEF MatchesIn
  <2> DEFINE result(next, failed, k) ==
               [next |-> next, fail |-> failed, rows |-> [i \in 1 .. Cardinality(MatchesUpTo(k)) |-> i - 1],
                idx |-> 2 + k, match |-> IF MatchesUpTo(k) = {} THEN 0 ELSE 1]
  <2>13. ASSUME NEW k \in 0 .. l, NEW text, ~ (k < l /\ 2 + k < Len(text))
         PROVE  answer(k, text) = result(failure, FALSE, k)
    BY <2>12, <2>13 DEF PathAnswer
  <2>14. ASSUME NEW k \in 0 .. l, NEW text, k < l /\ 2 + k < Len(text)
         PROVE  answer(k, text) = result(Resolve(given[k + 1].type, given[k + 1].ptr, text, 2 + k, First, Second), TRUE, k)
    BY <2>12, <2>14 DEF PathAnswer
  <2>15. ASSUME NEW k \in 0 .. l, NEW more \in Seq(Nat)
         PROVE  TextIs(k, more)
    <3>1. \A x \in Byte : x \in Nat
      BY DEF Byte
    <3>2. k \in Nat /\ \A i \in 1 .. k : i \in 1 .. l
      BY <2>2
    <3>3. \A i \in 1 .. k : elements[i].c \in Nat
      BY <2>10, <3>1, <3>2
    <3> QED
      BY <3>2, <3>3, PathTextIs
  <2>16. ASSUME NEW k \in 0 .. l - 1
         PROVE  LET e == given[k + 1]
                    text == PathText(k, OtherChar(k))
                IN /\ NextStateOf(data, text, 2, First, Second) =
                        result(Resolve(e.type, e.ptr, text, 2 + k, First, Second), TRUE, k)
                   /\ NextStateOf(data, PathText(k, <<>>), 2, First, Second) = result(failure, FALSE, k)
    <3> DEFINE text == PathText(k, OtherChar(k))
               short == PathText(k, <<>>)
               other == OtherChar(k)
    <3>1. k \in Nat /\ k \in 0 .. l /\ k < l /\ k + 1 \in 1 .. l /\ \A i \in 1 .. k : i \in 1 .. l
      BY <2>2
    <3>2. other \in Seq(Nat) /\ Len(other) = 1 /\ other # <<>> /\ other[1] # elements[k + 1].c
      <4>1. elements[k + 1].c \in Byte
        BY <2>10, <3>1
      <4>2. \A c \in Byte : (c + 1) % 256 \in Nat /\ (c + 1) % 256 # c
        BY DEF Byte
      <4> QED
        BY <4>1, <4>2 DEF OtherChar
    <3>3. <<>> \in Seq(Nat) /\ Len(<<>>) = 0
      OBVIOUS
    <3> HIDE DEF other, given, l, n
    <3>4. /\ Len(text) = 2 + k + 1 /\ \A i \in 1 .. k : text[2 + i] = elements[i].c
          /\ text[2 + (k + 1)] = other[1]
      BY <2>15, <3>1, <3>2 DEF other, TextIs
    <3>5. Len(short) = 2 + k /\ \A i \in 1 .. k : short[2 + i] = elements[i].c
      <4>1. TextIs(k, <<>>)
        BY <2>15, <3>1, <3>3
      <4>2. 2 + k + 0 = 2 + k
        BY <3>1
      <4> QED
        BY <3>3, <4>1, <4>2 DEF TextIs
    <3> HIDE DEF text, short
    <3>6. Leaves(data, text, 2, k)
      BY <2>5, <2>10, <3>1, <3>2, <3>4 DEF Leaves
    <3>7. Leaves(data, short, 2, k)
      BY <2>5, <2>10, <3>1, <3>5 DEF Leaves
    <3>8. 2 + k < Len(text) /\ ~ (2 + k < Len(short))
      BY <3>1, <3>4, <3>5
    <3>9. answer(k, text) = result(Resolve(given[k + 1].type, given[k + 1].ptr, text, 2 + k, First, Second), TRUE, k)
      <4> HIDE DEF answer, result
      <4> QED
        BY <2>14, <3>1, <3>8
    <3>10. answer(k, short) = result(failure, FALSE, k)
      <4> HIDE DEF answer, result
      <4> QED
        BY <2>13, <3>1, <3>8
    <3> HIDE DEF answer, result
    <3>11. NextStateOf(data, text, 2, First, Second) = answer(k, text)
      BY <2>11, <3>1, <3>6
    <3>12. NextStateOf(data, short, 2, First, Second) = answer(k, short)
      BY <2>11, <3>1, <3>7
    <3> QED
      BY <3>9, <3>10, <3>11, <3>12 DEF text, short
  <2>17. NextStateOf(data, PathText(l, <<3>>), 2, First, Second) = result(failure, FALSE, l)
    <3> DEFINE text == PathText(l, <<3>>)
    <3>1. <<3>> \in Seq(Nat) /\ l \in 0 .. l
      BY <2>2
    <3> HIDE DEF given, l, n
    <3>2. TextIs(l, <<3>>)
      BY <2>15, <3>1
    <3>3. Len(text) = 2 + l + 1 /\ \A i \in 1 .. l : text[2 + i] = elements[i].c
      BY <3>2 DEF TextIs
    <3> HIDE DEF text
    <3>4. Leaves(data, text, 2, l)
      BY <2>2, <2>5, <2>10, <3>3 DEF Leaves
    <3>5. ~ (l < l /\ 2 + l < Len(text))
      BY <2>2
    <3> HIDE DEF answer, result
    <3>6. answer(l, text) = result(failure, FALSE, l)
      BY <2>13, <3>1, <3>5
    <3>7. NextStateOf(data, text, 2, First, Second) = answer(l, text)
      BY <2>11, <3>1, <3>4
    <3> QED
      BY <3>6, <3>7 DEF text
  <2>18. \A k \in PathEnds : k \in 0 .. l - 1
    BY DEF PathEnds
  <2> HIDE DEF answer
  <2>19. \A k \in 0 .. l - 1 : ReadsPath(k)
    BY <2>16, <2>17 DEF ReadsPath
  <2> QED
    BY <2>1, <2>7, <2>18, <2>19
<1> QED
  BY <1>1, SBInvHolds, PTL
=============================================================================
