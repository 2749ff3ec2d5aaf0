----------------------------- MODULE LinkedList ------------------------------
(***************************************************************************)
(* DumpReader/BoundedBuffer/LinkedList.c: a doubly linked list with first  *)
(* and last pointers.  Items are cells of a heap; malloc may hand out any  *)
(* cell that is not in use, with whatever was in it.  A step is a call.    *)
(* (PacketPipeline is about calls that overlap.)                           *)
(***************************************************************************)
EXTENDS Integers, Sequences, FiniteSets

CONSTANTS
    Cell,      \* the cells malloc can return
    Null,      \* the NULL pointer
    Data,      \* what the elements point to
    NoData,    \* a NULL result
    Indices    \* the indices list_get and list_delete_item are called with

ASSUME LLAssumption ==
    /\ IsFiniteSet(Cell) /\ Null \notin Cell
    /\ NoData \notin Data /\ Indices \subseteq Nat

VARIABLES
    first, last,       \* list->first, list->last
    prev, next, data,  \* the fields of the cells
    live,              \* the cells malloc returned and nobody freed
    done,              \* list->done
    result, status,    \* what the last call returned
    call,              \* what the last call was (no state of the program)
    phase              \* "used", "destroying", "destroyed"

itemVars == <<prev, next, data, live>>
llVars   == <<first, last, itemVars, done, result, status, call, phase>>

Called(op, argument) == phase = "used" /\ call' = <<op, argument>>

LLInit ==
    /\ first = Null /\ last = Null /\ live = {}
    /\ prev = [c \in Cell |-> Null] /\ next = [c \in Cell |-> Null]
    /\ data = [c \in Cell |-> NoData]
    /\ done = FALSE /\ result = NoData /\ status = "none" /\ phase = "used"
    /\ call = <<"list_init", NoData>>

\* find_inner compares the index with a counter it never increments.
find_inner(index) == IF index = 0 THEN first ELSE Null

FirstKept(item) == first        \* mutant: the empty list stays empty
NewFirst(item)  == IF first = Null THEN item ELSE first

\* list_insert_last_lock, for list_insert_last and list_enqueue.
list_insert_last(d) ==
    /\ Called("list_insert_last", d)
    /\ \E item \in Cell \ live :
          /\ live' = live \cup {item}
          /\ data' = [data EXCEPT ![item] = d]
          /\ last' = item
          /\ first' = NewFirst(item)
          /\ prev' = [prev EXCEPT ![item] = last]
          /\ next' = [c \in Cell |-> IF c = item THEN Null
                                     ELSE IF c = last THEN item ELSE next[c]]
    /\ UNCHANGED <<done, result, status, phase>>

PrevKept(item) == prev          \* mutant: the next item is not updated
NewPrev(item)  == [c \in Cell |-> IF c = next[item] THEN prev[item] ELSE prev[c]]
LastKept(item) == last          \* mutant: last is not updated
NewLast(item)  == IF last = item THEN prev[item] ELSE last

\* The unlinking in list_delete_item_lock, and the free.
Unlink(item) ==
    /\ next' = [c \in Cell |-> IF c = prev[item] THEN next[item] ELSE next[c]]
    /\ prev' = NewPrev(item)
    /\ first' = IF first = item THEN next[item] ELSE first
    /\ last' = NewLast(item)
    /\ live' = live \ {item}
    /\ result' = data[item]
    /\ UNCHANGED data

list_delete_item_lock(index) ==
    LET item == find_inner(index) IN
    IF item = Null
    THEN result' = NoData /\ UNCHANGED <<first, last, itemVars>>
    ELSE Unlink(item)

list_delete_item(index) ==
    /\ Called("list_delete_item", index)
    /\ list_delete_item_lock(index)
    /\ UNCHANGED <<done, status, phase>>

list_get(index) ==
    LET item == find_inner(index) IN
    /\ Called("list_get", index)
    /\ result' = IF item = Null THEN NoData ELSE data[item]
    /\ UNCHANGED <<first, last, itemVars, done, status, phase>>

\* The cells from first on, following next.
Chain ==
    LET nth[k \in 1 .. Cardinality(Cell) + 1] ==
          IF k = 1 THEN first
          ELSE IF nth[k - 1] = Null THEN Null ELSE next[nth[k - 1]]
        length == Cardinality({k \in DOMAIN nth : nth[k] # Null})
    IN  [k \in 1 .. length |-> nth[k]]

list_contains_str(d) ==
    /\ Called("list_contains_str", d)
    /\ result' = IF \E k \in DOMAIN Chain : data[Chain[k]] = d THEN d ELSE NoData
    /\ UNCHANGED <<first, last, itemVars, done, status, phase>>

\* list_dequeue does not wait, and does not look at done.
list_dequeue ==
    /\ Called("list_dequeue", NoData)
    /\ \/ /\ first # Null
          /\ list_delete_item_lock(0)
          /\ status' = "success"
       \/ /\ first = Null
          /\ status' = "fail" /\ result' = NoData
          /\ UNCHANGED <<first, last, itemVars>>
    /\ UNCHANGED <<done, phase>>

list_set_done ==
    /\ Called("list_set_done", NoData)
    /\ done' = TRUE
    /\ UNCHANGED <<first, last, itemVars, result, status, phase>>

\* list_destroy deletes the first item until there is none; its caller sees no
\* result.
BeginDestroy ==
    /\ Called("list_destroy", NoData)
    /\ phase' = "destroying" /\ result' = NoData /\ status' = "none"
    /\ UNCHANGED <<first, last, itemVars, done>>

DestroyItem ==
    /\ phase = "destroying" /\ first # Null
    /\ list_delete_item_lock(0)
    /\ UNCHANGED <<done, status, call, phase>>

EndDestroy ==
    /\ phase = "destroying" /\ first = Null
    /\ phase' = "destroyed"
    /\ UNCHANGED <<first, last, itemVars, done, result, status, call>>

list_destroy == BeginDestroy \/ DestroyItem \/ EndDestroy

LLNext ==
    \/ \E d \in Data : list_insert_last(d) \/ list_contains_str(d)
    \/ \E k \in Indices : list_get(k) \/ list_delete_item(k)
    \/ list_dequeue \/ list_set_done \/ list_destroy
    \/ phase = "destroyed" /\ UNCHANGED llVars

LLSpec == LLInit /\ [][LLNext]_llVars
-----------------------------------------------------------------------------
(* Properties.                                                             *)

Pointer == Cell \cup {Null}

\* Every variable has its type; the list has a first item iff it has a last.
LLTypeOK ==
    /\ first \in Pointer /\ last \in Pointer /\ (first = Null <=> last = Null)
    /\ prev \in [Cell -> Pointer] /\ next \in [Cell -> Pointer]
    /\ data \in [Cell -> Data \cup {NoData}]
    /\ live \subseteq Cell /\ done \in BOOLEAN
    /\ result \in Data \cup {NoData}
    /\ status \in {"none", "success", "fail"}
    /\ phase \in {"used", "destroying", "destroyed"}

\* The list is doubly linked: following next from first meets every live cell
\* once and no freed one, ends at last, and prev leads the same way back.
\* Nothing is lost or reachable after its free, whatever the order of calls; when
\* list_destroy ends the list is empty, so that it has freed every cell.
WellLinked ==
    /\ {Chain[k] : k \in DOMAIN Chain} = live
    /\ Len(Chain) = Cardinality(live)
    /\ last = IF Chain = <<>> THEN Null ELSE Chain[Len(Chain)]
    /\ \A k \in DOMAIN Chain : prev[Chain[k]] = IF k = 1 THEN Null ELSE Chain[k - 1]

\* The elements from first to last.
Elements == [k \in DOMAIN Chain |-> data[Chain[k]]]

Queue == INSTANCE ListQueue WITH items <- Elements

\* The step in which the code is not what LinkedList.h says (lines 66-69): where
\* list_dequeue "should block" on an empty list that is not done, it fails.
\* Nothing else changes.
DequeueGivesUp ==
    /\ Elements = <<>> /\ ~ done
    /\ call' = <<"list_dequeue", NoData>>
    /\ status' = "fail" /\ result' = NoData
    /\ UNCHANGED <<Elements, done>>

\* With index 0, the only one the program passes, the calls implement the
\* sequence LinkedList.h describes, but for a dequeue that does not wait: that
\* is the only step outside it.  (Every call that changes anything must be one of
\* the sequence, also one that leaves the elements alone.)
CallsImplementQueue ==
    /\ Queue!Init
    /\ [][phase = "used" /\ phase' = "used" => Queue!Next \/ DequeueGivesUp]_llVars

\* LinkedList.h, line 31: list_get "returns the data of element in given index".
GetReturnsElement ==
    [][\A k \in Indices : call' = <<"list_get", k>> =>
          result' = IF k < Len(Elements) THEN Elements[k + 1] ELSE NoData]_llVars

=============================================================================
