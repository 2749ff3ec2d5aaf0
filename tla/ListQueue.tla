------------------------------ MODULE ListQueue ------------------------------
(***************************************************************************)
(* What LinkedList.h promises of a list used by one thread at a time: a    *)
(* sequence of data with operations at its end and at an index.  result    *)
(* and status are what the last call returned, done is the termination     *)
(* flag.  list_dequeue "should block (wait) if there is no item to         *)
(* dequeue", and fails on an empty list only once list_set_done was called *)
(* (lines 64-71): until then Dequeue is not enabled.                       *)
(***************************************************************************)
EXTENDS Naturals, Sequences

CONSTANTS Data, NoData, Indices

VARIABLES items, result, status, done, call

vars == <<items, result, status, done, call>>

Init ==
    /\ items = <<>> /\ result = NoData /\ status = "none" /\ done = FALSE
    /\ call = <<"list_init", NoData>>

ElementAt(k) == IF k < Len(items) THEN items[k + 1] ELSE NoData
Without(k)   == SubSeq(items, 1, k) \o SubSeq(items, k + 2, Len(items))

Insert(d) ==
    /\ call' = <<"list_insert_last", d>>
    /\ items' = Append(items, d)
    /\ UNCHANGED <<result, status, done>>

Get(k) ==
    /\ call' = <<"list_get", k>>
    /\ result' = ElementAt(k)
    /\ UNCHANGED <<items, status, done>>

Delete(k) ==
    /\ call' = <<"list_delete_item", k>>
    /\ result' = ElementAt(k)
    /\ items' = IF k < Len(items) THEN Without(k) ELSE items
    /\ UNCHANGED <<status, done>>

Dequeue ==
    /\ call' = <<"list_dequeue", NoData>>
    /\ \/ items # <<>> /\ status' = "success" /\ result' = Head(items) /\ items' = Tail(items)
       \/ items = <<>> /\ done /\ status' = "fail" /\ result' = NoData /\ UNCHANGED items
    /\ UNCHANGED done

Contains(d) ==
    /\ call' = <<"list_contains_str", d>>
    /\ result' = IF \E k \in 1 .. Len(items) : items[k] = d THEN d ELSE NoData
    /\ UNCHANGED <<items, status, done>>

SetDone ==
    /\ call' = <<"list_set_done", NoData>>
    /\ done' = TRUE
    /\ UNCHANGED <<items, result, status>>

Next ==
    \/ \E d \in Data : Insert(d) \/ Contains(d)
    \/ \E k \in Indices : Get(k) \/ Delete(k)
    \/ Dequeue \/ SetDone

Spec == Init /\ [][Next]_vars
=============================================================================
