--------------------------- MODULE PacketPipeline ----------------------------
(***************************************************************************)
(* The threads of inspectDumpFile (DumpReader.c): a reader thread           *)
(* (PacketReader.c) deals the lines of a file to one packet queue per       *)
(* scanner, each scanner thread (Scanner.c) scans the packets of its queue  *)
(* and puts them on its free queue, and the main thread starts and joins    *)
(* them and frees the packets.                                              *)
(*                                                                         *)
(* The queues are LinkedLists whose enqueue and dequeue take no lock.  An   *)
(* operation is therefore split at the place where another thread could     *)
(* get in between: enqueue before it links the item, dequeue between its    *)
(* look at list->first and the removal.  A packet is the number of its      *)
(* line.                                                                    *)
(***************************************************************************)
EXTENDS Integers, Sequences

CONSTANTS
    Threads,     \* the number of scanners, and of queues
    MaxQueues,   \* MAX_QUEUES, the length of packetreader->packet_queues
    Sizes,       \* the lengths a line may have
    SizeLimit,   \* a longer packet makes the reader exit (100000000)
    HeaderSize,  \* HEADER_SIZE
    MaxLines     \* bound on the number of lines of the file

ASSUME PPAssumption ==
    /\ Threads \in 1 .. MaxQueues /\ MaxQueues \in Nat
    /\ Sizes \subseteq Nat \ {0}
    /\ SizeLimit \in Nat /\ HeaderSize \in Nat /\ MaxLines \in Nat

Scanners == 0 .. Threads - 1
NoPacket == 0

VARIABLES
    lines,       \* the file: the length of each line
    readable,    \* fopen finds it
    isTableMachine, dictPath,   \* arguments of inspectDumpFile
    mpc, at,     \* the main thread, and the scanner it is at
    rpc, q,      \* the reader thread, and the queue it is at
    count,       \* packets the reader has enqueued
    size, sizeWithHeaders,
    queue, done, \* the packet queues, and their flags
    spc,         \* the scanner threads
    packet,      \* what list_dequeue returned to a scanner
    scanned,     \* the packets a scanner gave to its machine, in order
    totalBytes,
    freeQueue,   \* the free queues
    dict,        \* the dictionary of a scanner: "none", "live", "freed"
    freed        \* the packets the main thread freed, in order

argVars    == <<lines, readable, isTableMachine, dictPath>>
mainVars   == <<mpc, at, freed, dict>>
readerVars == <<rpc, q, count, size, sizeWithHeaders>>
scanVars   == <<spc, packet, scanned, totalBytes>>
listVars   == <<queue, done, freeQueue>>
ppVars     == <<argVars, mainVars, readerVars, scanVars, listVars>>

Packets == 1 .. Len(lines)

PPInit ==
    /\ lines \in UNION {[1 .. n -> Sizes] : n \in 0 .. MaxLines}
    /\ readable \in BOOLEAN /\ isTableMachine \in BOOLEAN /\ dictPath \in BOOLEAN
    /\ mpc = "init" /\ at = 0
    /\ rpc = "off" /\ q = 0 /\ count = 0 /\ size = 0 /\ sizeWithHeaders = 0
    /\ queue = [i \in Scanners |-> <<>>] /\ done = [i \in Scanners |-> FALSE]
    /\ spc = [i \in Scanners |-> "off"]
    /\ packet = [i \in Scanners |-> NoPacket]
    /\ scanned = [i \in Scanners |-> <<>>]
    /\ totalBytes = [i \in Scanners |-> 0]
    /\ freeQueue = [i \in Scanners |-> <<>>]
    /\ dict = [i \in Scanners |-> "none"]
    /\ freed = <<>>

\* exit(1) in any thread ends all of them.
Running == mpc # "exited"

-----------------------------------------------------------------------------
(* inspectDumpFile, the main thread.                                       *)

\* A dictionary needs the table machine.
Refuse ==
    /\ mpc = "init" /\ dictPath /\ ~ isTableMachine
    /\ mpc' = "exited"
    /\ UNCHANGED <<argVars, at, freed, dict, readerVars, scanVars, listVars>>

\* The queues and the scanners are initialised, the reader is started.
StartReader ==
    /\ mpc = "init" /\ ~ (dictPath /\ ~ isTableMachine)
    /\ dict' = [i \in Scanners |-> IF dictPath THEN "live" ELSE "none"]
    /\ rpc' = "open"
    /\ mpc' = "joinReader"
    /\ UNCHANGED <<argVars, at, freed, q, count, size, sizeWithHeaders, scanVars,
                   listVars>>

StartAtOnce ==                  \* mutant: the reader is not waited for
    /\ mpc = "joinReader"
    /\ mpc' = "startScanners" /\ at' = 0
    /\ UNCHANGED <<argVars, freed, dict, readerVars, scanVars, listVars>>

JoinReader ==
    /\ mpc = "joinReader" /\ rpc = "end"
    /\ mpc' = "startScanners" /\ at' = 0
    /\ UNCHANGED <<argVars, freed, dict, readerVars, scanVars, listVars>>

StartScanner ==
    /\ mpc = "startScanners"
    /\ spc' = [spc EXCEPT ![at] = "dequeue"]
    /\ totalBytes' = [totalBytes EXCEPT ![at] = 0]
    /\ IF at + 1 = Threads THEN mpc' = "joinScanners" /\ at' = 0
                           ELSE mpc' = mpc /\ at' = at + 1
    /\ UNCHANGED <<argVars, freed, dict, readerVars, packet, scanned, listVars>>

JoinNobody ==                   \* mutant: the scanners are not waited for
    /\ mpc = "joinScanners"
    /\ mpc' = "free" /\ at' = 0
    /\ UNCHANGED <<argVars, freed, dict, readerVars, scanVars, listVars>>

JoinScanner ==
    /\ mpc = "joinScanners" /\ spc[at] = "end"
    /\ IF at + 1 = Threads THEN mpc' = "free" /\ at' = 0
                           ELSE mpc' = mpc /\ at' = at + 1
    /\ UNCHANGED <<argVars, freed, dict, readerVars, scanVars, listVars>>

\* scanner_free_packets, a packet per step.
FreePacket ==
    /\ mpc = "free" /\ freeQueue[at] # <<>>
    /\ freed' = Append(freed, Head(freeQueue[at]))
    /\ freeQueue' = [freeQueue EXCEPT ![at] = Tail(@)]
    /\ UNCHANGED <<argVars, mpc, at, dict, readerVars, scanVars, queue, done>>

\* The free queue is empty and destroyed, then the dictionary is.
FreeScanner ==
    /\ mpc = "free" /\ freeQueue[at] = <<>>
    /\ dict' = [dict EXCEPT ![at] = IF @ = "live" THEN "freed" ELSE @]
    /\ IF at + 1 = Threads THEN mpc' = "returned" /\ at' = 0
                           ELSE mpc' = mpc /\ at' = at + 1
    /\ UNCHANGED <<argVars, freed, readerVars, scanVars, listVars>>

inspectDumpFile ==
    \/ Refuse \/ StartReader \/ JoinReader \/ StartScanner \/ JoinScanner
    \/ FreePacket \/ FreeScanner

-----------------------------------------------------------------------------
(* start_packetreader_thread.                                              *)

Open ==
    /\ Running /\ rpc = "open"
    /\ IF readable THEN rpc' = "read" /\ UNCHANGED mpc
                   ELSE mpc' = "exited" /\ UNCHANGED rpc
    /\ UNCHANGED <<argVars, at, freed, dict, q, count, size, sizeWithHeaders,
                   scanVars, listVars>>

\* getline, the check of the size, and the choice of the queue.
ReadLine ==
    /\ Running /\ rpc = "read" /\ count < Len(lines)
    /\ IF lines[count + 1] > SizeLimit
       THEN mpc' = "exited" /\ UNCHANGED rpc
       ELSE rpc' = "enqueue" /\ UNCHANGED mpc
    /\ UNCHANGED <<argVars, at, freed, dict, q, count, size, sizeWithHeaders,
                   scanVars, listVars>>

\* The queue after q, round robin.
QueuePlusOne == q + 1           \* mutant: no wrap around
SameQueue    == q               \* mutant: one queue gets everything
NextQueue    == (q + 1) % Threads

\* list_enqueue links the packet.  (q is local to the reader and moves in the
\* same step.)
Enqueue ==
    /\ Running /\ rpc = "enqueue"
    /\ queue' = [queue EXCEPT ![q] = Append(@, count + 1)]
    /\ q' = NextQueue
    /\ count' = count + 1
    /\ size' = size + lines[count + 1]
    /\ sizeWithHeaders' = sizeWithHeaders + lines[count + 1] + HeaderSize
    /\ rpc' = "read"
    /\ UNCHANGED <<argVars, mainVars, scanVars, done, freeQueue>>

EndOfFile ==
    /\ Running /\ rpc = "read" /\ count = Len(lines)
    /\ rpc' = "setDone" /\ q' = 0
    /\ UNCHANGED <<argVars, mainVars, count, size, sizeWithHeaders, scanVars,
                   listVars>>

SetDone ==
    /\ Running /\ rpc = "setDone" /\ q < Threads
    /\ done' = [done EXCEPT ![q] = TRUE]
    /\ q' = q + 1
    /\ UNCHANGED <<argVars, mainVars, rpc, count, size, sizeWithHeaders, scanVars,
                   queue, freeQueue>>

EndReader ==
    /\ Running /\ rpc = "setDone" /\ q = Threads
    /\ rpc' = "end"
    /\ UNCHANGED <<argVars, mainVars, q, count, size, sizeWithHeaders, scanVars,
                   listVars>>

Reader == Open \/ ReadLine \/ Enqueue \/ EndOfFile \/ SetDone \/ EndReader

-----------------------------------------------------------------------------
(* start_scanner_thread.  scanner->done is never set.                      *)

WaitForPacket(i) ==             \* mutant: waits on the empty list
    /\ Running /\ spc[i] = "dequeue" /\ queue[i] # <<>>
    /\ spc' = [spc EXCEPT ![i] = "delete"]
    /\ UNCHANGED <<argVars, mainVars, readerVars, packet, scanned, totalBytes,
                   listVars>>

\* list_dequeue looks at list->first; on an empty list it fails at once, and
\* the scanner leaves its loop.
LookAtQueue(i) ==
    /\ Running /\ spc[i] = "dequeue"
    /\ spc' = [spc EXCEPT ![i] = IF queue[i] = <<>> THEN "end" ELSE "delete"]
    /\ UNCHANGED <<argVars, mainVars, readerVars, packet, scanned, totalBytes,
                   listVars>>

\* list_delete_item_lock takes the first item, or returns NULL if there is none
\* any more: then the scanner leaves its loop, too.
DeleteFirst(i) ==
    /\ Running /\ spc[i] = "delete"
    /\ IF queue[i] = <<>>
       THEN spc' = [spc EXCEPT ![i] = "end"] /\ UNCHANGED <<packet, queue>>
       ELSE /\ packet' = [packet EXCEPT ![i] = Head(queue[i])]
            /\ queue' = [queue EXCEPT ![i] = Tail(@)]
            /\ spc' = [spc EXCEPT ![i] = "match"]
    /\ UNCHANGED <<argVars, mainVars, readerVars, scanned, totalBytes, done, freeQueue>>

\* match, matchTableMachine or matchDictionaryTableMachine; the bytes counted.
Match(i) ==
    /\ Running /\ spc[i] = "match"
    /\ scanned' = [scanned EXCEPT ![i] = Append(@, packet[i])]
    /\ totalBytes' = [totalBytes EXCEPT ![i] = @ + lines[packet[i]]]
    /\ spc' = [spc EXCEPT ![i] = "putFree"]
    /\ UNCHANGED <<argVars, mainVars, readerVars, packet, listVars>>

PutFree(i) ==
    /\ Running /\ spc[i] = "putFree"
    /\ freeQueue' = [freeQueue EXCEPT ![i] = Append(@, packet[i])]
    /\ packet' = [packet EXCEPT ![i] = NoPacket]
    /\ spc' = [spc EXCEPT ![i] = "dequeue"]
    /\ UNCHANGED <<argVars, mainVars, readerVars, scanned, totalBytes, queue, done>>

Scanner(i) == LookAtQueue(i) \/ DeleteFirst(i) \/ Match(i) \/ PutFree(i)

-----------------------------------------------------------------------------
\* Over, regularly or by exit(1).
Over == mpc \in {"returned", "exited"}

PPNext ==
    \/ inspectDumpFile
    \/ Reader
    \/ \E i \in Scanners : Scanner(i)
    \/ Over /\ UNCHANGED ppVars

\* Every thread is scheduled; none of them waits for anything but a join.
PPFairness ==
    /\ WF_ppVars(inspectDumpFile) /\ WF_ppVars(Reader)
    /\ \A i \in Scanners : WF_ppVars(Scanner(i))

PPSpec == PPInit /\ [][PPNext]_ppVars /\ PPFairness
-----------------------------------------------------------------------------
(* Properties.                                                             *)

\* Every variable has its type; the queue the reader deals to exists.
PPTypeOK ==
    /\ lines \in Seq(Sizes) /\ readable \in BOOLEAN
    /\ isTableMachine \in BOOLEAN /\ dictPath \in BOOLEAN
    /\ mpc \in {"init", "joinReader", "startScanners", "joinScanners", "free",
                "returned", "exited"}
    /\ at \in Scanners
    /\ rpc \in {"off", "open", "read", "enqueue", "setDone", "end"}
    /\ q \in IF rpc = "enqueue" THEN Scanners ELSE 0 .. Threads
    /\ count \in 0 .. Len(lines)
    /\ size \in Nat /\ sizeWithHeaders \in Nat
    /\ queue \in [Scanners -> Seq(Packets)] /\ done \in [Scanners -> BOOLEAN]
    /\ spc \in [Scanners -> {"off", "dequeue", "delete", "match", "putFree", "end"}]
    /\ packet \in [Scanners -> Packets \cup {NoPacket}]
    /\ scanned \in [Scanners -> Seq(Packets)]
    /\ totalBytes \in [Scanners -> Nat]
    /\ freeQueue \in [Scanners -> Seq(Packets)]
    /\ dict \in [Scanners -> {"none", "live", "freed"}]
    /\ freed \in Seq(Packets)

\* The lists have no lock, so no two threads may be at the same list at once:
\* the reader at a packet queue its scanner is using, or the main thread at a
\* free queue its scanner is still filling.
NoListRace ==
    \A i \in Scanners :
        /\ ~ /\ rpc \in {"enqueue", "setDone"} /\ q = i
             /\ spc[i] \in {"dequeue", "delete"}
        /\ ~ (mpc = "free" /\ at = i /\ spc[i] # "end")

\* LinkedList.h has list_dequeue fail only after list_set_done.  The code fails
\* on any empty list; the pipeline keeps the promise all the same: a scanner
\* gives up only when its queue is empty and done.
GivesUpOnlyWhenDone ==
    \A i \in Scanners : spc[i] = "end" => done[i] /\ queue[i] = <<>>

\* The packets dealt to queue i, in file order: i + 1 and every Threads-th after it.
DealtTo(i) == [m \in 1 .. (count + Threads - 1 - i) \div Threads |-> (m - 1) * Threads + i + 1]

\* A packet the scanner took and has not yet scanned.
InHand(i) == IF spc[i] = "match" THEN <<packet[i]>> ELSE <<>>

\* Round robin in file order: what a scanner scanned, has in hand and has yet
\* to dequeue are exactly the packets dealt to it, in the order of the file.
ScannedInOrder == \A i \in Scanners : scanned[i] \o InHand(i) \o queue[i] = DealtTo(i)

\* The bytes counted by the scanners 0 .. i.
BytesUpTo[i \in -1 .. Threads - 1] ==
    IF i = -1 THEN 0 ELSE totalBytes[i] + BytesUpTo[i - 1]

\* When inspectDumpFile returns every line was scanned once and freed once, and
\* the bytes the scanners counted are the bytes the reader counted.
EveryPacketOnce ==
    mpc = "returned" =>
        /\ \A k \in Packets :
              \E i \in Scanners : \E m \in 1 .. Len(scanned[i]) : scanned[i][m] = k
        /\ \A k \in Packets : \E m \in 1 .. Len(freed) : freed[m] = k
        /\ Len(freed) = Len(lines)
        /\ BytesUpTo[Threads - 1] = size

\* Freed memory is not used: a packet is freed once, and never while a scanner
\* holds it; a scanner matches with a live dictionary, if it has one.
NothingUsedAfterFree ==
    /\ \A m, k \in 1 .. Len(freed) : freed[m] = freed[k] => m = k
    /\ \A i \in Scanners :
          spc[i] \in {"match", "putFree"} =>
              /\ \A m \in 1 .. Len(freed) : freed[m] # packet[i]
              /\ dict[i] = IF dictPath THEN "live" ELSE "none"

\* inspectDumpFile comes to an end: every join is answered.
Terminates == <>Over
=============================================================================
