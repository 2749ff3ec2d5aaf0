--------------------------- MODULE PipelineProofs ----------------------------
(***************************************************************************)
(* Proofs about module PacketPipeline, for any number of threads, any file  *)
(* and any sizes: its types, that no two threads are at a list at once,     *)
(* that a scanner gives up only at the end of its packets, that packets are *)
(* scanned in the order of the file, that nothing is used once freed, and   *)
(* that in the end every packet was scanned and freed once.                 *)
(*                                                                         *)
(* None of these is inductive alone.  IInv adds what the threads owe each   *)
(* other: the reader is at the queue of the next line (AtQueue), the        *)
(* scanners run only behind the reader and the main thread frees only       *)
(* behind them (Phases), a free queue keeps what its scanner scanned until  *)
(* then (Kept), and the packets a free queue holds are those dealt to its   *)
(* number modulo Threads, so that no two have a packet in common            *)
(* (FreedOnce).  AllInv adds that no packet is lost on the way, and what    *)
(* the bytes counted are the sums of.                                       *)
(***************************************************************************)
EXTENDS PacketPipeline, StringLemmas

-----------------------------------------------------------------------------
(* Division, for round robin.                                              *)

\* Multiples of T are T apart.
LEMMA TimesOrder ==
    ASSUME NEW T \in Nat \ {0}, NEW a \in Int, NEW b \in Int, a < b
    PROVE  a * T + T <= b * T
<1>1. PICK d \in Nat : b = a + 1 + d
  <2>1. b - a - 1 \in Nat /\ b = a + 1 + (b - a - 1)
    OBVIOUS
  <2> QED
    BY <2>1
<1>2. b * T = a * T + T + d * T
  BY <1>1
<1>3. d * T >= 0 /\ d * T \in Int /\ a * T \in Int
  BY <1>1
<1> QED
  BY <1>2, <1>3

\* Quotient and remainder are unique.
LEMMA Unique ==
    ASSUME NEW T \in Nat \ {0}, NEW a \in Int, NEW b \in Int,
           NEW r \in 0 .. T - 1, NEW s \in 0 .. T - 1,
           a * T + r = b * T + s
    PROVE  a = b /\ r = s
<1>1. a * T \in Int /\ b * T \in Int
  OBVIOUS
<1>2. ~ a < b
  <2>1. SUFFICES ASSUME a < b PROVE FALSE
    OBVIOUS
  <2>2. a * T + T <= b * T
    BY <2>1, TimesOrder
  <2> QED
    BY <2>2, <1>1
<1>3. ~ b < a
  <2>1. SUFFICES ASSUME b < a PROVE FALSE
    OBVIOUS
  <2>2. b * T + T <= a * T
    BY <2>1, TimesOrder
  <2> QED
    BY <2>2, <1>1
<1>4. a = b
  BY <1>2, <1>3
<1> QED
  BY <1>4, <1>1

\* Division returns a quotient and a remainder.
LEMMA DivMod ==
    ASSUME NEW T \in Nat \ {0}, NEW c \in Int
    PROVE  /\ c \div T \in Int /\ c % T \in 0 .. T - 1
           /\ c = (c \div T) * T + (c % T)
<1>1. c \div T \in Int /\ c % T \in 0 .. T - 1
  OBVIOUS
<1>2. c = T * (c \div T) + (c % T)
  OBVIOUS
<1> QED
  BY <1>1, <1>2

\* The quotient and the remainder of a number written with both.
LEMMA DivIs ==
    ASSUME NEW T \in Nat \ {0}, NEW a \in Int, NEW r \in 0 .. T - 1
    PROVE  (a * T + r) \div T = a /\ (a * T + r) % T = r
<1> DEFINE c == a * T + r
<1>1. c \in Int
  OBVIOUS
<1> HIDE DEF c
<1>2. /\ c \div T \in Int /\ c % T \in 0 .. T - 1
      /\ c = (c \div T) * T + (c % T)
  BY <1>1, DivMod
<1>3. c = a * T + r
  BY DEF c
<1>4. a = c \div T /\ r = c % T
  BY <1>2, <1>3, Unique
<1> QED
  BY <1>4, <1>3

\* How many of c lines are dealt to queue i.
Dealt(c, i) == (c + Threads - 1 - i) \div Threads

\* There is a scanner, and they are numbered from 0.
LEMMA ThreadsType == Threads \in Nat \ {0} /\ Scanners = 0 .. Threads - 1
BY PPAssumption DEF Scanners

\* The next line goes to queue c % Threads and to no other.
LEMMA DealtNext ==
    ASSUME NEW c \in Nat, NEW i \in Scanners
    PROVE  /\ Dealt(c, i) \in Nat
           /\ c % Threads = i => /\ Dealt(c + 1, i) = Dealt(c, i) + 1
                                 /\ Dealt(c, i) * Threads + i + 1 = c + 1
           /\ c % Threads # i => Dealt(c + 1, i) = Dealt(c, i)
<1> DEFINE k == c \div Threads
           p == c % Threads
<1>1. Threads \in Nat \ {0} /\ i \in 0 .. Threads - 1
  BY ThreadsType
<1>2. k \in Int /\ p \in 0 .. Threads - 1 /\ c = k * Threads + p
  BY <1>1, DivMod
<1>0. k \in Nat
  <2>1. SUFFICES ASSUME k < 0 PROVE FALSE
    BY <1>2
  <2>2. k * Threads + Threads <= 0 * Threads
    BY <1>1, <1>2, <2>1, TimesOrder
  <2> QED
    BY <2>2, <1>1, <1>2
<1> HIDE DEF k, p
<1>3. k * Threads \in Int /\ (k + 1) * Threads = k * Threads + Threads
  BY <1>0, <1>1
<1>4. \A r \in 0 .. Threads - 1 :
         /\ (k * Threads + r) \div Threads = k
         /\ ((k + 1) * Threads + r) \div Threads = k + 1
  <2>1. TAKE r \in 0 .. Threads - 1
  <2>2. (k * Threads + r) \div Threads = k
    BY <1>0, <1>1, DivIs
  <2>3. k + 1 \in Int
    BY <1>0
  <2>4. ((k + 1) * Threads + r) \div Threads = k + 1
    BY <2>3, <1>1, DivIs
  <2> QED
    BY <2>2, <2>4
<1>5. p <= i => Dealt(c, i) = k
  <2>1. c + Threads - 1 - i = k * Threads + (p + Threads - 1 - i)
    BY <1>1, <1>2, <1>3
  <2>2. p <= i => p + Threads - 1 - i \in 0 .. Threads - 1
    BY <1>1, <1>2
  <2> QED
    BY <2>1, <2>2, <1>4 DEF Dealt
<1>6. p > i => Dealt(c, i) = k + 1
  <2>1. c + Threads - 1 - i = (k + 1) * Threads + (p - 1 - i)
    BY <1>1, <1>2, <1>3
  <2>2. p > i => p - 1 - i \in 0 .. Threads - 1
    BY <1>1, <1>2
  <2> QED
    BY <2>1, <2>2, <1>4 DEF Dealt
<1>7. p < i => Dealt(c + 1, i) = k
  <2>1. (c + 1) + Threads - 1 - i = k * Threads + (p + Threads - i)
    BY <1>1, <1>2, <1>3
  <2>2. p < i => p + Threads - i \in 0 .. Threads - 1
    BY <1>1, <1>2
  <2> QED
    BY <2>1, <2>2, <1>4 DEF Dealt
<1>8. p >= i => Dealt(c + 1, i) = k + 1
  <2>1. (c + 1) + Threads - 1 - i = (k + 1) * Threads + (p - i)
    BY <1>1, <1>2, <1>3
  <2>2. p >= i => p - i \in 0 .. Threads - 1
    BY <1>1, <1>2
  <2> QED
    BY <2>1, <2>2, <1>4 DEF Dealt
<1>9. c % Threads = p
  BY DEF p
<1>10. p = i => k * Threads + i + 1 = c + 1
  BY <1>2, <1>3, <1>1
<1> QED
  BY <1>0, <1>1, <1>2, <1>5, <1>6, <1>7, <1>8, <1>9, <1>10

\* The reader's queue is the number of the line modulo Threads.
LEMMA QueueNext ==
    ASSUME NEW c \in Nat
    PROVE  /\ c % Threads \in Scanners
           /\ (c + 1) % Threads = ((c % Threads) + 1) % Threads
<1> DEFINE k == c \div Threads
           p == c % Threads
<1>1. Threads \in Nat \ {0}
  BY ThreadsType
<1>2. k \in Int /\ p \in 0 .. Threads - 1 /\ c = k * Threads + p
  BY <1>1, DivMod
<1> HIDE DEF k, p
<1>3. k * Threads \in Int /\ (k + 1) * Threads = k * Threads + Threads
  BY <1>2, <1>1
<1>4. CASE p + 1 < Threads
  <2>1. p + 1 \in 0 .. Threads - 1 /\ c + 1 = k * Threads + (p + 1) /\ p + 1 = 0 * Threads + (p + 1)
    BY <1>1, <1>2, <1>3, <1>4
  <2>2. (k * Threads + (p + 1)) % Threads = p + 1 /\ (0 * Threads + (p + 1)) % Threads = p + 1
    BY <2>1, <1>1, <1>2, DivIs
  <2>3. (c + 1) % Threads = (p + 1) % Threads
    BY <2>1, <2>2
  <2> QED
    BY <2>3, <1>2, ThreadsType DEF p
<1>5. CASE p + 1 = Threads
  <2>1. 0 \in 0 .. Threads - 1 /\ c + 1 = (k + 1) * Threads + 0 /\ p + 1 = 1 * Threads + 0
    BY <1>1, <1>2, <1>3, <1>5
  <2>2. ((k + 1) * Threads + 0) % Threads = 0 /\ (1 * Threads + 0) % Threads = 0
    BY <2>1, <1>1, <1>2, DivIs
  <2>3. (c + 1) % Threads = (p + 1) % Threads
    BY <2>1, <2>2
  <2> QED
    BY <2>3, <1>2, ThreadsType DEF p
<1> QED
  BY <1>1, <1>2, <1>4, <1>5

-----------------------------------------------------------------------------
(* The inductive invariant.                                                *)

\* The types of the variables of one owner.
MainTypes ==
    /\ lines \in Seq(Sizes) /\ readable \in BOOLEAN
    /\ isTableMachine \in BOOLEAN /\ dictPath \in BOOLEAN
    /\ mpc \in {"init", "joinReader", "startScanners", "joinScanners", "free",
                "returned", "exited"}
    /\ at \in Scanners
    /\ dict \in [Scanners -> {"none", "live", "freed"}]
    /\ freed \in Seq(Packets)
ReaderTypes ==
    /\ rpc \in {"off", "open", "read", "enqueue", "setDone", "end"}
    /\ q \in IF rpc = "enqueue" THEN Scanners ELSE 0 .. Threads
    /\ count \in 0 .. Len(lines)
    /\ size \in Nat /\ sizeWithHeaders \in Nat
ScanTypes ==
    /\ spc \in [Scanners -> {"off", "dequeue", "delete", "match", "putFree", "end"}]
    /\ packet \in [Scanners -> Packets \cup {NoPacket}]
    /\ scanned \in [Scanners -> Seq(Packets)]
    /\ totalBytes \in [Scanners -> Nat]
ListTypes ==
    /\ queue \in [Scanners -> Seq(Packets)] /\ done \in [Scanners -> BOOLEAN]
    /\ freeQueue \in [Scanners -> Seq(Packets)]

Types == MainTypes /\ ReaderTypes /\ ScanTypes /\ ListTypes

\* Until the end of the file the reader is at the queue of the next line.
AtQueue == rpc \in {"off", "open", "read", "enqueue"} => q = count % Threads

\* The lines left to the reader.
LinesLeft == rpc = "enqueue" => count < Len(lines)

\* Who may run, by the phases of the main thread and of the reader.
Phases ==
    /\ mpc = "init" => rpc = "off"
    /\ mpc \in {"init", "joinReader", "exited"} => \A i \in Scanners : spc[i] = "off"
    /\ mpc \in {"startScanners", "joinScanners", "free", "returned"} => rpc = "end"
    /\ mpc = "startScanners" => \A i \in Scanners : i >= at => spc[i] = "off"
    /\ mpc = "joinScanners" => \A i \in Scanners : i < at => spc[i] = "end"
    /\ mpc \in {"free", "returned"} => \A i \in Scanners : spc[i] = "end"
    /\ rpc = "setDone" => \A i \in Scanners : i < q => done[i]
    /\ rpc = "end" => \A i \in Scanners : done[i]

\* What a scanner holds is a packet.
Holding == \A i \in Scanners : spc[i] \in {"match", "putFree"} => packet[i] \in Packets

\* A packet scanned but not yet on the free queue.
ToFree(i) == IF spc[i] = "putFree" THEN <<packet[i]>> ELSE <<>>

\* Until the main thread frees, the free queues keep all that was scanned, and
\* the dictionaries live.
Kept ==
    mpc \notin {"free", "returned"} =>
        /\ freed = <<>>
        /\ \A i \in Scanners : scanned[i] = freeQueue[i] \o ToFree(i)
        /\ mpc \in {"joinReader", "startScanners", "joinScanners"} =>
              \A i \in Scanners : dict[i] = IF dictPath THEN "live" ELSE "none"

\* While it frees, no packet is at two places: each free queue has packets of
\* its own, and none that is freed.
FreedOnce ==
    mpc \in {"free", "returned"} =>
        /\ \A i \in Scanners : \A m \in 1 .. Len(freeQueue[i]) :
              /\ (freeQueue[i][m] - 1) % Threads = i
              /\ \A k \in 1 .. Len(freeQueue[i]) : freeQueue[i][m] = freeQueue[i][k] => m = k
              /\ \A k \in 1 .. Len(freed) : freed[k] # freeQueue[i][m]
        /\ \A m, k \in 1 .. Len(freed) : freed[m] = freed[k] => m = k

IInv ==
    /\ Types /\ AtQueue /\ LinesLeft /\ Phases /\ Holding
    /\ GivesUpOnlyWhenDone /\ ScannedInOrder /\ Kept /\ FreedOnce

-----------------------------------------------------------------------------
\* It holds when inspectDumpFile is called.
LEMMA InitIInv == PPInit => IInv
<1> SUFFICES ASSUME PPInit
             PROVE  IInv
  OBVIOUS
<1>1. Threads \in Nat \ {0} /\ Scanners = 0 .. Threads - 1
  BY ThreadsType
<1>2. lines \in Seq(Sizes)
  BY PPAssumption DEF PPInit
<1>3. 0 % Threads = 0
  BY <1>1
<1>4. Types
  BY <1>1, <1>2 DEF PPInit, Types, MainTypes, ReaderTypes, ScanTypes, ListTypes
<1>5. \A i \in Scanners : Dealt(0, i) = 0
  <2>1. TAKE i \in Scanners
  <2>2. 0 + Threads - 1 - i = 0 * Threads + (Threads - 1 - i) /\ Threads - 1 - i \in 0 .. Threads - 1
    BY <1>1
  <2> QED
    BY <2>2, <1>1, DivIs DEF Dealt
<1>6. ScannedInOrder
  <2>1. \A i \in Scanners : DealtTo(i) = <<>>
    BY <1>5 DEF DealtTo, Dealt, PPInit
  <2> QED
    BY <2>1 DEF PPInit, ScannedInOrder, InHand
<1>7. AtQueue /\ LinesLeft /\ Phases /\ Holding
  BY <1>1, <1>3 DEF PPInit, AtQueue, LinesLeft, Phases, Holding
<1>8. GivesUpOnlyWhenDone /\ Kept /\ FreedOnce
  BY DEF PPInit, GivesUpOnlyWhenDone, Kept, FreedOnce, ToFree
<1> QED
  BY <1>4, <1>6, <1>7, <1>8 DEF IInv

\* What a step leaves alone keeps its type.
LEMMA TypesUnchanged ==
    /\ MainTypes /\ UNCHANGED <<argVars, mainVars>> => MainTypes'
    /\ ReaderTypes /\ UNCHANGED <<lines, readerVars>> => ReaderTypes'
    /\ ScanTypes /\ UNCHANGED <<lines, scanVars>> => ScanTypes'
    /\ ListTypes /\ UNCHANGED <<lines, listVars>> => ListTypes'
BY DEF argVars, mainVars, readerVars, scanVars, listVars, MainTypes, ReaderTypes,
       ScanTypes, ListTypes, Packets

\* The length of a line is a number.
LEMMA LineType == lines \in Seq(Sizes) => \A k \in Packets : lines[k] \in Nat
<1> SUFFICES ASSUME lines \in Seq(Sizes), NEW k \in Packets
             PROVE  lines[k] \in Nat
  OBVIOUS
<1>1. lines[k] \in Sizes
  BY DEF Packets
<1> QED
  BY <1>1, PPAssumption

\* Assigning to an entry keeps the type of an array.
LEMMA ExceptType ==
    ASSUME NEW D, NEW S, NEW f \in [D -> S], NEW d, NEW v \in S
    PROVE  [f EXCEPT ![d] = v] \in [D -> S]
OBVIOUS

\* Adding to and taking from a list keep its type.
LEMMA SeqTypes ==
    ASSUME NEW S, NEW s \in Seq(S)
    PROVE  /\ \A v \in S : Append(s, v) \in Seq(S)
           /\ s # <<>> => Head(s) \in S /\ Tail(s) \in Seq(S)
OBVIOUS

\* The main thread keeps the types.
LEMMA TypeMain == IInv /\ inspectDumpFile => Types'
<1> SUFFICES ASSUME IInv, inspectDumpFile
             PROVE  Types'
  OBVIOUS
<1>1. Threads \in Nat \ {0} /\ Scanners = 0 .. Threads - 1
  BY ThreadsType
<1>2. MainTypes /\ ReaderTypes /\ ScanTypes /\ ListTypes
  BY DEF IInv, Types
<1>3. lines' = lines => Packets' = Packets
  BY DEF Packets
<1>4. CASE Refuse
  <2>1. MainTypes'
    BY <1>2, <1>3, <1>4 DEF Refuse, MainTypes, argVars
  <2> QED
    BY <2>1, <1>2, <1>4, TypesUnchanged DEF Types, Refuse, argVars, mainVars, readerVars, scanVars, listVars
<1>5. CASE StartReader
  <2>1. MainTypes'
    BY <1>2, <1>3, <1>5 DEF StartReader, MainTypes, argVars
  <2>2. ReaderTypes'
    BY <1>1, <1>2, <1>5 DEF StartReader, ReaderTypes, argVars
  <2> QED
    BY <2>1, <2>2, <1>2, <1>5, TypesUnchanged DEF Types, StartReader, argVars, mainVars, readerVars, scanVars, listVars
<1>6. CASE JoinReader
  <2>1. MainTypes'
    BY <1>1, <1>2, <1>3, <1>6 DEF JoinReader, MainTypes, argVars
  <2> QED
    BY <2>1, <1>2, <1>6, TypesUnchanged DEF Types, JoinReader, argVars, mainVars, readerVars, scanVars, listVars
<1>7. CASE StartScanner
  <2>1. MainTypes'
    BY <1>1, <1>2, <1>3, <1>7 DEF StartScanner, MainTypes, argVars
  <2>2. ScanTypes'
    BY <1>2, <1>3, <1>7, ExceptType DEF StartScanner, ScanTypes, argVars
  <2> QED
    BY <2>1, <2>2, <1>2, <1>7, TypesUnchanged DEF Types, StartScanner, argVars, mainVars, readerVars, scanVars, listVars
<1>8. CASE JoinScanner
  <2>1. MainTypes'
    BY <1>1, <1>2, <1>3, <1>8 DEF JoinScanner, MainTypes, argVars
  <2> QED
    BY <2>1, <1>2, <1>8, TypesUnchanged DEF Types, JoinScanner, argVars, mainVars, readerVars, scanVars, listVars
<1>9. CASE FreePacket
  <2>1. freeQueue[at] \in Seq(Packets) /\ freeQueue[at] # <<>>
    BY <1>2, <1>9 DEF FreePacket, MainTypes, ListTypes
  <2>2. Head(freeQueue[at]) \in Packets /\ Tail(freeQueue[at]) \in Seq(Packets)
    BY <2>1, SeqTypes
  <2>3. MainTypes'
    BY <2>2, <1>2, <1>3, <1>9, SeqTypes DEF FreePacket, MainTypes, argVars
  <2>4. ListTypes'
    BY <2>2, <1>2, <1>3, <1>9, ExceptType DEF FreePacket, ListTypes, argVars
  <2> QED
    BY <2>3, <2>4, <1>2, <1>9, TypesUnchanged DEF Types, FreePacket, argVars, mainVars, readerVars, scanVars, listVars
<1>10. CASE FreeScanner
  <2>1. MainTypes'
    BY <1>1, <1>2, <1>3, <1>10 DEF FreeScanner, MainTypes, argVars
  <2> QED
    BY <2>1, <1>2, <1>10, TypesUnchanged DEF Types, FreeScanner, argVars, mainVars, readerVars, scanVars, listVars
<1> QED
  BY <1>4, <1>5, <1>6, <1>7, <1>8, <1>9, <1>10 DEF inspectDumpFile

\* So does the reader.
LEMMA TypeReader == IInv /\ Reader => Types'
<1> SUFFICES ASSUME IInv, Reader
             PROVE  Types'
  OBVIOUS
<1>1. Threads \in Nat \ {0} /\ Scanners = 0 .. Threads - 1
  BY ThreadsType
<1>2. MainTypes /\ ReaderTypes /\ ScanTypes /\ ListTypes
  BY DEF IInv, Types
<1>3. lines' = lines => Packets' = Packets
  BY DEF Packets
<1>4. CASE Open
  <2>1. MainTypes' /\ ReaderTypes'
    BY <1>1, <1>2, <1>3, <1>4 DEF Open, MainTypes, ReaderTypes, argVars
  <2> QED
    BY <2>1, <1>2, <1>4, TypesUnchanged DEF Types, Open, argVars, mainVars, readerVars, scanVars, listVars
<1>5. CASE ReadLine
  <2>1. q \in Scanners
    BY <1>2, <1>5, QueueNext DEF ReadLine, AtQueue, ReaderTypes, IInv
  <2>2. MainTypes' /\ ReaderTypes'
    BY <2>1, <1>1, <1>2, <1>3, <1>5 DEF ReadLine, MainTypes, ReaderTypes, argVars
  <2> QED
    BY <2>2, <1>2, <1>5, TypesUnchanged DEF Types, ReadLine, argVars, mainVars, readerVars, scanVars, listVars
<1>6. CASE Enqueue
  <2>1. /\ q \in Scanners /\ count < Len(lines) /\ count \in Nat /\ Len(lines) \in Nat
        /\ size \in Nat /\ sizeWithHeaders \in Nat
    BY <1>2, <1>6 DEF Enqueue, LinesLeft, ReaderTypes, MainTypes, IInv
  <2>2. lines[count + 1] \in Nat /\ count + 1 \in Packets /\ HeaderSize \in Nat
    BY <2>1, <1>2, LineType, PPAssumption DEF MainTypes, Packets
  <2>3. NextQueue \in 0 .. Threads
    BY <2>1, <1>1 DEF NextQueue
  <2>a. /\ rpc' = "read" /\ q' = NextQueue /\ count' = count + 1 /\ UNCHANGED lines
        /\ size' = size + lines[count + 1] /\ sizeWithHeaders' = sizeWithHeaders + lines[count + 1] + HeaderSize
    BY <1>6 DEF Enqueue, argVars
  <2>b. count' \in 0 .. Len(lines') /\ size' \in Nat /\ sizeWithHeaders' \in Nat
    BY <2>1, <2>2, <2>a
  <2>4. ReaderTypes'
    BY <2>3, <2>a, <2>b DEF ReaderTypes
  <2>5. ListTypes'
    BY <2>1, <2>2, <1>2, <1>3, <1>6, ExceptType, SeqTypes DEF Enqueue, ListTypes, argVars
  <2> QED
    BY <2>4, <2>5, <1>2, <1>6, TypesUnchanged DEF Types, Enqueue, argVars, mainVars, readerVars, scanVars, listVars
<1>7. CASE EndOfFile
  <2>1. ReaderTypes'
    BY <1>1, <1>2, <1>7 DEF EndOfFile, ReaderTypes, argVars
  <2> QED
    BY <2>1, <1>2, <1>7, TypesUnchanged DEF Types, EndOfFile, argVars, mainVars, readerVars, scanVars, listVars
<1>8. CASE SetDone
  <2>1. ReaderTypes' /\ ListTypes'
    BY <1>1, <1>2, <1>3, <1>8 DEF SetDone, ReaderTypes, ListTypes, argVars
  <2> QED
    BY <2>1, <1>2, <1>8, TypesUnchanged DEF Types, SetDone, argVars, mainVars, readerVars, scanVars, listVars
<1>9. CASE EndReader
  <2>1. ReaderTypes'
    BY <1>1, <1>2, <1>9 DEF EndReader, ReaderTypes, argVars
  <2> QED
    BY <2>1, <1>2, <1>9, TypesUnchanged DEF Types, EndReader, argVars, mainVars, readerVars, scanVars, listVars
<1> QED
  BY <1>4, <1>5, <1>6, <1>7, <1>8, <1>9 DEF Reader

\* So does a scanner.
LEMMA TypeScanner == ASSUME NEW i \in Scanners PROVE IInv /\ Scanner(i) => Types'
<1> SUFFICES ASSUME IInv, Scanner(i)
             PROVE  Types'
  OBVIOUS
<1>1. MainTypes /\ ReaderTypes /\ ScanTypes /\ ListTypes /\ Holding
  BY DEF IInv, Types
<1>2. lines' = lines => Packets' = Packets
  BY DEF Packets
<1>3. CASE LookAtQueue(i)
  <2>1. ScanTypes'
    BY <1>1, <1>2, <1>3, ExceptType DEF LookAtQueue, ScanTypes, argVars
  <2> QED
    BY <2>1, <1>1, <1>3, TypesUnchanged DEF Types, LookAtQueue, argVars, mainVars, readerVars, scanVars, listVars
<1>4. CASE DeleteFirst(i)
  <2>1. queue[i] # <<>> => Head(queue[i]) \in Packets /\ Tail(queue[i]) \in Seq(Packets)
    BY <1>1, SeqTypes DEF ListTypes
  <2>2. /\ spc' \in [Scanners -> {"off", "dequeue", "delete", "match", "putFree", "end"}]
        /\ packet' \in [Scanners -> Packets \cup {NoPacket}]
    <3>1. CASE queue[i] = <<>>
      BY <3>1, <1>1, <1>4 DEF DeleteFirst, ScanTypes
    <3>2. CASE queue[i] # <<>>
      BY <3>2, <2>1, <1>1, <1>4 DEF DeleteFirst, ScanTypes
    <3> QED
      BY <3>1, <3>2
  <2>4. ScanTypes'
    BY <2>2, <1>1, <1>2, <1>4 DEF DeleteFirst, ScanTypes, argVars
  <2>3. ListTypes'
    BY <2>1, <1>1, <1>2, <1>4, ExceptType DEF DeleteFirst, ListTypes, argVars
  <2> QED
    BY <2>3, <2>4, <1>1, <1>4, TypesUnchanged DEF Types, DeleteFirst, argVars, mainVars, readerVars, scanVars, listVars
<1>5. CASE Match(i)
  <2>1. packet[i] \in Packets
    BY <1>1, <1>5 DEF Match, Holding
  <2>2. lines[packet[i]] \in Nat
    BY <2>1, <1>1, LineType DEF MainTypes
  <2>3. scanned[i] \in Seq(Packets) /\ totalBytes[i] \in Nat
    BY <1>1 DEF ScanTypes
  <2>4. Append(scanned[i], packet[i]) \in Seq(Packets) /\ totalBytes[i] + lines[packet[i]] \in Nat
    BY <2>1, <2>2, <2>3, SeqTypes
  <2>5. ScanTypes'
    BY <2>4, <1>1, <1>2, <1>5, ExceptType DEF Match, ScanTypes, argVars
  <2> QED
    BY <2>5, <1>1, <1>5, TypesUnchanged DEF Types, Match, argVars, mainVars, readerVars, scanVars, listVars
<1>6. CASE PutFree(i)
  <2>1. packet[i] \in Packets
    BY <1>1, <1>6 DEF PutFree, Holding
  <2>2. Append(freeQueue[i], packet[i]) \in Seq(Packets)
    BY <2>1, <1>1, SeqTypes DEF ListTypes
  <2>3. ScanTypes'
    BY <1>1, <1>2, <1>6, ExceptType DEF PutFree, ScanTypes, argVars
  <2>4. ListTypes'
    BY <2>2, <1>1, <1>2, <1>6, ExceptType DEF PutFree, ListTypes, argVars
  <2> QED
    BY <2>3, <2>4, <1>1, <1>6, TypesUnchanged DEF Types, PutFree, argVars, mainVars, readerVars, scanVars, listVars
<1> QED
  BY <1>3, <1>4, <1>5, <1>6 DEF Scanner

-----------------------------------------------------------------------------
(* Who runs when.                                                          *)

\* The reader moves q and count together.
LEMMA ReaderAtQueue == IInv /\ PPNext => AtQueue' /\ LinesLeft'
<1> SUFFICES ASSUME IInv, PPNext
             PROVE  AtQueue' /\ LinesLeft'
  OBVIOUS
<1>1. AtQueue /\ LinesLeft /\ ReaderTypes /\ Phases
  BY DEF IInv, Types
<1>2. UNCHANGED <<lines, rpc, q, count>> => AtQueue' /\ LinesLeft'
  BY <1>1 DEF AtQueue, LinesLeft
<1>3. CASE inspectDumpFile
  <2>1. CASE StartReader
    BY <2>1, <1>1 DEF StartReader, AtQueue, LinesLeft, Phases
  <2>2. CASE ~ StartReader
    BY <2>2, <1>2, <1>3 DEF inspectDumpFile, Refuse, JoinReader, StartScanner, JoinScanner,
       FreePacket, FreeScanner, argVars, readerVars
  <2> QED
    BY <2>1, <2>2
<1>4. CASE Open
  BY <1>1, <1>4 DEF Open, AtQueue, LinesLeft
<1>5. CASE ReadLine
  BY <1>1, <1>5 DEF ReadLine, AtQueue, LinesLeft, argVars
<1>6. CASE Enqueue
  <2>1. q = count % Threads /\ count \in Nat
    BY <1>1, <1>6 DEF Enqueue, AtQueue, ReaderTypes
  <2>2. q' = (count + 1) % Threads
    BY <2>1, <1>6, QueueNext DEF Enqueue, NextQueue
  <2> QED
    BY <2>2, <1>6 DEF Enqueue, AtQueue, LinesLeft
<1>7. CASE EndOfFile
  BY <1>7 DEF EndOfFile, AtQueue, LinesLeft
<1>8. CASE SetDone
  BY <1>8 DEF SetDone, AtQueue, LinesLeft
<1>9. CASE EndReader
  BY <1>9 DEF EndReader, AtQueue, LinesLeft
<1>10. ASSUME NEW i \in Scanners, Scanner(i)
       PROVE  AtQueue' /\ LinesLeft'
  BY <1>2, <1>10 DEF Scanner, LookAtQueue, DeleteFirst, Match, PutFree, argVars, readerVars
<1>11. CASE Over /\ UNCHANGED ppVars
  BY <1>2, <1>11 DEF ppVars, argVars, readerVars
<1> QED
  BY <1>3, <1>4, <1>5, <1>6, <1>7, <1>8, <1>9, <1>10, <1>11 DEF PPNext, Reader

\* The phases follow one another.
LEMMA PhasesStep == IInv /\ PPNext => Phases'
<1> SUFFICES ASSUME IInv, PPNext
             PROVE  Phases'
  OBVIOUS
<1>1. Phases /\ Types
  BY DEF IInv
<1>2. Threads \in Nat \ {0} /\ Scanners = 0 .. Threads - 1
  BY ThreadsType
<1>3. at \in Scanners /\ q \in 0 .. Threads /\ rpc \in {"off", "open", "read", "enqueue", "setDone", "end"}
  BY <1>1, <1>2 DEF Types, MainTypes, ReaderTypes
<1>4. spc \in [Scanners -> {"off", "dequeue", "delete", "match", "putFree", "end"}]
      /\ done \in [Scanners -> BOOLEAN]
  BY <1>1 DEF Types, ScanTypes, ListTypes
<1>5. UNCHANGED <<mpc, at, rpc, q, spc, done>> => Phases'
  BY <1>1 DEF Phases
<1>6. CASE Refuse
  BY <1>1, <1>6 DEF Refuse, Phases, readerVars, scanVars, listVars
<1>7. CASE StartReader
  BY <1>1, <1>7 DEF StartReader, Phases, scanVars, listVars
<1>8. CASE JoinReader
  BY <1>1, <1>8 DEF JoinReader, Phases, readerVars, scanVars, listVars
<1>9. CASE StartScanner
  <2>1. /\ rpc = "end" /\ rpc' = "end" /\ done' = done
        /\ \A i \in Scanners : spc[i] # "off" => i < at
        /\ \A i \in Scanners : i >= at => spc[i] = "off"
        /\ \A i \in Scanners : done[i]
    BY <1>1, <1>2, <1>3, <1>9 DEF StartScanner, Phases, readerVars, listVars
  <2>2. CASE at + 1 = Threads
    BY <2>1, <2>2, <1>2, <1>9 DEF StartScanner, Phases
  <2>3. CASE at + 1 # Threads
    BY <2>1, <2>3, <1>2, <1>3, <1>4, <1>9 DEF StartScanner, Phases
  <2> QED
    BY <2>2, <2>3
<1>10. CASE JoinScanner
  <2>1. /\ rpc = "end" /\ rpc' = "end" /\ done' = done /\ spc' = spc /\ spc[at] = "end"
        /\ \A i \in Scanners : i < at => spc[i] = "end"
        /\ \A i \in Scanners : done[i]
    BY <1>1, <1>10 DEF JoinScanner, Phases, readerVars, scanVars, listVars
  <2>2. CASE at + 1 = Threads
    BY <2>1, <2>2, <1>2, <1>3, <1>10 DEF JoinScanner, Phases
  <2>3. CASE at + 1 # Threads
    BY <2>1, <2>3, <1>2, <1>3, <1>10 DEF JoinScanner, Phases
  <2> QED
    BY <2>2, <2>3
<1>11. CASE FreePacket
  BY <1>1, <1>11 DEF FreePacket, Phases, readerVars, scanVars
<1>12. CASE FreeScanner
  BY <1>1, <1>12 DEF FreeScanner, Phases, readerVars, scanVars, listVars
<1>13. CASE Reader
  <2>1. rpc # "end" /\ mpc # "exited" /\ rpc # "off" /\ mpc \notin {"startScanners", "joinScanners", "free", "returned"}
    BY <1>1, <1>13 DEF Reader, Open, ReadLine, Enqueue, EndOfFile, SetDone, EndReader, Running, Phases
  <2>2. mpc = "joinReader" /\ \A i \in Scanners : spc[i] = "off"
    BY <2>1, <1>1 DEF Phases, Types, MainTypes
  <2>3. CASE Open
    BY <2>2, <2>3 DEF Open, Phases, scanVars, listVars
  <2>4. CASE ReadLine
    BY <2>2, <2>4 DEF ReadLine, Phases, scanVars, listVars
  <2>5. CASE Enqueue
    BY <2>2, <2>5 DEF Enqueue, Phases, scanVars, mainVars
  <2>6. CASE EndOfFile
    BY <2>2, <2>6, <1>2 DEF EndOfFile, Phases, scanVars, mainVars, listVars
  <2>7. CASE SetDone
    <3>1. \A i \in Scanners : i < q' => done'[i]
      BY <2>7, <1>1, <1>2, <1>3, <1>4 DEF SetDone, Phases
    <3> QED
      BY <3>1, <2>2, <2>7 DEF SetDone, Phases, scanVars, mainVars
  <2>8. CASE EndReader
    BY <2>2, <2>8, <1>1, <1>2 DEF EndReader, Phases, scanVars, mainVars, listVars
  <2> QED
    BY <2>3, <2>4, <2>5, <2>6, <2>7, <2>8, <1>13 DEF Reader
<1>14. ASSUME NEW i \in Scanners, Scanner(i)
       PROVE  Phases'
  <2>1. /\ UNCHANGED <<mpc, at, rpc, q, done>>
        /\ spc[i] \notin {"off", "end"}
        /\ \A j \in Scanners : j # i => spc'[j] = spc[j]
    BY <1>4, <1>14 DEF Scanner, LookAtQueue, DeleteFirst, Match, PutFree, mainVars, readerVars, listVars
  <2> QED
    BY <2>1, <1>1, <1>2, <1>3 DEF Phases
<1>15. CASE Over /\ UNCHANGED ppVars
  BY <1>5, <1>15 DEF ppVars, mainVars, readerVars, scanVars, listVars
<1> QED
  BY <1>6, <1>7, <1>8, <1>9, <1>10, <1>11, <1>12, <1>13, <1>14, <1>15 DEF PPNext, inspectDumpFile

\* A scanner that is not off runs behind the reader.
LEMMA ScannersAfterReader ==
    ASSUME IInv, NEW i \in Scanners, spc[i] # "off"
    PROVE  rpc = "end" /\ done[i] /\ mpc \in {"startScanners", "joinScanners", "free", "returned"}
BY DEF IInv, Phases, Types, MainTypes

\* What a scanner takes from its queue is a packet.
LEMMA HoldingStep == IInv /\ PPNext => Holding'
<1> SUFFICES ASSUME IInv, PPNext
             PROVE  Holding'
  OBVIOUS
<1>1. Holding /\ Types
  BY DEF IInv
<1>2. lines' = lines => Packets' = Packets
  BY DEF Packets
<1>3. spc \in [Scanners -> {"off", "dequeue", "delete", "match", "putFree", "end"}]
      /\ packet \in [Scanners -> Packets \cup {NoPacket}]
      /\ queue \in [Scanners -> Seq(Packets)]
  BY <1>1 DEF Types, ScanTypes, ListTypes
<1>4. UNCHANGED <<lines, spc, packet>> => Holding'
  BY <1>1, <1>2 DEF Holding
<1>5. CASE StartScanner
  BY <1>1, <1>2, <1>3, <1>5 DEF StartScanner, Holding, argVars
<1>6. CASE (inspectDumpFile /\ ~ StartScanner) \/ Reader \/ (Over /\ UNCHANGED ppVars)
  BY <1>4, <1>6 DEF inspectDumpFile, Refuse, StartReader, JoinReader, JoinScanner, FreePacket,
     FreeScanner, Reader, Open, ReadLine, Enqueue, EndOfFile, SetDone, EndReader, ppVars, argVars,
     scanVars
<1>7. ASSUME NEW i \in Scanners, LookAtQueue(i) \/ Match(i) \/ PutFree(i)
      PROVE  Holding'
  BY <1>1, <1>2, <1>3, <1>7 DEF LookAtQueue, Match, PutFree, Holding, argVars
<1>8. ASSUME NEW i \in Scanners, DeleteFirst(i)
      PROVE  Holding'
  <2>1. CASE queue[i] = <<>>
    BY <2>1, <1>1, <1>2, <1>3, <1>8 DEF DeleteFirst, Holding, argVars
  <2>2. CASE queue[i] # <<>>
    <3>1. Head(queue[i]) \in Packets
      BY <2>2, <1>3, SeqTypes
    <3>2. /\ spc' = [spc EXCEPT ![i] = "match"]
          /\ packet' = [packet EXCEPT ![i] = Head(queue[i])]
          /\ lines' = lines
      BY <2>2, <1>8 DEF DeleteFirst, argVars
    <3>3. packet'[i] \in Packets /\ \A j \in Scanners : j # i => packet'[j] = packet[j] /\ spc'[j] = spc[j]
      BY <3>1, <3>2, <1>3
    <3> QED
      BY <3>2, <3>3, <1>1, <1>2 DEF Holding
  <2> QED
    BY <2>1, <2>2
<1> QED
  BY <1>5, <1>6, <1>7, <1>8 DEF PPNext, Scanner

\* A scanner ends at an empty queue, and nothing is dealt any more.
LEMMA GivesUpStep == IInv /\ PPNext => GivesUpOnlyWhenDone'
<1> SUFFICES ASSUME IInv, PPNext
             PROVE  GivesUpOnlyWhenDone'
  OBVIOUS
<1>1. GivesUpOnlyWhenDone /\ Types
  BY DEF IInv
<1>2. spc \in [Scanners -> {"off", "dequeue", "delete", "match", "putFree", "end"}]
  BY <1>1 DEF Types, ScanTypes
<1>3. \A i \in Scanners : spc[i] # "off" => rpc = "end" /\ done[i]
  BY ScannersAfterReader
<1>4. UNCHANGED <<spc, done, queue>> => GivesUpOnlyWhenDone'
  BY <1>1 DEF GivesUpOnlyWhenDone
<1>5. CASE StartScanner
  BY <1>1, <1>2, <1>5 DEF StartScanner, GivesUpOnlyWhenDone, listVars
<1>6. CASE (inspectDumpFile /\ ~ StartScanner) \/ (Over /\ UNCHANGED ppVars)
  BY <1>4, <1>6 DEF inspectDumpFile, Refuse, StartReader, JoinReader, JoinScanner, FreePacket,
     FreeScanner, ppVars, listVars, scanVars
<1>7. CASE Reader
  <2>1. rpc # "end" /\ spc' = spc
    BY <1>7 DEF Reader, Open, ReadLine, Enqueue, EndOfFile, SetDone, EndReader, scanVars
  <2> QED
    BY <2>1, <1>3 DEF GivesUpOnlyWhenDone
<1>8. ASSUME NEW i \in Scanners, LookAtQueue(i)
      PROVE  GivesUpOnlyWhenDone'
  BY <1>1, <1>2, <1>3, <1>8 DEF LookAtQueue, GivesUpOnlyWhenDone, listVars
<1>9. ASSUME NEW i \in Scanners, Match(i) \/ PutFree(i)
      PROVE  GivesUpOnlyWhenDone'
  BY <1>1, <1>2, <1>9 DEF Match, PutFree, GivesUpOnlyWhenDone, listVars
<1>10. ASSUME NEW i \in Scanners, DeleteFirst(i)
       PROVE  GivesUpOnlyWhenDone'
  <2>1. queue \in [Scanners -> Seq(Packets)]
    BY <1>1 DEF Types, ListTypes
  <2>2. done' = done /\ spc[i] = "delete"
    BY <1>10 DEF DeleteFirst
  <2>3. CASE queue[i] = <<>>
    BY <2>2, <2>3, <1>1, <1>2, <1>3, <1>10 DEF DeleteFirst, GivesUpOnlyWhenDone
  <2>4. CASE queue[i] # <<>>
    BY <2>1, <2>2, <2>4, <1>1, <1>2, <1>10 DEF DeleteFirst, GivesUpOnlyWhenDone
  <2> QED
    BY <2>3, <2>4
<1> QED
  BY <1>5, <1>6, <1>7, <1>8, <1>9, <1>10 DEF PPNext, Scanner

-----------------------------------------------------------------------------
(* What is at which place.                                                 *)

\* Taking the head of a queue in hand keeps the order.
LEMMA MoveHead ==
    ASSUME NEW S, NEW s \in Seq(S), NEW t \in Seq(S), t # <<>>
    PROVE  s \o <<Head(t)>> \o Tail(t) = s \o <<>> \o t
OBVIOUS

\* So does adding what is in hand to what is done.
LEMMA MoveHand ==
    ASSUME NEW S, NEW s \in Seq(S), NEW t \in Seq(S), NEW v \in S
    PROVE  Append(s, v) \o <<>> \o t = s \o <<v>> \o t
OBVIOUS

\* Adding to the last of two lists adds to both together.
LEMMA MoveLast ==
    ASSUME NEW S, NEW s \in Seq(S), NEW t \in Seq(S), NEW v \in S
    PROVE  s \o Append(t, v) = Append(s \o t, v)
OBVIOUS

\* What a scanner holds is in sequences of packets.
LEMMA HandType ==
    ASSUME Types, Holding, NEW i \in Scanners
    PROVE  /\ InHand(i) \in Seq(Packets) /\ ToFree(i) \in Seq(Packets)
           /\ scanned[i] \in Seq(Packets) /\ queue[i] \in Seq(Packets) /\ freeQueue[i] \in Seq(Packets)
<1>1. spc[i] \in {"match", "putFree"} => packet[i] \in Packets
  BY DEF Holding
<1> QED
  BY <1>1 DEF InHand, ToFree, Types, ScanTypes, ListTypes

\* A line enqueued is the next packet dealt to its queue, and to no other.
LEMMA DealLine ==
    ASSUME IInv, Enqueue, NEW i \in Scanners
    PROVE  DealtTo(i)' = IF i = q THEN Append(DealtTo(i), count + 1) ELSE DealtTo(i)
<1>1. count \in Nat /\ q = count % Threads /\ count' = count + 1
  BY DEF IInv, Types, ReaderTypes, MainTypes, AtQueue, Enqueue
<1>2. /\ Dealt(count, i) \in Nat
      /\ i = q => /\ Dealt(count + 1, i) = Dealt(count, i) + 1
                  /\ Dealt(count, i) * Threads + i + 1 = count + 1
      /\ i # q => Dealt(count + 1, i) = Dealt(count, i)
  BY <1>1, DealtNext
<1>3. Threads \in Nat \ {0} /\ i \in Nat
  BY ThreadsType
<1>4. /\ DealtTo(i)  = [m \in 1 .. Dealt(count, i) |-> (m - 1) * Threads + i + 1]
      /\ DealtTo(i)' = [m \in 1 .. Dealt(count + 1, i) |-> (m - 1) * Threads + i + 1]
  BY <1>1 DEF DealtTo, Dealt
<1> DEFINE n == Dealt(count, i)
<1> HIDE DEF n
<1>5. CASE i = q
  <2>1. DealtTo(i)' = [m \in 1 .. n + 1 |-> (m - 1) * Threads + i + 1]
    BY <1>2, <1>4, <1>5 DEF n
  <2>2. n \in Nat /\ DealtTo(i) = [m \in 1 .. n |-> (m - 1) * Threads + i + 1]
    BY <1>2, <1>4 DEF n
  <2>3. n * Threads + i + 1 = count + 1
    BY <1>2, <1>5 DEF n
  <2>4. DealtTo(i) \in Seq(Int) /\ Len(DealtTo(i)) = n
    BY <2>2, <1>3
  <2>5. Append(DealtTo(i), count + 1) = [m \in 1 .. n + 1 |-> IF m = n + 1 THEN count + 1 ELSE DealtTo(i)[m]]
    BY <2>4, <2>2, <1>1
  <2>6. \A m \in 1 .. n + 1 : (m - 1) * Threads + i + 1 = IF m = n + 1 THEN count + 1 ELSE DealtTo(i)[m]
    <3>1. TAKE m \in 1 .. n + 1
    <3>2. CASE m = n + 1
      <4>1. m - 1 = n
        BY <3>2, <2>2
      <4> QED
        BY <4>1, <2>3, <3>2
    <3>3. CASE m # n + 1
      <4>1. m \in 1 .. n
        BY <3>3, <2>2
      <4> QED
        BY <4>1, <2>2, <3>3
    <3> QED
      BY <3>2, <3>3
  <2> QED
    BY <2>1, <2>5, <2>6, <1>5
<1>6. CASE i # q
  BY <1>2, <1>4, <1>6
<1> QED
  BY <1>5, <1>6

\* A packet moves from the reader to the queue, from there to the scanner and
\* from there to its machine, and never changes places with another.
LEMMA ScannedStep == IInv /\ PPNext => ScannedInOrder'
<1> SUFFICES ASSUME IInv, PPNext
             PROVE  ScannedInOrder'
  OBVIOUS
<1>1. ScannedInOrder /\ Types /\ Holding /\ Phases
  BY DEF IInv
<1>2. /\ spc \in [Scanners -> {"off", "dequeue", "delete", "match", "putFree", "end"}]
      /\ packet \in [Scanners -> Packets \cup {NoPacket}]
      /\ scanned \in [Scanners -> Seq(Packets)] /\ queue \in [Scanners -> Seq(Packets)]
  BY <1>1 DEF Types, ScanTypes, ListTypes
<1>3. UNCHANGED <<count, spc, packet, scanned, queue>> => ScannedInOrder'
  BY <1>1 DEF ScannedInOrder, InHand, DealtTo
<1>4. CASE StartScanner
  <2>1. spc[at] = "off" /\ at \in Scanners
    BY <1>1, <1>4 DEF StartScanner, Phases, Types, MainTypes, Scanners
  <2>2. \A i \in Scanners : InHand(i)' = InHand(i)
    BY <2>1, <1>2, <1>4 DEF StartScanner, InHand
  <2>3. UNCHANGED <<count, scanned, queue>>
    BY <1>4 DEF StartScanner, readerVars, listVars
  <2> QED
    BY <2>2, <2>3, <1>1 DEF ScannedInOrder, DealtTo
<1>5. CASE (inspectDumpFile /\ ~ StartScanner) \/ (Reader /\ ~ Enqueue) \/ (Over /\ UNCHANGED ppVars)
  BY <1>3, <1>5 DEF inspectDumpFile, Refuse, StartReader, JoinReader, JoinScanner, FreePacket,
     FreeScanner, Reader, Open, ReadLine, EndOfFile, SetDone, EndReader, ppVars, readerVars,
     scanVars, listVars
<1>6. CASE Enqueue
  <2>1. UNCHANGED <<spc, packet, scanned>> /\ queue' = [queue EXCEPT ![q] = Append(@, count + 1)]
    BY <1>6 DEF Enqueue, scanVars
  <2>2. count + 1 \in Packets
    BY <1>6 DEF IInv, LinesLeft, Enqueue, Types, ReaderTypes, MainTypes, Packets
  <2>3. ASSUME NEW i \in Scanners
        PROVE  (scanned[i] \o InHand(i) \o queue[i] = DealtTo(i))'
    <3>1. scanned[i] \o InHand(i) \o queue[i] = DealtTo(i) /\ InHand(i)' = InHand(i)
      BY <1>1, <2>1 DEF ScannedInOrder, InHand
    <3>2. /\ scanned[i] \in Seq(Packets) /\ InHand(i) \in Seq(Packets) /\ queue[i] \in Seq(Packets)
      BY <1>1, HandType
    <3>3. scanned[i] \o InHand(i) \in Seq(Packets)
      BY <3>2
    <3>4. CASE i = q
      <4>1. queue'[i] = Append(queue[i], count + 1)
        BY <3>4, <2>1, <1>2
      <4>2. DealtTo(i)' = Append(DealtTo(i), count + 1)
        BY <3>4, <1>6, DealLine
      <4>3. (scanned[i] \o InHand(i)) \o Append(queue[i], count + 1)
               = Append((scanned[i] \o InHand(i)) \o queue[i], count + 1)
        <5>1. \A s, t \in Seq(Packets), v \in Packets : s \o Append(t, v) = Append(s \o t, v)
          BY MoveLast
        <5> DEFINE s == scanned[i] \o InHand(i)
        <5>2. s \in Seq(Packets)
          BY <3>3
        <5> HIDE DEF s
        <5>3. s \o Append(queue[i], count + 1) = Append(s \o queue[i], count + 1)
          BY <2>2, <3>2, <5>1, <5>2
        <5> QED
          BY <5>3 DEF s
      <4> QED
        BY <4>1, <4>2, <4>3, <3>1, <2>1
    <3>5. CASE i # q
      <4>1. queue'[i] = queue[i]
        BY <3>5, <2>1, <1>2
      <4>2. DealtTo(i)' = DealtTo(i)
        BY <3>5, <1>6, DealLine
      <4> QED
        BY <4>1, <4>2, <3>1, <2>1
    <3> QED
      BY <3>4, <3>5
  <2> QED
    BY <2>3 DEF ScannedInOrder
<1>7. ASSUME NEW i \in Scanners, LookAtQueue(i) \/ PutFree(i)
      PROVE  ScannedInOrder'
  <2>1. UNCHANGED <<count, scanned, queue>>
    BY <1>7 DEF LookAtQueue, PutFree, readerVars, listVars
  <2>2. \A j \in Scanners : InHand(j)' = InHand(j)
    BY <1>2, <1>7 DEF LookAtQueue, PutFree, InHand
  <2> QED
    BY <2>1, <2>2, <1>1 DEF ScannedInOrder, DealtTo
<1>8. ASSUME NEW i \in Scanners, DeleteFirst(i)
      PROVE  ScannedInOrder'
  <2>1. UNCHANGED <<count, scanned>> /\ spc[i] = "delete"
    BY <1>8 DEF DeleteFirst, readerVars
  <2>2. CASE queue[i] = <<>>
    <3>1. queue' = queue /\ packet' = packet /\ spc' = [spc EXCEPT ![i] = "end"]
      BY <2>2, <1>8 DEF DeleteFirst
    <3>2. \A j \in Scanners : InHand(j)' = InHand(j)
      BY <3>1, <2>1, <1>2 DEF InHand
    <3> QED
      BY <2>1, <3>1, <3>2, <1>1 DEF ScannedInOrder, DealtTo
  <2>3. CASE queue[i] # <<>>
    <3>1. /\ packet' = [packet EXCEPT ![i] = Head(queue[i])]
          /\ queue' = [queue EXCEPT ![i] = Tail(@)]
          /\ spc' = [spc EXCEPT ![i] = "match"]
      BY <2>3, <1>8 DEF DeleteFirst
    <3>2. InHand(i) = <<>> /\ InHand(i)' = <<Head(queue[i])>> /\ queue'[i] = Tail(queue[i])
      BY <3>1, <2>1, <1>2 DEF InHand
    <3>3. \A j \in Scanners : j # i => InHand(j)' = InHand(j) /\ queue'[j] = queue[j]
      BY <3>1, <1>2 DEF InHand
    <3>4. scanned[i] \o <<Head(queue[i])>> \o Tail(queue[i]) = scanned[i] \o <<>> \o queue[i]
      BY <2>3, <1>2, MoveHead
    <3> QED
      BY <3>2, <3>3, <3>4, <2>1, <1>1 DEF ScannedInOrder, DealtTo
  <2> QED
    BY <2>2, <2>3
<1>9. ASSUME NEW i \in Scanners, Match(i)
      PROVE  ScannedInOrder'
  <2>1. /\ UNCHANGED <<count, queue, packet>> /\ spc[i] = "match"
        /\ scanned' = [scanned EXCEPT ![i] = Append(@, packet[i])]
        /\ spc' = [spc EXCEPT ![i] = "putFree"]
    BY <1>9 DEF Match, readerVars, listVars
  <2>2. packet[i] \in Packets
    BY <2>1, <1>1 DEF Holding
  <2>3. InHand(i) = <<packet[i]>> /\ InHand(i)' = <<>> /\ scanned'[i] = Append(scanned[i], packet[i])
    BY <2>1, <1>2 DEF InHand
  <2>4. \A j \in Scanners : j # i => InHand(j)' = InHand(j) /\ scanned'[j] = scanned[j]
    BY <2>1, <1>2 DEF InHand
  <2>5. Append(scanned[i], packet[i]) \o <<>> \o queue[i] = scanned[i] \o <<packet[i]>> \o queue[i]
    BY <2>2, <1>2, MoveHand
  <2> QED
    BY <2>1, <2>3, <2>4, <2>5, <1>1 DEF ScannedInOrder, DealtTo
<1> QED
  BY <1>4, <1>5, <1>6, <1>7, <1>8, <1>9 DEF PPNext, Scanner, Reader

\* A scanned packet is put on the free queue; the dictionaries live until then.
LEMMA KeptStep == IInv /\ PPNext => Kept'
<1> SUFFICES ASSUME IInv, PPNext, mpc' \notin {"free", "returned"}
             PROVE  Kept'
  BY DEF Kept
<1>1. Types /\ Holding /\ Phases /\ Kept
  BY DEF IInv
<1>2. /\ spc \in [Scanners -> {"off", "dequeue", "delete", "match", "putFree", "end"}]
      /\ packet \in [Scanners -> Packets \cup {NoPacket}]
      /\ scanned \in [Scanners -> Seq(Packets)] /\ freeQueue \in [Scanners -> Seq(Packets)]
      /\ dict \in [Scanners -> {"none", "live", "freed"}]
  BY <1>1 DEF Types, MainTypes, ScanTypes, ListTypes
<1>3. mpc \notin {"free", "returned"} /\ ~ FreePacket /\ ~ FreeScanner
  <2>1. inspectDumpFile => mpc \notin {"free", "returned"} /\ ~ FreePacket /\ ~ FreeScanner
    <3>1. ~ FreePacket
      BY DEF FreePacket
    <3>2. FreeScanner => mpc = "free" /\ mpc' \in {"free", "returned"}
      BY DEF FreeScanner
    <3>3. StartScanner \/ JoinScanner \/ Refuse \/ StartReader \/ JoinReader => mpc \notin {"free", "returned"}
      BY DEF StartScanner, JoinScanner, Refuse, StartReader, JoinReader
    <3> QED
      BY <3>1, <3>2, <3>3 DEF inspectDumpFile
  <2>2. Reader => mpc \notin {"free", "returned"}
    BY <1>1 DEF Phases, Reader, Open, ReadLine, Enqueue, EndOfFile, SetDone, EndReader
  <2>3. (\E i \in Scanners : Scanner(i)) => mpc' = mpc
    BY DEF Scanner, LookAtQueue, DeleteFirst, Match, PutFree, mainVars
  <2>4. Over /\ UNCHANGED ppVars => mpc' = mpc
    BY DEF ppVars, mainVars
  <2>5. FreePacket \/ FreeScanner => mpc = "free"
    BY DEF FreePacket, FreeScanner
  <2> QED
    BY <2>1, <2>2, <2>3, <2>4, <2>5 DEF PPNext
<1>4. /\ freed = <<>>
      /\ \A i \in Scanners : scanned[i] = freeQueue[i] \o ToFree(i)
      /\ mpc \in {"joinReader", "startScanners", "joinScanners"} =>
            \A i \in Scanners : dict[i] = IF dictPath THEN "live" ELSE "none"
  BY <1>1, <1>3 DEF Kept
<1>5. ASSUME UNCHANGED <<freed, scanned, freeQueue, dict, dictPath>>,
             mpc' \in {"joinReader", "startScanners", "joinScanners"} =>
                mpc \in {"joinReader", "startScanners", "joinScanners"},
             \A i \in Scanners : ToFree(i)' = ToFree(i)
      PROVE  Kept'
  BY <1>4, <1>5 DEF Kept
<1>6. UNCHANGED <<spc, packet>> => \A i \in Scanners : ToFree(i)' = ToFree(i)
  BY DEF ToFree
<1>7. CASE StartReader
  BY <1>4, <1>6, <1>7 DEF StartReader, Kept, argVars, scanVars, listVars
<1>8. CASE StartScanner
  <2>1. spc[at] = "off" /\ at \in Scanners
    BY <1>1, <1>8 DEF StartScanner, Phases, Types, MainTypes, Scanners
  <2>2. \A i \in Scanners : ToFree(i)' = ToFree(i)
    BY <2>1, <1>2, <1>8 DEF StartScanner, ToFree
  <2> QED
    BY <2>2, <1>5, <1>8 DEF StartScanner, argVars, listVars
<1>9. CASE Refuse \/ JoinReader \/ JoinScanner \/ Reader \/ (Over /\ UNCHANGED ppVars)
  <2>1. UNCHANGED <<freed, scanned, freeQueue, dict, dictPath, spc, packet>>
    BY <1>9 DEF Refuse, JoinReader, JoinScanner, Reader, Open, ReadLine, Enqueue, EndOfFile, SetDone,
       EndReader, ppVars, argVars, mainVars, scanVars, listVars
  <2>2. mpc' \in {"joinReader", "startScanners", "joinScanners"} =>
           mpc \in {"joinReader", "startScanners", "joinScanners"}
    BY <1>9 DEF Refuse, JoinReader, JoinScanner, Reader, Open, ReadLine, Enqueue, EndOfFile, SetDone,
       EndReader, ppVars, mainVars
  <2> QED
    BY <2>1, <2>2, <1>5, <1>6
<1>10. ASSUME NEW i \in Scanners, LookAtQueue(i) \/ DeleteFirst(i)
       PROVE  Kept'
  <2>1. UNCHANGED <<freed, scanned, freeQueue, dict, dictPath, mpc>>
    BY <1>10 DEF LookAtQueue, DeleteFirst, argVars, mainVars, listVars
  <2>2. /\ spc[i] \in {"dequeue", "delete"} /\ spc'[i] \in {"delete", "end", "match"}
        /\ \A j \in Scanners : j # i => spc'[j] = spc[j] /\ packet'[j] = packet[j]
    BY <1>2, <1>10 DEF LookAtQueue, DeleteFirst
  <2>3. \A j \in Scanners : ToFree(j)' = ToFree(j)
    BY <2>2 DEF ToFree
  <2> QED
    BY <2>1, <2>3, <1>5
<1>11. ASSUME NEW i \in Scanners, Match(i)
       PROVE  Kept'
  <2>1. /\ UNCHANGED <<freed, freeQueue, dict, dictPath, mpc, packet>> /\ spc[i] = "match"
        /\ scanned' = [scanned EXCEPT ![i] = Append(@, packet[i])]
        /\ spc' = [spc EXCEPT ![i] = "putFree"]
    BY <1>11 DEF Match, argVars, mainVars, listVars
  <2>2. packet[i] \in Packets
    BY <2>1, <1>1 DEF Holding
  <2>3. ToFree(i) = <<>> /\ ToFree(i)' = <<packet[i]>> /\ scanned'[i] = Append(scanned[i], packet[i])
    BY <2>1, <1>2 DEF ToFree
  <2>4. \A j \in Scanners : j # i => ToFree(j)' = ToFree(j) /\ scanned'[j] = scanned[j]
    BY <2>1, <1>2 DEF ToFree
  <2>5. scanned[i] = freeQueue[i]
    <3>1. scanned[i] = freeQueue[i] \o <<>>
      BY <2>3, <1>4
    <3>2. freeQueue[i] \in Seq(Packets)
      BY <1>2
    <3> QED
      BY <3>1, <3>2
  <2>6. scanned'[i] = freeQueue[i] \o <<packet[i]>>
    BY <2>2, <2>3, <2>5, <1>2
  <2>7. \A j \in Scanners : scanned'[j] = freeQueue[j] \o ToFree(j)'
    BY <2>3, <2>4, <2>6, <1>4
  <2> QED
    BY <2>1, <2>7, <1>4 DEF Kept
<1>12. ASSUME NEW i \in Scanners, PutFree(i)
       PROVE  Kept'
  <2>1. /\ UNCHANGED <<freed, scanned, dict, dictPath, mpc>> /\ spc[i] = "putFree"
        /\ freeQueue' = [freeQueue EXCEPT ![i] = Append(@, packet[i])]
        /\ packet' = [packet EXCEPT ![i] = NoPacket]
        /\ spc' = [spc EXCEPT ![i] = "dequeue"]
    BY <1>12 DEF PutFree, argVars, mainVars
  <2>2. packet[i] \in Packets
    BY <2>1, <1>1 DEF Holding
  <2>3. ToFree(i) = <<packet[i]>> /\ ToFree(i)' = <<>> /\ freeQueue'[i] = Append(freeQueue[i], packet[i])
    BY <2>1, <1>2 DEF ToFree
  <2>4. \A j \in Scanners : j # i => ToFree(j)' = ToFree(j) /\ freeQueue'[j] = freeQueue[j]
    BY <2>1, <1>2 DEF ToFree
  <2>5. freeQueue'[i] \o <<>> = freeQueue[i] \o <<packet[i]>>
    BY <2>2, <2>3, <1>2
  <2>6. \A j \in Scanners : scanned[j] = freeQueue'[j] \o ToFree(j)'
    BY <2>3, <2>4, <2>5, <1>4
  <2> QED
    BY <2>1, <2>6, <1>4 DEF Kept
<1> QED
  BY <1>3, <1>7, <1>8, <1>9, <1>10, <1>11, <1>12 DEF PPNext, Scanner, inspectDumpFile

\* When the last scanner is joined its free queue has what was dealt to it.
LEMMA DealtApart ==
    ASSUME count \in Nat, NEW i \in Scanners
    PROVE  \A m \in 1 .. Len(DealtTo(i)) :
              /\ (DealtTo(i)[m] - 1) % Threads = i
              /\ \A k \in 1 .. Len(DealtTo(i)) : DealtTo(i)[m] = DealtTo(i)[k] => m = k
<1>1. Threads \in Nat \ {0} /\ i \in 0 .. Threads - 1
  BY ThreadsType
<1> DEFINE n == Dealt(count, i)
<1>2. n \in Nat
  BY DealtNext
<1>3. DealtTo(i) = [m \in 1 .. n |-> (m - 1) * Threads + i + 1]
  BY DEF DealtTo, Dealt
<1> HIDE DEF n
<1>4. DealtTo(i) \in Seq(Int) /\ Len(DealtTo(i)) = n
  BY <1>1, <1>2, <1>3
<1>5. TAKE m \in 1 .. Len(DealtTo(i))
<1>6. m \in 1 .. n /\ m - 1 \in Int /\ DealtTo(i)[m] = (m - 1) * Threads + i + 1 /\ (m - 1) * Threads \in Int
  BY <1>1, <1>2, <1>3, <1>4
<1>7. (DealtTo(i)[m] - 1) % Threads = i
  <2>1. DealtTo(i)[m] - 1 = (m - 1) * Threads + i
    BY <1>1, <1>6
  <2>2. ((m - 1) * Threads + i) % Threads = i
    BY <1>1, <1>6, DivIs
  <2> QED
    BY <2>1, <2>2
<1>8. ASSUME NEW k \in 1 .. Len(DealtTo(i)), DealtTo(i)[m] = DealtTo(i)[k]
      PROVE  m = k
  <2>1. k \in 1 .. n /\ k - 1 \in Int /\ DealtTo(i)[k] = (k - 1) * Threads + i + 1 /\ (k - 1) * Threads \in Int
    BY <1>1, <1>2, <1>3, <1>4
  <2>2. (m - 1) * Threads + i = (k - 1) * Threads + i
    BY <2>1, <1>1, <1>6, <1>8
  <2>3. m - 1 = k - 1
    BY <2>1, <2>2, <1>1, <1>6, Unique
  <2> QED
    BY <2>1, <2>3, <1>6
<1> QED
  BY <1>7, <1>8

\* What the main thread takes off a free queue was nowhere else.
LEMMA FreedStep == IInv /\ PPNext => FreedOnce'
<1> SUFFICES ASSUME IInv, PPNext, mpc' \in {"free", "returned"}
             PROVE  FreedOnce'
  BY DEF FreedOnce
<1>1. Types /\ Holding /\ Phases /\ Kept /\ FreedOnce /\ GivesUpOnlyWhenDone /\ ScannedInOrder
  BY DEF IInv
<1>2. /\ freeQueue \in [Scanners -> Seq(Packets)] /\ freed \in Seq(Packets) /\ at \in Scanners
      /\ mpc \in {"init", "joinReader", "startScanners", "joinScanners", "free", "returned", "exited"}
      /\ scanned \in [Scanners -> Seq(Packets)] /\ count \in Nat
      /\ queue \in [Scanners -> Seq(Packets)]
  BY <1>1 DEF Types, MainTypes, ScanTypes, ListTypes, ReaderTypes
<1>3. mpc \in {"free", "returned"} /\ UNCHANGED <<freed, freeQueue>> => FreedOnce'
  BY <1>1 DEF FreedOnce
<1>4. CASE Refuse \/ StartReader \/ JoinReader \/ StartScanner
  BY <1>4 DEF Refuse, StartReader, JoinReader, StartScanner
<1>5. CASE JoinScanner
  <2>1. /\ mpc = "joinScanners" /\ at + 1 = Threads /\ spc[at] = "end"
        /\ UNCHANGED <<freed, freeQueue>>
    BY <1>5 DEF JoinScanner, listVars
  <2>a. \A i \in Scanners : i < at => spc[i] = "end"
    BY <2>1, <1>1 DEF Phases
  <2>b. Threads \in Int /\ at \in Int /\ \A i \in Scanners : i \in Int /\ i <= Threads - 1
    BY <1>2, PPAssumption DEF Scanners
  <2>2. \A i \in Scanners : spc[i] = "end"
    <3> SUFFICES ASSUME NEW i \in Scanners, i # at PROVE spc[i] = "end"
      BY <2>1
    <3>1. i < at
      BY <2>1, <2>b
    <3> QED
      BY <2>a, <3>1
  <2>3. ASSUME NEW i \in Scanners
        PROVE  freeQueue[i] = DealtTo(i)
    <3>1. queue[i] = <<>> /\ InHand(i) = <<>> /\ ToFree(i) = <<>>
      BY <2>2, <1>1 DEF GivesUpOnlyWhenDone, InHand, ToFree
    <3>2. scanned[i] = freeQueue[i] \o <<>> /\ scanned[i] \o <<>> \o <<>> = DealtTo(i)
      BY <3>1, <2>1, <1>1 DEF Kept, ScannedInOrder
    <3> QED
      BY <3>2, <1>2
  <2>4. freed = <<>>
    BY <2>1, <1>1 DEF Kept
  <2>5. ASSUME NEW i \in Scanners
        PROVE  \A m \in 1 .. Len(freeQueue[i]) :
                  /\ (freeQueue[i][m] - 1) % Threads = i
                  /\ \A k \in 1 .. Len(freeQueue[i]) : freeQueue[i][m] = freeQueue[i][k] => m = k
    BY <2>3, <1>2, DealtApart
  <2>6. 1 .. Len(freed) = {}
    BY <2>4
  <2> QED
    BY <2>1, <2>5, <2>6 DEF FreedOnce
<1>6. CASE FreePacket
  <2>1. /\ mpc = "free" /\ freeQueue[at] # <<>> /\ freeQueue[at] \in Seq(Packets)
        /\ freed' = Append(freed, Head(freeQueue[at]))
        /\ freeQueue' = [freeQueue EXCEPT ![at] = Tail(@)]
    BY <1>2, <1>6 DEF FreePacket
  <2> DEFINE f == freeQueue[at]
             h == Head(f)
  <2>2. /\ f # <<>> /\ f \in Seq(Packets) /\ h = f[1] /\ 1 \in 1 .. Len(f) /\ Len(Tail(f)) = Len(f) - 1
        /\ \A m \in 1 .. Len(Tail(f)) : Tail(f)[m] = f[m + 1] /\ m + 1 \in 1 .. Len(f) /\ m + 1 # 1
    BY <2>1
  <2>3. /\ Len(freed') = Len(freed) + 1 /\ Len(freed) \in Nat
        /\ \A m \in 1 .. Len(freed) : freed'[m] = freed[m]
        /\ freed'[Len(freed) + 1] = h
    BY <2>1, <2>2, <1>2
  <2>4. freeQueue'[at] = Tail(f) /\ \A i \in Scanners : i # at => freeQueue'[i] = freeQueue[i]
    BY <2>1, <1>2
  <2> HIDE DEF f, h
  <2>5. /\ \A i \in Scanners : \A m \in 1 .. Len(freeQueue[i]) :
              /\ (freeQueue[i][m] - 1) % Threads = i
              /\ \A k \in 1 .. Len(freeQueue[i]) : freeQueue[i][m] = freeQueue[i][k] => m = k
              /\ \A k \in 1 .. Len(freed) : freed[k] # freeQueue[i][m]
        /\ \A m, k \in 1 .. Len(freed) : freed[m] = freed[k] => m = k
    BY <2>1, <1>1 DEF FreedOnce
  <2>6. /\ (h - 1) % Threads = at
        /\ \A m \in 1 .. Len(f) : f[m] = h => m = 1
        /\ \A k \in 1 .. Len(freed) : freed[k] # h
    BY <2>2, <2>5, <1>2 DEF f
  <2>7. \A m \in 1 .. Len(f) :
              /\ (f[m] - 1) % Threads = at
              /\ \A k \in 1 .. Len(f) : f[m] = f[k] => m = k
              /\ \A k \in 1 .. Len(freed) : freed[k] # f[m]
    BY <2>5, <1>2 DEF f
  <2>8. \A k \in 1 .. Len(freed') : k \in 1 .. Len(freed) \/ (k = Len(freed) + 1 /\ freed'[k] = h)
    BY <2>3
  <2>9. ASSUME NEW i \in Scanners, NEW m \in 1 .. Len(freeQueue'[i])
        PROVE  /\ (freeQueue'[i][m] - 1) % Threads = i
               /\ \A k \in 1 .. Len(freeQueue'[i]) : freeQueue'[i][m] = freeQueue'[i][k] => m = k
               /\ \A k \in 1 .. Len(freed') : freed'[k] # freeQueue'[i][m]
    <3>1. CASE i = at
      <4>1. m \in 1 .. Len(Tail(f)) /\ freeQueue'[i] = Tail(f)
        BY <3>1, <2>4, <2>9
      <4>2. Tail(f)[m] = f[m + 1] /\ m + 1 \in 1 .. Len(f) /\ m + 1 # 1
        BY <4>1, <2>2
      <4>3. (f[m + 1] - 1) % Threads = at /\ \A k \in 1 .. Len(freed) : freed[k] # f[m + 1]
        BY <4>2, <2>7
      <4>4. f[m + 1] # h
        BY <4>2, <2>6
      <4>5. \A k \in 1 .. Len(Tail(f)) : Tail(f)[m] = Tail(f)[k] => m = k
        <5>1. SUFFICES ASSUME NEW k \in 1 .. Len(Tail(f)), Tail(f)[m] = Tail(f)[k]
                       PROVE  m = k
          OBVIOUS
        <5>2. Tail(f)[k] = f[k + 1] /\ k + 1 \in 1 .. Len(f)
          BY <2>2
        <5>3. m + 1 = k + 1
          BY <5>1, <5>2, <4>2, <2>7
        <5> QED
          BY <5>3, <4>1
      <4>6. \A k \in 1 .. Len(freed') : freed'[k] # f[m + 1]
        BY <4>3, <4>4, <2>3, <2>8
      <4> QED
        BY <3>1, <4>1, <4>2, <4>3, <4>5, <4>6
    <3>2. CASE i # at
      <4>1. freeQueue'[i] = freeQueue[i] /\ m \in 1 .. Len(freeQueue[i])
        BY <3>2, <2>4, <2>9
      <4>2. /\ (freeQueue[i][m] - 1) % Threads = i
            /\ \A k \in 1 .. Len(freeQueue[i]) : freeQueue[i][m] = freeQueue[i][k] => m = k
            /\ \A k \in 1 .. Len(freed) : freed[k] # freeQueue[i][m]
        BY <4>1, <2>5
      <4>3. freeQueue[i][m] # h
        BY <3>2, <4>2, <2>6
      <4>4. \A k \in 1 .. Len(freed') : freed'[k] # freeQueue[i][m]
        BY <4>2, <4>3, <2>3, <2>8
      <4> QED
        BY <4>1, <4>2, <4>4
    <3> QED
      BY <3>1, <3>2
  <2>10. \A m, k \in 1 .. Len(freed') : freed'[m] = freed'[k] => m = k
    BY <2>3, <2>5, <2>6, <2>8
  <2> QED
    BY <2>9, <2>10 DEF FreedOnce
<1>7. CASE FreeScanner
  BY <1>3, <1>7 DEF FreeScanner, listVars
<1>8. CASE Reader
  BY <1>1, <1>8 DEF Phases, Reader, Open, ReadLine, Enqueue, EndOfFile, SetDone, EndReader, mainVars
<1>9. ASSUME NEW i \in Scanners, Scanner(i)
      PROVE  FreedOnce'
  <2>1. mpc' = mpc /\ spc[i] # "end"
    BY <1>9 DEF Scanner, LookAtQueue, DeleteFirst, Match, PutFree, mainVars
  <2> QED
    BY <2>1, <1>1 DEF Phases
<1>10. CASE Over /\ UNCHANGED ppVars
  BY <1>3, <1>10 DEF ppVars, mainVars, listVars
<1> QED
  BY <1>4, <1>5, <1>6, <1>7, <1>8, <1>9, <1>10 DEF PPNext, inspectDumpFile

-----------------------------------------------------------------------------
(* The theorems.                                                           *)

\* Every step keeps the invariant.
LEMMA StepIInv == IInv /\ [PPNext]_ppVars => IInv'
<1>1. IInv /\ PPNext => IInv'
  <2>1. IInv /\ PPNext => Types'
    <3>1. Over /\ UNCHANGED ppVars /\ Types => Types'
      BY TypesUnchanged DEF Types, ppVars, argVars
    <3> QED
      BY <3>1, TypeMain, TypeReader, TypeScanner DEF PPNext, IInv
  <2> QED
    BY <2>1, ReaderAtQueue, PhasesStep, HoldingStep, GivesUpStep, ScannedStep, KeptStep, FreedStep
       DEF IInv
<1>2. IInv /\ UNCHANGED ppVars => IInv'
  <2>1. Types /\ UNCHANGED ppVars => Types'
    BY TypesUnchanged DEF Types, ppVars, argVars
  <2>2. /\ AtQueue /\ UNCHANGED ppVars => AtQueue'
        /\ LinesLeft /\ UNCHANGED ppVars => LinesLeft'
        /\ Phases /\ UNCHANGED ppVars => Phases'
        /\ Holding /\ UNCHANGED ppVars => Holding'
    BY DEF ppVars, argVars, mainVars, readerVars, scanVars, listVars, AtQueue, LinesLeft, Phases,
       Holding, Packets
  <2>3. GivesUpOnlyWhenDone /\ UNCHANGED ppVars => GivesUpOnlyWhenDone'
    BY DEF ppVars, scanVars, listVars, GivesUpOnlyWhenDone
  <2>4. ScannedInOrder /\ UNCHANGED ppVars => ScannedInOrder'
    BY DEF ppVars, readerVars, scanVars, listVars, ScannedInOrder, InHand, DealtTo
  <2>5. Kept /\ UNCHANGED ppVars => Kept'
    <3>1. UNCHANGED <<spc, packet>> => \A i \in Scanners : ToFree(i)' = ToFree(i)
      BY DEF ToFree
    <3>2. UNCHANGED ppVars =>
             UNCHANGED <<mpc, freed, scanned, freeQueue, dict, dictPath, spc, packet>>
      BY DEF ppVars, argVars, mainVars, scanVars, listVars
    <3>3. ASSUME Kept, UNCHANGED ppVars PROVE Kept'
      <4>1. UNCHANGED <<mpc, freed, scanned, freeQueue, dict, dictPath>> /\ \A i \in Scanners : ToFree(i)' = ToFree(i)
        BY <3>1, <3>2, <3>3
      <4>2. mpc \notin {"free", "returned"} =>
               freed' = <<>> /\ \A i \in Scanners : scanned'[i] = freeQueue'[i] \o ToFree(i)'
        BY <3>3, <4>1 DEF Kept
      <4>3. mpc \in {"joinReader", "startScanners", "joinScanners"} =>
               \A i \in Scanners : dict'[i] = IF dictPath' THEN "live" ELSE "none"
        BY <3>3, <4>1 DEF Kept
      <4> QED
        BY <4>1, <4>2, <4>3 DEF Kept
    <3> QED
      BY <3>3
  <2>6. FreedOnce /\ UNCHANGED ppVars => FreedOnce'
    BY DEF ppVars, mainVars, listVars, FreedOnce
  <2> QED
    BY <2>1, <2>2, <2>3, <2>4, <2>5, <2>6 DEF IInv
<1> QED
  BY <1>1, <1>2

\* In every reachable state.
LEMMA Inductive == PPSpec => []IInv
BY InitIInv, StepIInv, PTL DEF PPSpec

\* The variables keep their types, and the queue the reader deals to exists,
\* for any number of threads and any file.
THEOREM PipelineTypes == PPSpec => []PPTypeOK
<1>1. IInv => PPTypeOK
  BY DEF IInv, Types, MainTypes, ReaderTypes, ScanTypes, ListTypes, PPTypeOK
<1> QED
  BY <1>1, Inductive, PTL

\* No two threads are at the same list at once, although none takes a lock: the
\* scanners start behind the reader, and the main thread frees behind them.
THEOREM NoTwoAtAList == PPSpec => []NoListRace
<1>1. IInv => NoListRace
  <2> SUFFICES ASSUME IInv, NEW i \in Scanners
               PROVE  /\ ~ /\ rpc \in {"enqueue", "setDone"} /\ q = i
                           /\ spc[i] \in {"dequeue", "delete"}
                      /\ ~ (mpc = "free" /\ at = i /\ spc[i] # "end")
    BY DEF NoListRace
  <2>1. spc[i] # "off" => rpc = "end"
    BY ScannersAfterReader
  <2>2. mpc = "free" => spc[i] = "end"
    BY DEF IInv, Phases
  <2> QED
    BY <2>1, <2>2
<1> QED
  BY <1>1, Inductive, PTL

\* A scanner that finds its queue empty has had all it will ever get.
THEOREM NoPacketLeft == PPSpec => []GivesUpOnlyWhenDone
<1>1. IInv => GivesUpOnlyWhenDone
  BY DEF IInv
<1> QED
  BY <1>1, Inductive, PTL

\* Each scanner scans the packets dealt to it, and no others, in file order.
THEOREM PacketsInOrder == PPSpec => []ScannedInOrder
<1>1. IInv => ScannedInOrder
  BY DEF IInv
<1> QED
  BY <1>1, Inductive, PTL

\* The main thread frees no packet twice and none that a scanner still holds,
\* and no dictionary a scanner still matches with.
THEOREM NoUseAfterFree == PPSpec => []NothingUsedAfterFree
<1>1. IInv => NothingUsedAfterFree
  <2> SUFFICES ASSUME IInv
               PROVE  NothingUsedAfterFree
    OBVIOUS
  <2>1. Phases /\ Kept /\ FreedOnce /\ Types
    BY DEF IInv
  <2>2. \A m, k \in 1 .. Len(freed) : freed[m] = freed[k] => m = k
    <3>1. CASE mpc \in {"free", "returned"}
      BY <3>1, <2>1 DEF FreedOnce
    <3>2. CASE mpc \notin {"free", "returned"}
      <4>1. Len(freed) = 0
        BY <3>2, <2>1 DEF Kept
      <4> QED
        BY <4>1
    <3> QED
      BY <3>1, <3>2
  <2>3. ASSUME NEW i \in Scanners, spc[i] \in {"match", "putFree"}
        PROVE  /\ \A m \in 1 .. Len(freed) : freed[m] # packet[i]
               /\ dict[i] = IF dictPath THEN "live" ELSE "none"
    <3>1. mpc \in {"startScanners", "joinScanners"}
      BY <2>1, <2>3, ScannersAfterReader DEF Phases
    <3>2. freed = <<>> /\ dict[i] = IF dictPath THEN "live" ELSE "none"
      BY <3>1, <2>1 DEF Kept
    <3>3. Len(freed) = 0
      BY <3>2
    <3> QED
      BY <3>2, <3>3
  <2> QED
    BY <2>2, <2>3 DEF NothingUsedAfterFree
<1> QED
  BY <1>1, Inductive, PTL
-----------------------------------------------------------------------------
(* Sums of numbers.                                                        *)

\* s has the sums of the first numbers of f.
SumsTo(s, f, n) ==
    /\ s \in [0 .. n -> Nat] /\ s[0] = 0
    /\ \A k \in 1 .. n : s[k] = s[k - 1] + f[k]

Sums(f, n) == CHOOSE s : SumsTo(s, f, n)

\* Numbers can be added up.
LEMMA SumsExist ==
    ASSUME NEW n \in Nat, NEW f \in [1 .. n -> Nat]
    PROVE  SumsTo(Sums(f, n), f, n)
<1> DEFINE Part(k) == \E s \in [0 .. k -> Nat] :
                         s[0] = 0 /\ \A m \in 1 .. k : s[m] = s[m - 1] + f[m]
           Bad == {k \in 0 .. n : ~ Part(k)}
<1>1. Part(0)
  <2> DEFINE s == [k \in 0 .. 0 |-> 0]
  <2>1. s \in [0 .. 0 -> Nat] /\ s[0] = 0 /\ 1 .. 0 = {}
    OBVIOUS
  <2> QED
    BY <2>1
<1>2. ASSUME NEW k \in 0 .. n - 1, Part(k)
      PROVE  Part(k + 1)
  <2>1. PICK s \in [0 .. k -> Nat] : s[0] = 0 /\ \A m \in 1 .. k : s[m] = s[m - 1] + f[m]
    BY <1>2
  <2> DEFINE t == [m \in 0 .. k + 1 |-> IF m = k + 1 THEN s[k] + f[k + 1] ELSE s[m]]
  <2>2. s[k] \in Nat /\ f[k + 1] \in Nat
    OBVIOUS
  <2>3. t \in [0 .. k + 1 -> Nat]
    BY <2>2
  <2>4. \A m \in 0 .. k : t[m] = s[m]
    OBVIOUS
  <2>5. t[k + 1] = s[k] + f[k + 1]
    OBVIOUS
  <2> HIDE DEF t
  <2>6. \A m \in 1 .. k + 1 : t[m] = t[m - 1] + f[m]
    <3>1. TAKE m \in 1 .. k + 1
    <3>2. CASE m = k + 1
      BY <3>2, <2>4, <2>5
    <3>3. CASE m \in 1 .. k
      BY <3>3, <2>1, <2>4
    <3> QED
      BY <3>2, <3>3
  <2>7. t[0] = 0
    BY <2>1, <2>4
  <2> QED
    BY <2>3, <2>6, <2>7
<1> HIDE DEF Part
<1>3. Bad = {}
  <2> SUFFICES ASSUME Bad # {}
               PROVE  FALSE
    OBVIOUS
  <2>0. Bad \subseteq Nat
    OBVIOUS
  <2> HIDE DEF Bad
  <2>1. PICK k \in Bad : \A m \in Bad : k <= m
    BY <2>0, LeastElement
  <2>2. k \in 1 .. n /\ k - 1 \in 0 .. n - 1 /\ k - 1 \notin Bad
    BY <2>1, <1>1 DEF Bad
  <2>3. Part(k - 1)
    BY <2>2 DEF Bad
  <2> QED
    BY <2>1, <2>2, <2>3, <1>2 DEF Bad
<1>4. Part(n)
  BY <1>3
<1>5. \E s : SumsTo(s, f, n)
  BY <1>4 DEF Part, SumsTo
<1> QED
  BY <1>5 DEF Sums

\* If one number grows, so does the sum.
LEMMA SumGrows ==
    ASSUME NEW n \in Nat, NEW f \in [1 .. n -> Nat], NEW g \in [1 .. n -> Nat],
           NEW p \in 1 .. n, NEW d \in Nat,
           g[p] = f[p] + d, \A k \in 1 .. n : k # p => g[k] = f[k]
    PROVE  \A s, t : SumsTo(s, f, n) /\ SumsTo(t, g, n) => t[n] = s[n] + d
<1> SUFFICES ASSUME NEW s, NEW t, SumsTo(s, f, n), SumsTo(t, g, n)
             PROVE  t[n] = s[n] + d
  OBVIOUS
<1> DEFINE Same(k) == t[k] = s[k] + IF k < p THEN 0 ELSE d
           Bad == {k \in 0 .. n : ~ Same(k)}
<1>1. /\ s \in [0 .. n -> Nat] /\ s[0] = 0 /\ \A k \in 1 .. n : s[k] = s[k - 1] + f[k]
      /\ t \in [0 .. n -> Nat] /\ t[0] = 0 /\ \A k \in 1 .. n : t[k] = t[k - 1] + g[k]
  BY DEF SumsTo
<1>2. Same(0)
  BY <1>1
<1>3. ASSUME NEW k \in 0 .. n - 1, Same(k)
      PROVE  Same(k + 1)
  <2> DEFINE m == k + 1
  <2>1. m \in 1 .. n /\ m - 1 = k /\ k \in 0 .. n /\ k \in Nat /\ p \in Nat /\ (k < p <=> m <= p)
    OBVIOUS
  <2> HIDE DEF m
  <2>2. s[m] = s[k] + f[m] /\ t[m] = t[k] + g[m]
    BY <2>1, <1>1
  <2>3. s[k] \in Nat /\ t[k] \in Nat /\ f[m] \in Nat /\ g[m] \in Nat
    <3>1. s \in [0 .. n -> Nat] /\ t \in [0 .. n -> Nat]
      BY <1>1
    <3>2. k \in 0 .. n /\ m \in 1 .. n
      BY <2>1
    <3> QED
      BY <3>1, <3>2
  <2>4. CASE m = p
    <3>1. g[m] = f[m] + d /\ t[k] = s[k] + 0
      BY <2>1, <2>4, <1>3
    <3>2. t[m] = s[m] + d /\ ~ m < p
      BY <3>1, <2>1, <2>2, <2>3, <2>4
    <3> QED
      BY <3>2 DEF m
  <2>5. CASE m < p
    <3>1. g[m] = f[m] /\ t[k] = s[k] + 0
      BY <2>1, <2>5, <1>3
    <3>2. t[m] = s[m] + 0
      BY <3>1, <2>2, <2>3
    <3> QED
      BY <3>2, <2>5 DEF m
  <2>6. CASE p < m
    <3>1. g[m] = f[m] /\ t[k] = s[k] + d
      BY <2>1, <2>6, <1>3
    <3>2. t[m] = s[m] + d /\ ~ m < p
      BY <3>1, <2>1, <2>2, <2>3, <2>6
    <3> QED
      BY <3>2 DEF m
  <2>7. m < p \/ m = p \/ p < m
    BY <2>1
  <2> QED
    BY <2>4, <2>5, <2>6, <2>7
<1> HIDE DEF Same
<1>4. Bad = {}
  <2> SUFFICES ASSUME Bad # {}
               PROVE  FALSE
    OBVIOUS
  <2>0. Bad \subseteq Nat
    OBVIOUS
  <2> HIDE DEF Bad
  <2>1. PICK k \in Bad : \A m \in Bad : k <= m
    BY <2>0, LeastElement
  <2>2. k \in 1 .. n /\ k - 1 \in 0 .. n - 1 /\ k - 1 \notin Bad
    BY <2>1, <1>2 DEF Bad
  <2>3. Same(k - 1)
    BY <2>2 DEF Bad
  <2> QED
    BY <2>1, <2>2, <2>3, <1>3 DEF Bad
<1>5. Same(n)
  BY <1>4
<1> QED
  BY <1>5, <1>1 DEF Same

\* A sum of zeros is zero.
LEMMA SumOfZeros ==
    ASSUME NEW n \in Nat, NEW f \in [1 .. n -> Nat], \A k \in 1 .. n : f[k] = 0,
           NEW s, SumsTo(s, f, n)
    PROVE  s[n] = 0
<1> DEFINE Bad == {k \in 0 .. n : s[k] # 0}
<1>1. s \in [0 .. n -> Nat] /\ s[0] = 0 /\ \A k \in 1 .. n : s[k] = s[k - 1] + f[k]
  BY DEF SumsTo
<1>2. Bad = {}
  <2> SUFFICES ASSUME Bad # {}
               PROVE  FALSE
    OBVIOUS
  <2>0. Bad \subseteq Nat
    OBVIOUS
  <2> HIDE DEF Bad
  <2>1. PICK k \in Bad : \A m \in Bad : k <= m
    BY <2>0, LeastElement
  <2>2. k \in 1 .. n /\ k - 1 \in 0 .. n - 1 /\ k - 1 \notin Bad
    BY <2>1, <1>1 DEF Bad
  <2>3. s[k - 1] = 0 /\ f[k] = 0 /\ s[k] = s[k - 1] + f[k]
    BY <2>2, <1>1 DEF Bad
  <2> QED
    BY <2>1, <2>3 DEF Bad
<1> QED
  BY <1>2

-----------------------------------------------------------------------------
(* Every packet once, and the bytes of all.                                *)

\* The length of line k, and the lengths of those dealt to queue i in the end.
Length(k)       == IF k \in Packets THEN lines[k] ELSE 0
DealtLengths(i) == [n \in 1 .. Dealt(Len(lines), i) |-> Length((n - 1) * Threads + i + 1)]
DealtBytes(i)   == Sums(DealtLengths(i), Dealt(Len(lines), i))

\* What the reader has dealt to each queue, in bytes, and what the scanners counted.
DealtSoFar == [n \in 1 .. Threads |-> DealtBytes(n - 1)[Dealt(count, n - 1)]]
Counted    == [n \in 1 .. Threads |-> totalBytes[n - 1]]

\* A reader that goes on deals no less.
LEMMA DealtGrows ==
    ASSUME NEW c \in Nat, NEW d \in Nat, c <= d, NEW i \in Scanners
    PROVE  Dealt(c, i) \in Nat /\ Dealt(d, i) \in Nat /\ Dealt(c, i) <= Dealt(d, i)
<1> DEFINE x == c + Threads - 1 - i
           y == d + Threads - 1 - i
<1>1. Threads \in Nat \ {0} /\ i \in 0 .. Threads - 1
  BY ThreadsType
<1>2. x \in Int /\ y \in Int /\ x <= y
  BY <1>1
<1>3. Dealt(c, i) = x \div Threads /\ Dealt(d, i) = y \div Threads
  BY DEF Dealt
<1> HIDE DEF x, y
<1>4. /\ x = Dealt(c, i) * Threads + (x % Threads) /\ x % Threads \in 0 .. Threads - 1
      /\ y = Dealt(d, i) * Threads + (y % Threads) /\ y % Threads \in 0 .. Threads - 1
  BY <1>1, <1>2, <1>3, DivMod
<1>5. Dealt(c, i) \in Nat /\ Dealt(d, i) \in Nat
  BY DealtNext
<1>6. ~ Dealt(d, i) < Dealt(c, i)
  <2>1. SUFFICES ASSUME Dealt(d, i) < Dealt(c, i) PROVE FALSE
    OBVIOUS
  <2>2. Dealt(d, i) * Threads + Threads <= Dealt(c, i) * Threads
    BY <2>1, <1>1, <1>5, TimesOrder
  <2>3. Dealt(d, i) * Threads \in Int /\ Dealt(c, i) * Threads \in Int
    BY <1>1, <1>5
  <2> QED
    BY <2>2, <2>3, <1>1, <1>2, <1>4
<1> QED
  BY <1>5, <1>6

\* The lines dealt to a queue have lengths, and these have a sum.
LEMMA DealtBytesAre ==
    ASSUME lines \in Seq(Sizes), NEW i \in Scanners
    PROVE  /\ Dealt(Len(lines), i) \in Nat
           /\ DealtLengths(i) \in [1 .. Dealt(Len(lines), i) -> Nat]
           /\ SumsTo(DealtBytes(i), DealtLengths(i), Dealt(Len(lines), i))
           /\ \A n \in 0 .. Dealt(Len(lines), i) : DealtBytes(i)[n] \in Nat
<1>1. Len(lines) \in Nat
  OBVIOUS
<1>2. Dealt(Len(lines), i) \in Nat
  BY <1>1, DealtNext
<1>3. \A k : Length(k) \in Nat
  BY LineType DEF Length
<1>4. DealtLengths(i) \in [1 .. Dealt(Len(lines), i) -> Nat]
  BY <1>3 DEF DealtLengths
<1>5. SumsTo(DealtBytes(i), DealtLengths(i), Dealt(Len(lines), i))
  BY <1>2, <1>4, SumsExist DEF DealtBytes
<1> QED
  BY <1>2, <1>4, <1>5 DEF SumsTo

\* One more line is one more number.
LEMMA DealtBytesNext ==
    ASSUME lines \in Seq(Sizes), NEW i \in Scanners, NEW n \in Nat, n < Dealt(Len(lines), i),
           n * Threads + i + 1 \in Packets
    PROVE  DealtBytes(i)[n + 1] = DealtBytes(i)[n] + lines[n * Threads + i + 1]
<1>1. n + 1 \in 1 .. Dealt(Len(lines), i) /\ (n + 1) - 1 = n
  BY DealtBytesAre
<1>2. DealtLengths(i)[n + 1] = lines[n * Threads + i + 1]
  BY <1>1 DEF DealtLengths, Length
<1>3. DealtBytes(i)[n + 1] = DealtBytes(i)[n] + DealtLengths(i)[n + 1]
  BY <1>1, DealtBytesAre DEF SumsTo
<1> QED
  BY <1>2, <1>3

\* BytesUpTo adds up what the scanners counted.
LEMMA BytesUpToIs ==
    ASSUME totalBytes \in [Scanners -> Nat]
    PROVE  /\ Counted \in [1 .. Threads -> Nat]
           /\ BytesUpTo[Threads - 1] = Sums(Counted, Threads)[Threads]
<1> DEFINE Right(h) == h = [i \in -1 .. Threads - 1 |->
                               IF i = -1 THEN 0 ELSE totalBytes[i] + h[i - 1]]
           s == Sums(Counted, Threads)
           g == [i \in -1 .. Threads - 1 |-> s[i + 1]]
<1>1. Threads \in Nat \ {0} /\ Scanners = 0 .. Threads - 1
  BY ThreadsType
<1>2. Counted \in [1 .. Threads -> Nat]
  BY <1>1 DEF Counted
<1>3. SumsTo(s, Counted, Threads)
  BY <1>1, <1>2, SumsExist
<1> HIDE DEF s
<1>4. \A i \in -1 .. Threads - 1 : g[i] = IF i = -1 THEN 0 ELSE totalBytes[i] + g[i - 1]
  <2>1. TAKE i \in -1 .. Threads - 1
  <2>2. CASE i = -1
    BY <2>2, <1>1, <1>3 DEF SumsTo
  <2>3. CASE i # -1
    <3>1. i + 1 \in 1 .. Threads /\ i - 1 \in -1 .. Threads - 1 /\ (i + 1) - 1 = i /\ (i - 1) + 1 = i
      BY <2>3, <1>1
    <3>2. s[i + 1] = s[i] + Counted[i + 1]
      BY <3>1, <1>3 DEF SumsTo
    <3>3. Counted[i + 1] = totalBytes[i] /\ totalBytes[i] \in Nat /\ s[i] \in Nat
      BY <3>1, <1>1, <1>3 DEF Counted, SumsTo
    <3> QED
      BY <2>3, <3>1, <3>2, <3>3
  <2> QED
    BY <2>2, <2>3
<1>5. Right(g)
  BY <1>4
<1>6. BytesUpTo = CHOOSE h : Right(h)
  BY DEF BytesUpTo
<1>7. Right(BytesUpTo)
  BY <1>5, <1>6
<1> DEFINE b == BytesUpTo
<1>8. b = [i \in -1 .. Threads - 1 |-> IF i = -1 THEN 0 ELSE totalBytes[i] + b[i - 1]]
  BY <1>7
<1> HIDE DEF b
<1>9. b[-1] = 0 /\ \A i \in 0 .. Threads - 1 : b[i] = totalBytes[i] + b[i - 1]
  <2>1. \A i \in -1 .. Threads - 1 : b[i] = IF i = -1 THEN 0 ELSE totalBytes[i] + b[i - 1]
    BY <1>8, Zenon
  <2>2. -1 \in -1 .. Threads - 1 /\ \A i \in 0 .. Threads - 1 : i \in -1 .. Threads - 1 /\ i # -1
    BY <1>1
  <2> QED
    BY <2>1, <2>2
<1> DEFINE Bad == {n \in 0 .. Threads : b[n - 1] # s[n]}
<1>10. Bad = {}
  <2> SUFFICES ASSUME Bad # {}
               PROVE  FALSE
    OBVIOUS
  <2>0. Bad \subseteq Nat
    BY <1>1
  <2>1. PICK n \in Bad : \A m \in Bad : n <= m
    BY <2>0, LeastElement
  <2>2. n \in 0 .. Threads /\ b[n - 1] # s[n]
    BY <2>1
  <2>3. n # 0
    BY <2>2, <1>9, <1>3 DEF SumsTo
  <2>4. n \in 1 .. Threads /\ n - 1 \in 0 .. Threads - 1 /\ n - 1 \in 0 .. Threads
    BY <2>2, <2>3, <1>1
  <2>5. b[n - 1 - 1] = s[n - 1]
    BY <2>1, <2>4
  <2>6. b[n - 1] = totalBytes[n - 1] + s[n - 1]
    BY <2>4, <2>5, <1>9
  <2>7. s[n] = s[n - 1] + totalBytes[n - 1]
    BY <2>4, <1>3 DEF SumsTo, Counted
  <2>8. totalBytes[n - 1] \in Nat /\ s[n - 1] \in Nat
    BY <2>4, <1>1, <1>3 DEF SumsTo
  <2> QED
    BY <2>2, <2>6, <2>7, <2>8
<1>11. b[Threads - 1] = s[Threads]
  <2>1. Threads \in 0 .. Threads
    BY <1>1
  <2> QED
    BY <2>1, <1>10
<1> QED
  BY <1>2, <1>11 DEF b, s

\* The reader stops behind the last line.
LastLine == rpc \in {"setDone", "end"} => count = Len(lines)

\* A scanner that has not begun has scanned nothing.
NotBegun == \A i \in Scanners : spc[i] = "off" => scanned[i] = <<>>

\* While the main thread frees, every packet is freed or still on a free queue,
\* and the free queues behind it are empty.
AllKept ==
    mpc \in {"free", "returned"} =>
        \A k \in Packets : \/ \E m \in 1 .. Len(freed) : freed[m] = k
                           \/ \E i \in Scanners : \E m \in 1 .. Len(freeQueue[i]) : freeQueue[i][m] = k
Emptied ==
    /\ mpc = "free" => \A i \in Scanners : i < at => freeQueue[i] = <<>>
    /\ mpc = "returned" => \A i \in Scanners : freeQueue[i] = <<>>

\* A scanner counted the bytes of what it scanned, the reader those of what it dealt.
BytesCounted == \A i \in Scanners : totalBytes[i] = DealtBytes(i)[Len(scanned[i])]
BytesDealt   == size = Sums(DealtSoFar, Threads)[Threads]

AllInv == LastLine /\ NotBegun /\ AllKept /\ Emptied /\ BytesCounted /\ BytesDealt

\* Nothing is dealt before the first line.
LEMMA DealtNothing == \A i \in Scanners : Dealt(0, i) = 0
<1>1. Threads \in Nat \ {0} /\ Scanners = 0 .. Threads - 1
  BY ThreadsType
<1>2. TAKE i \in Scanners
<1>3. 0 + Threads - 1 - i = 0 * Threads + (Threads - 1 - i) /\ Threads - 1 - i \in 0 .. Threads - 1
  BY <1>1
<1> QED
  BY <1>3, <1>1, DivIs DEF Dealt

\* The bytes dealt are numbers.
LEMMA DealtSoFarType ==
    ASSUME lines \in Seq(Sizes), count \in 0 .. Len(lines)
    PROVE  /\ DealtSoFar \in [1 .. Threads -> Nat]
           /\ SumsTo(Sums(DealtSoFar, Threads), DealtSoFar, Threads)
<1>1. Threads \in Nat \ {0} /\ Scanners = 0 .. Threads - 1
  BY ThreadsType
<1>2. count \in Nat /\ Len(lines) \in Nat /\ count <= Len(lines)
  OBVIOUS
<1>3. ASSUME NEW i \in Scanners
      PROVE  DealtBytes(i)[Dealt(count, i)] \in Nat
  <2>1. Dealt(count, i) \in 0 .. Dealt(Len(lines), i)
    BY <1>2, DealtGrows
  <2> QED
    BY <2>1, DealtBytesAre
<1>4. DealtSoFar \in [1 .. Threads -> Nat]
  BY <1>1, <1>3 DEF DealtSoFar
<1> QED
  BY <1>1, <1>4, SumsExist

\* It holds when inspectDumpFile is called.
LEMMA InitAllInv == PPInit => AllInv
<1> SUFFICES ASSUME PPInit
             PROVE  AllInv
  OBVIOUS
<1>1. Threads \in Nat \ {0} /\ Scanners = 0 .. Threads - 1
  BY ThreadsType
<1>2. lines \in Seq(Sizes)
  BY PPAssumption DEF PPInit
<1>3. /\ count = 0 /\ size = 0 /\ totalBytes = [i \in Scanners |-> 0]
      /\ scanned = [i \in Scanners |-> <<>>]
  BY DEF PPInit
<1>4. \A i \in Scanners : DealtBytes(i)[0] = 0
  BY <1>2, DealtBytesAre DEF SumsTo
<1>5. BytesCounted
  BY <1>3, <1>4 DEF BytesCounted
<1>6. BytesDealt
  <2>1. \A n \in 1 .. Threads : DealtSoFar[n] = 0
    BY <1>1, <1>3, <1>4, DealtNothing DEF DealtSoFar
  <2>2. count \in 0 .. Len(lines)
    BY <1>2, <1>3
  <2>3. Sums(DealtSoFar, Threads)[Threads] = 0
    BY <2>1, <2>2, <1>1, <1>2, DealtSoFarType, SumOfZeros
  <2> QED
    BY <2>3, <1>3 DEF BytesDealt
<1>7. LastLine /\ NotBegun /\ AllKept /\ Emptied
  BY DEF PPInit, LastLine, NotBegun, AllKept, Emptied
<1> QED
  BY <1>5, <1>6, <1>7 DEF AllInv

\* The reader reads on until the last line is dealt.
LEMMA LastLineStep == IInv /\ AllInv /\ PPNext => LastLine'
<1> SUFFICES ASSUME IInv, AllInv, PPNext
             PROVE  LastLine'
  OBVIOUS
<1>1. LastLine
  BY DEF AllInv
<1>2. CASE inspectDumpFile
  <2>1. lines' = lines /\ count' = count /\ (rpc' = rpc \/ rpc' = "open")
    BY <1>2 DEF inspectDumpFile, Refuse, StartReader, JoinReader, StartScanner, JoinScanner,
                FreePacket, FreeScanner, argVars, readerVars
  <2> QED
    BY <2>1, <1>1 DEF LastLine
<1>3. CASE Reader
  BY <1>1, <1>3 DEF LastLine, Reader, Open, ReadLine, Enqueue, EndOfFile, SetDone, EndReader, argVars
<1>4. ASSUME NEW i \in Scanners, Scanner(i)
      PROVE  LastLine'
  BY <1>1, <1>4 DEF LastLine, Scanner, LookAtQueue, DeleteFirst, Match, PutFree, argVars, readerVars
<1>5. CASE Over /\ UNCHANGED ppVars
  BY <1>1, <1>5 DEF LastLine, ppVars, argVars, readerVars
<1> QED
  BY <1>2, <1>3, <1>4, <1>5 DEF PPNext

\* Nobody scans before being started.
LEMMA NotBegunStep == IInv /\ AllInv /\ PPNext => NotBegun'
<1> SUFFICES ASSUME IInv, AllInv, PPNext
             PROVE  NotBegun'
  OBVIOUS
<1>1. /\ NotBegun /\ scanned \in [Scanners -> Seq(Packets)]
      /\ spc \in [Scanners -> {"off", "dequeue", "delete", "match", "putFree", "end"}]
  BY DEF AllInv, IInv, Types, ScanTypes
<1>2. UNCHANGED <<spc, scanned>> => NotBegun'
  BY <1>1 DEF NotBegun
<1>3. CASE inspectDumpFile
  <2>1. CASE StartScanner
    BY <2>1, <1>1 DEF StartScanner, NotBegun
  <2> QED
    BY <2>1, <1>2, <1>3 DEF inspectDumpFile, Refuse, StartReader, JoinReader, JoinScanner,
                            FreePacket, FreeScanner, scanVars
<1>4. CASE Reader
  BY <1>2, <1>4 DEF Reader, Open, ReadLine, Enqueue, EndOfFile, SetDone, EndReader, scanVars
<1>5. ASSUME NEW i \in Scanners, Scanner(i)
      PROVE  NotBegun'
  <2>1. /\ spc'[i] # "off"
        /\ \A j \in Scanners : j # i => spc'[j] = spc[j] /\ scanned'[j] = scanned[j]
    BY <1>1, <1>5 DEF Scanner, LookAtQueue, DeleteFirst, Match, PutFree
  <2> QED
    BY <2>1, <1>1 DEF NotBegun
<1>6. CASE Over /\ UNCHANGED ppVars
  BY <1>2, <1>6 DEF ppVars, scanVars
<1> QED
  BY <1>3, <1>4, <1>5, <1>6 DEF PPNext

\* The main thread goes on to the next free queue when this one is empty.
LEMMA EmptiedStep == IInv /\ AllInv /\ PPNext => Emptied'
<1> SUFFICES ASSUME IInv, AllInv, PPNext
             PROVE  Emptied'
  OBVIOUS
<1>1. /\ Emptied /\ Phases /\ at \in Scanners /\ freeQueue \in [Scanners -> Seq(Packets)]
  BY DEF AllInv, IInv, Types, MainTypes, ListTypes
<1>2. Threads \in Nat \ {0} /\ Scanners = 0 .. Threads - 1
  BY ThreadsType
<1>3. UNCHANGED <<mpc, at, freeQueue>> => Emptied'
  BY <1>1 DEF Emptied
<1>4. CASE Refuse \/ StartReader \/ JoinReader \/ StartScanner
  BY <1>4 DEF Emptied, Refuse, StartReader, JoinReader, StartScanner
<1>5. CASE JoinScanner
  BY <1>2, <1>5 DEF Emptied, JoinScanner
<1>6. CASE FreePacket
  BY <1>1, <1>2, <1>6 DEF Emptied, FreePacket
<1>7. CASE FreeScanner
  <2>1. /\ mpc = "free" /\ freeQueue[at] = <<>> /\ freeQueue' = freeQueue
        /\ \/ at + 1 = Threads /\ mpc' = "returned" /\ at' = 0
           \/ at + 1 # Threads /\ mpc' = mpc /\ at' = at + 1
    BY <1>7 DEF FreeScanner, listVars
  <2>2. \A i \in Scanners : i <= at => freeQueue[i] = <<>>
    BY <2>1, <1>1, <1>2 DEF Emptied
  <2>3. CASE at + 1 = Threads
    BY <2>1, <2>2, <2>3, <1>1, <1>2 DEF Emptied
  <2>4. CASE at + 1 # Threads
    BY <2>1, <2>2, <2>4, <1>1, <1>2 DEF Emptied
  <2> QED
    BY <2>3, <2>4
<1>8. CASE Reader
  <2>1. mpc \notin {"free", "returned"} /\ (mpc' = mpc \/ mpc' = "exited")
    BY <1>1, <1>8 DEF Phases, Reader, Open, ReadLine, Enqueue, EndOfFile, SetDone, EndReader, mainVars
  <2> QED
    BY <2>1 DEF Emptied
<1>9. ASSUME NEW i \in Scanners, Scanner(i)
      PROVE  Emptied'
  <2>1. mpc' = mpc /\ spc[i] # "end"
    BY <1>9 DEF Scanner, LookAtQueue, DeleteFirst, Match, PutFree, mainVars
  <2>2. mpc \notin {"free", "returned"}
    BY <2>1, <1>1 DEF Phases
  <2> QED
    BY <2>1, <2>2 DEF Emptied
<1>10. CASE Over /\ UNCHANGED ppVars
  BY <1>3, <1>10 DEF ppVars, mainVars, listVars
<1> QED
  BY <1>4, <1>5, <1>6, <1>7, <1>8, <1>9, <1>10 DEF PPNext, inspectDumpFile

\* Behind the end of the file every packet is dealt to a queue.
LEMMA PacketIsDealt ==
    ASSUME IInv, count = Len(lines), NEW k \in Packets
    PROVE  \E i \in Scanners : \E m \in 1 .. Len(DealtTo(i)) : DealtTo(i)[m] = k
<1>1. Threads \in Nat \ {0} /\ Scanners = 0 .. Threads - 1
  BY ThreadsType
<1>2. Len(lines) \in Nat /\ k \in 1 .. Len(lines) /\ k - 1 \in Nat
  BY DEF IInv, Types, MainTypes, Packets
<1> DEFINE i == (k - 1) % Threads
           m == Dealt(k, i)
<1>3. i \in Scanners
  BY <1>2, QueueNext
<1>4. /\ Dealt(k - 1, i) \in Nat
      /\ Dealt((k - 1) + 1, i) = Dealt(k - 1, i) + 1
      /\ Dealt(k - 1, i) * Threads + i + 1 = (k - 1) + 1
  BY <1>2, <1>3, DealtNext
<1>5. (k - 1) + 1 = k
  BY <1>2
<1>6. m - 1 = Dealt(k - 1, i) /\ m \in Nat \ {0}
  BY <1>4, <1>5
<1>7. m <= Dealt(Len(lines), i) /\ Dealt(Len(lines), i) \in Nat
  BY <1>2, <1>3, DealtGrows
<1> HIDE DEF m, i
<1>8. DealtTo(i) = [n \in 1 .. Dealt(Len(lines), i) |-> (n - 1) * Threads + i + 1]
  BY DEF DealtTo, Dealt
<1>9. DealtTo(i) \in Seq(Int) /\ Len(DealtTo(i)) = Dealt(Len(lines), i)
  BY <1>1, <1>3, <1>7, <1>8
<1>10. m \in 1 .. Len(DealtTo(i))
  BY <1>6, <1>7, <1>9
<1>11. DealtTo(i)[m] = k
  BY <1>4, <1>5, <1>6, <1>8, <1>9, <1>10
<1> QED
  BY <1>3, <1>10, <1>11

\* What a scanner that has ended scanned is what was dealt to it.
LEMMA AllScanned ==
    ASSUME IInv, NEW i \in Scanners, spc[i] = "end"
    PROVE  scanned[i] = DealtTo(i)
<1>1. queue[i] = <<>> /\ InHand(i) = <<>>
  BY DEF IInv, GivesUpOnlyWhenDone, InHand
<1>2. scanned[i] \o <<>> \o <<>> = DealtTo(i)
  BY <1>1 DEF IInv, ScannedInOrder
<1>3. scanned[i] \in Seq(Packets)
  BY DEF IInv, Types, ScanTypes
<1> QED
  BY <1>2, <1>3

\* The main thread loses no packet.
LEMMA AllKeptStep == IInv /\ AllInv /\ PPNext => AllKept'
<1> SUFFICES ASSUME IInv, AllInv, PPNext, mpc' \in {"free", "returned"}
             PROVE  AllKept'
  BY DEF AllKept
<1>1. /\ AllKept /\ Phases /\ Kept /\ LastLine /\ at \in Scanners
      /\ freeQueue \in [Scanners -> Seq(Packets)] /\ freed \in Seq(Packets)
      /\ mpc \in {"init", "joinReader", "startScanners", "joinScanners", "free", "returned", "exited"}
  BY DEF AllInv, IInv, Types, MainTypes, ListTypes
<1>2. mpc \in {"free", "returned"} /\ UNCHANGED <<lines, freed, freeQueue>> => AllKept'
  BY <1>1 DEF AllKept, Packets
<1>3. CASE Refuse \/ StartReader \/ JoinReader \/ StartScanner
  BY <1>3 DEF Refuse, StartReader, JoinReader, StartScanner
<1>4. CASE JoinScanner
  <2>1. /\ mpc = "joinScanners" /\ at + 1 = Threads /\ spc[at] = "end"
        /\ UNCHANGED <<lines, freed, freeQueue>>
    BY <1>4 DEF JoinScanner, listVars, argVars
  <2>2. \A i \in Scanners : spc[i] = "end"
    BY <2>1, <1>1, PPAssumption DEF Phases, Scanners
  <2>3. rpc = "end" /\ count = Len(lines)
    BY <2>1, <1>1 DEF Phases, LastLine
  <2>4. ASSUME NEW i \in Scanners
        PROVE  freeQueue[i] = DealtTo(i)
    <3>1. scanned[i] = freeQueue[i] \o <<>>
      BY <2>1, <2>2, <1>1 DEF Kept, ToFree
    <3> QED
      BY <3>1, <2>2, <1>1, AllScanned
  <2>5. \A k \in Packets : \E i \in Scanners : \E m \in 1 .. Len(freeQueue[i]) : freeQueue[i][m] = k
    BY <2>3, <2>4, PacketIsDealt
  <2> QED
    BY <2>1, <2>5 DEF AllKept, Packets
<1>5. CASE FreePacket
  <2>1. /\ mpc = "free" /\ freeQueue[at] # <<>> /\ freeQueue[at] \in Seq(Packets)
        /\ freed' = Append(freed, Head(freeQueue[at])) /\ lines' = lines
        /\ freeQueue' = [freeQueue EXCEPT ![at] = Tail(@)]
    BY <1>1, <1>5 DEF FreePacket, argVars
  <2> DEFINE f == freeQueue[at]
  <2>2. /\ Head(f) = f[1] /\ Len(f) \in Nat /\ Len(Tail(f)) = Len(f) - 1
        /\ \A m \in 1 .. Len(f) : m # 1 => m - 1 \in 1 .. Len(Tail(f)) /\ Tail(f)[m - 1] = f[m]
    BY <2>1
  <2>3. /\ Len(freed') = Len(freed) + 1 /\ Len(freed) \in Nat
        /\ \A m \in 1 .. Len(freed) : freed'[m] = freed[m]
        /\ freed'[Len(freed) + 1] = f[1]
    BY <2>1, <2>2, <1>1
  <2>4. freeQueue'[at] = Tail(f) /\ \A i \in Scanners : i # at => freeQueue'[i] = freeQueue[i]
    BY <2>1, <1>1
  <2> HIDE DEF f
  <2>5. ASSUME NEW k \in Packets
        PROVE  \/ \E m \in 1 .. Len(freed') : freed'[m] = k
               \/ \E i \in Scanners : \E m \in 1 .. Len(freeQueue'[i]) : freeQueue'[i][m] = k
    <3>1. CASE \E m \in 1 .. Len(freed) : freed[m] = k
      <4>1. PICK m \in 1 .. Len(freed) : freed[m] = k
        BY <3>1
      <4>2. m \in 1 .. Len(freed') /\ freed'[m] = k
        BY <4>1, <2>3
      <4> QED
        BY <4>2
    <3>2. CASE \E i \in Scanners : \E m \in 1 .. Len(freeQueue[i]) : freeQueue[i][m] = k
      <4>1. PICK i \in Scanners : \E m \in 1 .. Len(freeQueue[i]) : freeQueue[i][m] = k
        BY <3>2
      <4>2. PICK m \in 1 .. Len(freeQueue[i]) : freeQueue[i][m] = k
        BY <4>1
      <4>3. CASE i # at
        BY <4>2, <4>3, <2>4
      <4>4. CASE i = at /\ m = 1
        <5>1. Len(freed) + 1 \in 1 .. Len(freed') /\ freed'[Len(freed) + 1] = k
          BY <4>2, <4>4, <2>3 DEF f
        <5> QED
          BY <5>1
      <4>5. CASE i = at /\ m # 1
        <5>1. m \in 1 .. Len(f) /\ f[m] = k
          BY <4>2, <4>5 DEF f
        <5>2. m - 1 \in 1 .. Len(freeQueue'[at]) /\ freeQueue'[at][m - 1] = k
          BY <5>1, <4>5, <2>2, <2>4
        <5> QED
          BY <5>2, <1>1
      <4> QED
        BY <4>3, <4>4, <4>5
    <3> QED
      BY <3>1, <3>2, <2>1, <1>1 DEF AllKept
  <2> QED
    BY <2>1, <2>5 DEF AllKept, Packets
<1>6. CASE FreeScanner
  BY <1>2, <1>6 DEF FreeScanner, listVars, argVars
<1>7. CASE Reader
  <2>1. mpc \notin {"free", "returned"} /\ (mpc' = mpc \/ mpc' = "exited")
    BY <1>1, <1>7 DEF Phases, Reader, Open, ReadLine, Enqueue, EndOfFile, SetDone, EndReader, mainVars
  <2> QED
    BY <2>1
<1>8. ASSUME NEW i \in Scanners, Scanner(i)
      PROVE  AllKept'
  <2>1. mpc' = mpc /\ spc[i] # "end"
    BY <1>8 DEF Scanner, LookAtQueue, DeleteFirst, Match, PutFree, mainVars
  <2> QED
    BY <2>1, <1>1 DEF Phases
<1>9. CASE Over /\ UNCHANGED ppVars
  BY <1>2, <1>9 DEF ppVars, argVars, mainVars, listVars
<1> QED
  BY <1>3, <1>4, <1>5, <1>6, <1>7, <1>8, <1>9 DEF PPNext, inspectDumpFile

\* A scanner adds the bytes of each packet it scans.
LEMMA BytesCountedStep == IInv /\ AllInv /\ PPNext => BytesCounted'
<1> SUFFICES ASSUME IInv, AllInv, PPNext
             PROVE  BytesCounted'
  OBVIOUS
<1>1. /\ BytesCounted /\ NotBegun /\ Phases /\ Types /\ Holding /\ ScannedInOrder
      /\ at \in Scanners /\ lines \in Seq(Sizes) /\ count \in 0 .. Len(lines)
      /\ scanned \in [Scanners -> Seq(Packets)] /\ totalBytes \in [Scanners -> Nat]
  BY DEF AllInv, IInv, Types, MainTypes, ReaderTypes, ScanTypes
<1>2. lines' = lines => \A i, n : DealtBytes(i)'[n] = DealtBytes(i)[n]
  BY DEF DealtBytes, DealtLengths, Dealt, Length, Packets
<1>3. UNCHANGED <<lines, scanned, totalBytes>> => BytesCounted'
  BY <1>1, <1>2 DEF BytesCounted
<1>4. CASE inspectDumpFile
  <2>1. CASE StartScanner
    <3>1. /\ UNCHANGED <<lines, scanned>> /\ mpc = "startScanners"
          /\ totalBytes' = [totalBytes EXCEPT ![at] = 0]
      BY <2>1 DEF StartScanner, argVars
    <3>2. at \in Int
      BY <1>1, ThreadsType
    <3>3. spc[at] = "off" /\ scanned[at] = <<>>
      BY <3>1, <3>2, <1>1 DEF Phases, NotBegun
    <3>4. DealtBytes(at)[0] = 0
      BY <1>1, DealtBytesAre DEF SumsTo
    <3>5. \A i \in Scanners : totalBytes'[i] = DealtBytes(i)[Len(scanned[i])]
      BY <3>1, <3>3, <3>4, <1>1 DEF BytesCounted
    <3> QED
      BY <3>1, <3>5, <1>2 DEF BytesCounted
  <2> QED
    BY <2>1, <1>3, <1>4 DEF inspectDumpFile, Refuse, StartReader, JoinReader, JoinScanner,
                            FreePacket, FreeScanner, scanVars, argVars
<1>5. CASE Reader
  BY <1>3, <1>5 DEF Reader, Open, ReadLine, Enqueue, EndOfFile, SetDone, EndReader, scanVars, argVars
<1>6. ASSUME NEW i \in Scanners, Scanner(i)
      PROVE  BytesCounted'
  <2>1. CASE Match(i)
    <3>1. /\ lines' = lines /\ spc[i] = "match"
          /\ scanned' = [scanned EXCEPT ![i] = Append(@, packet[i])]
          /\ totalBytes' = [totalBytes EXCEPT ![i] = @ + lines[packet[i]]]
      BY <2>1 DEF Match, argVars
    <3> DEFINE n == Len(scanned[i])
    <3>2. /\ packet[i] \in Packets /\ scanned[i] \in Seq(Packets) /\ queue[i] \in Seq(Packets)
          /\ InHand(i) = <<packet[i]>> /\ n \in Nat
      BY <3>1, <1>1, HandType DEF Holding, InHand
    <3>3. (scanned[i] \o <<packet[i]>>) \o queue[i] = DealtTo(i)
      BY <3>2, <1>1 DEF ScannedInOrder
    <3>4. n + 1 \in 1 .. Len(DealtTo(i)) /\ DealtTo(i)[n + 1] = packet[i]
      <4>1. /\ Len((scanned[i] \o <<packet[i]>>) \o queue[i]) = n + 1 + Len(queue[i])
            /\ ((scanned[i] \o <<packet[i]>>) \o queue[i])[n + 1] = packet[i]
            /\ Len(queue[i]) \in Nat
        BY <3>2
      <4> DEFINE x == (scanned[i] \o <<packet[i]>>) \o queue[i]
                 l == Len(queue[i])
      <4>2. Len(x) = n + 1 + l /\ x[n + 1] = packet[i] /\ x = DealtTo(i) /\ l \in Nat /\ n \in Nat
        BY <4>1, <3>2, <3>3
      <4> HIDE DEF x, l, n
      <4>3. n + 1 \in 1 .. Len(x)
        BY <4>2
      <4> QED
        BY <4>2, <4>3
    <3>5. count \in Nat /\ Len(lines) \in Nat /\ count <= Len(lines)
      BY <1>1
    <3>6. /\ Dealt(count, i) \in Nat /\ Dealt(Len(lines), i) \in Nat
          /\ Dealt(count, i) <= Dealt(Len(lines), i)
      BY <3>5, DealtGrows
    <3>7. DealtTo(i) = [m \in 1 .. Dealt(count, i) |-> (m - 1) * Threads + i + 1]
      BY DEF DealtTo, Dealt
    <3>8. Len(DealtTo(i)) = Dealt(count, i)
      BY <3>6, <3>7
    <3> HIDE DEF n
    <3>9. n + 1 <= Dealt(count, i) /\ packet[i] = n * Threads + i + 1
      <4>1. n + 1 \in 1 .. Dealt(count, i) /\ (n + 1) - 1 = n
        BY <3>2, <3>4, <3>8
      <4> QED
        BY <4>1, <3>4, <3>7
    <3>10. DealtBytes(i)[n + 1] = DealtBytes(i)[n] + lines[packet[i]]
      <4>1. n < Dealt(Len(lines), i) /\ n * Threads + i + 1 \in Packets
        BY <3>2, <3>6, <3>9
      <4> QED
        BY <4>1, <3>2, <3>9, <1>1, DealtBytesNext
    <3>11. Len(scanned'[i]) = n + 1 /\ totalBytes'[i] = totalBytes[i] + lines[packet[i]]
      BY <3>1, <3>2, <1>1 DEF n
    <3>12. totalBytes[i] = DealtBytes(i)[n]
      BY <1>1 DEF BytesCounted, n
    <3>13. \A j \in Scanners : j # i => scanned'[j] = scanned[j] /\ totalBytes'[j] = totalBytes[j]
      BY <3>1, <1>1
    <3>14. \A j \in Scanners : totalBytes'[j] = DealtBytes(j)[Len(scanned'[j])]
      BY <3>10, <3>11, <3>12, <3>13, <1>1 DEF BytesCounted
    <3> QED
      BY <3>1, <3>14, <1>2 DEF BytesCounted
  <2> QED
    BY <2>1, <1>3, <1>6 DEF Scanner, LookAtQueue, DeleteFirst, PutFree, argVars
<1>7. CASE Over /\ UNCHANGED ppVars
  BY <1>3, <1>7 DEF ppVars, scanVars, argVars
<1> QED
  BY <1>4, <1>5, <1>6, <1>7 DEF PPNext

\* The reader adds the bytes of each line it deals.
LEMMA BytesDealtStep == IInv /\ AllInv /\ PPNext => BytesDealt'
<1> SUFFICES ASSUME IInv, AllInv, PPNext
             PROVE  BytesDealt'
  OBVIOUS
<1>1. /\ BytesDealt /\ lines \in Seq(Sizes) /\ count \in 0 .. Len(lines) /\ size \in Nat
  BY DEF AllInv, IInv, Types, MainTypes, ReaderTypes
<1>2. lines' = lines => \A i, n : DealtBytes(i)'[n] = DealtBytes(i)[n]
  BY DEF DealtBytes, DealtLengths, Dealt, Length, Packets
<1>3. UNCHANGED <<lines, count, size>> => BytesDealt'
  <2>1. UNCHANGED <<lines, count>> => DealtSoFar' = DealtSoFar
    BY DEF DealtSoFar, DealtBytes, DealtLengths, Dealt, Length, Packets
  <2> QED
    BY <2>1, <1>1 DEF BytesDealt
<1>4. CASE inspectDumpFile
  BY <1>3, <1>4 DEF inspectDumpFile, Refuse, StartReader, JoinReader, StartScanner, JoinScanner,
                    FreePacket, FreeScanner, readerVars, argVars
<1>5. CASE Enqueue
  <2>1. /\ lines' = lines /\ count' = count + 1 /\ size' = size + lines[count + 1]
        /\ count < Len(lines) /\ q \in Scanners /\ q = count % Threads
    BY <1>5 DEF Enqueue, argVars, IInv, Types, ReaderTypes, LinesLeft, AtQueue
  <2>2. /\ Threads \in Nat \ {0} /\ Scanners = 0 .. Threads - 1 /\ count \in Nat
        /\ count' \in 0 .. Len(lines) /\ count + 1 \in Packets /\ Len(lines) \in Nat
    BY <2>1, <1>1, ThreadsType DEF Packets
  <2>3. lines[count + 1] \in Nat
    BY <2>2, <1>1, LineType
  <2> DEFINE f == DealtSoFar
             g == [n \in 1 .. Threads |-> DealtBytes(n - 1)[Dealt(count + 1, n - 1)]]
  <2>4. DealtSoFar' = g
    BY <2>1, <1>2 DEF DealtSoFar, Dealt
  <2>5. f \in [1 .. Threads -> Nat] /\ SumsTo(Sums(f, Threads), f, Threads)
    BY <1>1, DealtSoFarType
  <2>6. g \in [1 .. Threads -> Nat]
    <3>1. ASSUME NEW i \in Scanners
          PROVE  DealtBytes(i)[Dealt(count + 1, i)] \in Nat
      <4>1. count + 1 \in Nat /\ count + 1 <= Len(lines)
        BY <2>1, <2>2
      <4>2. /\ Dealt(count + 1, i) \in Nat /\ Dealt(Len(lines), i) \in Nat
            /\ Dealt(count + 1, i) <= Dealt(Len(lines), i)
        BY <4>1, <2>2, DealtGrows
      <4>3. Dealt(count + 1, i) \in 0 .. Dealt(Len(lines), i)
        BY <4>2
      <4> QED
        BY <4>3, <1>1, DealtBytesAre
    <3> QED
      BY <3>1, <2>2
  <2>7. SumsTo(Sums(g, Threads), g, Threads)
    BY <2>2, <2>6, SumsExist
  <2>8. g[q + 1] = f[q + 1] + lines[count + 1]
    <3>1. /\ Dealt(count + 1, q) = Dealt(count, q) + 1 /\ Dealt(count, q) \in Nat
          /\ Dealt(count, q) * Threads + q + 1 = count + 1
      BY <2>1, <2>2, DealtNext
    <3>2. Dealt(count, q) < Dealt(Len(lines), q)
      <4>1. Dealt(count + 1, q) <= Dealt(Len(lines), q) /\ Dealt(Len(lines), q) \in Nat
        BY <2>1, <2>2, DealtGrows
      <4> QED
        BY <3>1, <4>1
    <3>3. DealtBytes(q)[Dealt(count, q) + 1] = DealtBytes(q)[Dealt(count, q)] + lines[count + 1]
      BY <3>1, <3>2, <2>1, <2>2, <1>1, DealtBytesNext
    <3>4. q + 1 \in 1 .. Threads /\ (q + 1) - 1 = q
      BY <2>1, <2>2
    <3> QED
      BY <3>1, <3>3, <3>4 DEF DealtSoFar
  <2>9. ASSUME NEW n \in 1 .. Threads, n # q + 1
        PROVE  g[n] = f[n]
    <3>1. n - 1 \in Scanners /\ n - 1 # q
      BY <2>1, <2>2, <2>9
    <3>2. Dealt(count + 1, n - 1) = Dealt(count, n - 1)
      BY <3>1, <2>1, <2>2, DealtNext
    <3> QED
      BY <3>2 DEF DealtSoFar
  <2> HIDE DEF f, g
  <2> DEFINE p == q + 1
             d == lines[count + 1]
             s == Sums(f, Threads)
             t == Sums(g, Threads)
  <2>10. p \in 1 .. Threads /\ Threads \in Nat
    BY <2>1, <2>2
  <2>11. d \in Nat /\ g[p] = f[p] + d /\ \A n \in 1 .. Threads : n # p => g[n] = f[n]
    BY <2>3, <2>8, <2>9
  <2>12. SumsTo(s, f, Threads) /\ SumsTo(t, g, Threads)
    BY <2>5, <2>7
  <2> HIDE DEF p, d, s, t
  <2>13. t[Threads] = s[Threads] + d
    <3>1. f \in [1 .. Threads -> Nat] /\ g \in [1 .. Threads -> Nat]
      BY <2>5, <2>6
    <3>2. \A a, b : SumsTo(a, f, Threads) /\ SumsTo(b, g, Threads) => b[Threads] = a[Threads] + d
      BY <3>1, <2>10, <2>11, SumGrows
    <3> QED
      BY <3>2, <2>12
  <2> QED
    BY <2>1, <2>4, <2>13, <1>1 DEF BytesDealt, f, d, s, t
<1>6. CASE Reader /\ ~ Enqueue
  BY <1>3, <1>6 DEF Reader, Open, ReadLine, EndOfFile, SetDone, EndReader, argVars
<1>7. ASSUME NEW i \in Scanners, Scanner(i)
      PROVE  BytesDealt'
  BY <1>3, <1>7 DEF Scanner, LookAtQueue, DeleteFirst, Match, PutFree, readerVars, argVars
<1>8. CASE Over /\ UNCHANGED ppVars
  BY <1>3, <1>8 DEF ppVars, readerVars, argVars
<1> QED
  BY <1>4, <1>5, <1>6, <1>7, <1>8 DEF PPNext, Reader

\* Every step keeps it.
LEMMA StepAllInv == IInv /\ AllInv /\ [PPNext]_ppVars => AllInv'
<1>1. IInv /\ AllInv /\ PPNext => AllInv'
  BY LastLineStep, NotBegunStep, AllKeptStep, EmptiedStep, BytesCountedStep, BytesDealtStep DEF AllInv
<1>2. AllInv /\ UNCHANGED ppVars => AllInv'
  <2> SUFFICES ASSUME AllInv, UNCHANGED ppVars
               PROVE  AllInv'
    OBVIOUS
  <2>1. /\ UNCHANGED <<lines, mpc, at, freed>> /\ UNCHANGED <<rpc, count, size>>
        /\ UNCHANGED <<spc, scanned, totalBytes>> /\ UNCHANGED freeQueue
    BY DEF ppVars, argVars, mainVars, readerVars, scanVars, listVars
  <2>2. LastLine' /\ NotBegun' /\ AllKept' /\ Emptied'
    BY <2>1 DEF AllInv, LastLine, NotBegun, AllKept, Emptied, Packets
  <2>3. /\ \A i, n : DealtBytes(i)'[n] = DealtBytes(i)[n]
        /\ DealtSoFar' = DealtSoFar
    BY <2>1 DEF DealtSoFar, DealtBytes, DealtLengths, Dealt, Length, Packets
  <2>4. BytesCounted' /\ BytesDealt'
    BY <2>1, <2>3 DEF AllInv, BytesCounted, BytesDealt
  <2> QED
    BY <2>2, <2>4 DEF AllInv
<1> QED
  BY <1>1, <1>2

\* When inspectDumpFile returns every line of the file was scanned and freed
\* once, and the bytes the scanners counted add up to those the reader counted,
\* for any number of threads and any file.
THEOREM AllPacketsOnce == PPSpec => []EveryPacketOnce
<1>1. IInv /\ AllInv => EveryPacketOnce
  <2> SUFFICES ASSUME IInv, AllInv, mpc = "returned"
               PROVE  /\ \A k \in Packets :
                            \E i \in Scanners : \E m \in 1 .. Len(scanned[i]) : scanned[i][m] = k
                      /\ \A k \in Packets : \E m \in 1 .. Len(freed) : freed[m] = k
                      /\ Len(freed) = Len(lines)
                      /\ BytesUpTo[Threads - 1] = size
    BY DEF EveryPacketOnce
  <2>1. /\ freed \in Seq(Packets) /\ lines \in Seq(Sizes) /\ totalBytes \in [Scanners -> Nat]
        /\ Len(freed) \in Nat /\ Len(lines) \in Nat
    BY DEF IInv, Types, MainTypes, ScanTypes
  <2>2. rpc = "end" /\ count = Len(lines) /\ \A i \in Scanners : spc[i] = "end"
    BY DEF IInv, Phases, AllInv, LastLine
  <2>3. \A i \in Scanners : scanned[i] = DealtTo(i)
    BY <2>2, AllScanned
  <2>4. \A k \in Packets : \E i \in Scanners : \E m \in 1 .. Len(scanned[i]) : scanned[i][m] = k
    BY <2>2, <2>3, PacketIsDealt
  <2>5. \A k \in Packets : \E m \in 1 .. Len(freed) : freed[m] = k
    <3>1. \A i \in Scanners : 1 .. Len(freeQueue[i]) = {}
      BY DEF AllInv, Emptied
    <3> QED
      BY <3>1 DEF AllInv, AllKept
  <2>6. Len(freed) = Len(lines)
    <3>0. \A n \in Nat : IsFiniteSet(1 .. n) /\ Cardinality(1 .. n) = n
      <4>1. TAKE n \in Nat
      <4>2. IsFiniteSet(1 .. n) /\ Cardinality(1 .. n) = IF 1 > n THEN 0 ELSE n - 1 + 1
        BY FS_Interval
      <4> QED
        BY <4>2
    <3>1. freed \in [1 .. Len(freed) -> Packets] /\ \A m, k \in 1 .. Len(freed) : freed[m] = freed[k] => m = k
      BY <2>1 DEF IInv, FreedOnce
    <3>2. freed \in Bijection(1 .. Len(freed), Packets)
      BY <3>1, <2>5 DEF Bijection, Injection, Surjection, IsInjective
    <3>3. IsFiniteSet(1 .. Len(freed)) /\ Cardinality(1 .. Len(freed)) = Len(freed)
      BY <2>1, <3>0
    <3>4. Cardinality(Packets) = Cardinality(1 .. Len(freed))
      BY <3>2, <3>3, FS_Bijection DEF ExistsBijection
    <3>5. Cardinality(1 .. Len(lines)) = Len(lines)
      BY <2>1, <3>0
    <3> QED
      BY <3>3, <3>4, <3>5 DEF Packets
  <2>7. BytesUpTo[Threads - 1] = size
    <3>1. Threads \in Nat \ {0} /\ Scanners = 0 .. Threads - 1
      BY ThreadsType
    <3>2. ASSUME NEW i \in Scanners
          PROVE  totalBytes[i] = DealtBytes(i)[Dealt(count, i)]
      <4>1. Dealt(count, i) \in Nat
        BY <2>1, <2>2, DealtNext
      <4>2. DealtTo(i) = [m \in 1 .. Dealt(count, i) |-> (m - 1) * Threads + i + 1]
        BY DEF DealtTo, Dealt
      <4>3. Len(DealtTo(i)) = Dealt(count, i)
        BY <4>1, <4>2
      <4> QED
        BY <4>3, <2>3 DEF AllInv, BytesCounted
    <3>3. Counted = DealtSoFar
      BY <3>1, <3>2 DEF Counted, DealtSoFar
    <3> QED
      BY <3>3, <2>1, BytesUpToIs DEF AllInv, BytesDealt
  <2> QED
    BY <2>4, <2>5, <2>6, <2>7
<1> QED
  BY <1>1, InitIInv, InitAllInv, StepIInv, StepAllInv, PTL DEF PPSpec
=============================================================================
