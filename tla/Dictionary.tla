----------------------------- MODULE Dictionary ------------------------------
(***************************************************************************)
(* The dictionary of words a scan may jump over: dictionaryreader_read      *)
(* (DictionaryReader.c), a line per step; dictionary_add_all_autosize      *)
(* (Dictionary.c), an entry per step; the look-up DICTIONARY_GET           *)
(* (Dictionary.h) with the Bloom filter before it (bloom.c, bloom.h) and   *)
(* dictionary_destroy.                                                     *)
(*                                                                         *)
(* The hash table is open: a word goes to the slot of its hash or, where   *)
(* that is taken, 1, 4, 16, ... slots further.  Insertion and look-up bound *)
(* that probe differently.                                                 *)
(***************************************************************************)
EXTENDS Integers, Sequences, FiniteSets

CONSTANTS
    Char,        \* the characters of a word; 0 is the end of a C string
    Width,       \* dict->width, the length of every word (16 in the code)
    Files,       \* the dictionary files, sequences of decoded lines
    Hashers,     \* the hash functions: records of two functions on words
    BloomSize,   \* bloom->asize, in bits (BLOOM_SIZE)
    MaxEntries,  \* MAX_ENTRIES of DictionaryReader.c
    MaxTable     \* the size up to which a table may always grow (1048576)

Word  == [1 .. Width -> Char]
Entry == [word : Word, scanned : Word]

ASSUME DictionaryAssumption ==
    /\ 0 \in Char
    /\ Width \in Nat \ {0}
    /\ Files \subseteq Seq(Word)
    /\ Hashers \subseteq [one : [Word -> Nat], two : [Word -> Nat]]
    /\ BloomSize \in Nat \ {0}
    /\ MaxEntries \in Nat \ {0}
    /\ MaxTable \in Nat

\* Twice the largest size is below the last value of probe, 4^13: with the
\* limits of the code it is 20 * 1048576.
ASSUME ProbeAssumption == 20 * MaxEntries < 67108864 /\ 2 * MaxTable < 67108864

VARIABLES
    dpc,       \* the phase: "read", "insert", "ready", "destroyed", "exit"
    lines,     \* the lines of the file not read yet
    entries,   \* the entries read
    hasher,    \* the hash functions
    size,      \* the size of the table
    table,     \* for every slot, the entry in it or NoEntry
    at,        \* entries put into the table
    bloom      \* the bits set in the Bloom filter

dictVars == <<dpc, lines, entries, hasher, size, table, at, bloom>>

NoEntry == 0      \* NULL

DictInit ==
    /\ dpc = "read"
    /\ lines \in Files
    /\ entries = <<>>
    /\ hasher \in Hashers
    /\ size = 0 /\ table = <<>> /\ at = 0
    /\ bloom = {}

\* The values of probe: 1, then two bits further each time.  The last one is
\* beyond twice the largest size, which is ten times MAX_ENTRIES.
Powers == {1, 4, 16, 64, 256, 1024, 4096, 16384, 65536, 262144, 1048576,
           4194304, 16777216, 67108864}

Slots      == 0 .. size - 1
Home(w)    == hasher.one[w] % size
Slot(w, p) == (hasher.one[w] + p) % size

Free(s)     == table[s] = NoEntry
Holds(s, w) == ~ Free(s) /\ entries[table[s]].word = w
Other(s, w) == ~ Free(s) /\ entries[table[s]].word # w

-----------------------------------------------------------------------------
(* dictionaryreader_read.                                                  *)

\* strncpy stops at the first 0 of the word and pads with zeros.
Kept(w) == [i \in 1 .. Width |-> IF \E j \in 1 .. i : w[j] = 0 THEN 0 ELSE w[i]]

\* A line becomes an entry.  Its state is the one the machine reaches on the
\* whole word, its word is what strncpy kept.
ReadLine ==
    /\ dpc = "read" /\ lines # <<>> /\ Len(entries) < MaxEntries
    /\ entries' = Append(entries, [word |-> Kept(Head(lines)), scanned |-> Head(lines)])
    /\ lines' = Tail(lines)
    /\ UNCHANGED <<dpc, hasher, size, table, at, bloom>>

EmptyTable_FromOne(n) == [s \in 1 .. n |-> NoEntry]     \* mutant: slots from 1
EmptyTable(n) == [s \in 0 .. n - 1 |-> NoEntry]

\* The file or the room for entries is at its end.
StartInsert ==
    /\ dpc = "read" /\ (lines = <<>> \/ Len(entries) = MaxEntries)
    /\ size' = 2 * Len(entries)
    /\ table' = EmptyTable(2 * Len(entries))
    /\ at' = 0
    /\ dpc' = "insert"
    /\ UNCHANGED <<lines, entries, hasher, bloom>>

-----------------------------------------------------------------------------
(* dictionary_add_all_autosize.                                            *)

Word0 == entries[at + 1].word      \* the word to insert

Store(s) ==
    /\ table' = [table EXCEPT ![s] = at + 1]
    /\ at' = at + 1
    /\ UNCHANGED <<dpc, lines, entries, hasher, size, bloom>>

InsertHome ==
    /\ dpc = "insert" /\ at < Len(entries)
    /\ Free(Home(Word0))
    /\ Store(Home(Word0))

\* The loop over probe ends at p: the first value whose slot is free or which
\* is larger than the table.
ProbeEndsAfterHole(w, p) ==        \* mutant: goes on past a free slot
    /\ Free(Slot(w, p)) \/ p > size
    /\ \A q \in Powers : q < p => q <= size
ProbeEnds(w, p) ==
    /\ Free(Slot(w, p)) \/ p > size
    /\ \A q \in Powers : q < p => ~ Free(Slot(w, q)) /\ q <= size

\* The slot may be free also where probe is larger than the table.
InsertProbed ==
    \E p \in Powers :
        /\ dpc = "insert" /\ at < Len(entries)
        /\ ~ Free(Home(Word0))
        /\ ProbeEnds(Word0, p)
        /\ Free(Slot(Word0, p))
        /\ Store(Slot(Word0, p))

Larger(a, b) == IF a > b THEN a ELSE b

\* No slot: the table is thrown away and made larger, up to a limit.
Grow ==
    /\ dpc = "insert" /\ at < Len(entries)
    /\ ~ Free(Home(Word0))
    /\ \E p \in Powers : ProbeEnds(Word0, p) /\ ~ Free(Slot(Word0, p))
    /\ size' = size + Len(entries)
    /\ IF size' > Larger(10 * Len(entries), MaxTable)
       THEN /\ dpc' = "exit" /\ table' = <<>> /\ UNCHANGED at
       ELSE /\ table' = EmptyTable(size') /\ at' = 0 /\ UNCHANGED dpc
    /\ UNCHANGED <<lines, entries, hasher, bloom>>

\* The bits of a word in the Bloom filter.
Bits(w) == {hasher.one[w] % BloomSize, hasher.two[w] % BloomSize}
BitsAdded(w) == Bits(w)         \* fast_bloom_add

\* Every entry goes into the Bloom filter.
FillBloom ==
    /\ dpc = "insert" /\ at = Len(entries)
    /\ bloom' = bloom \cup UNION {BitsAdded(entries[i].word) : i \in DOMAIN entries}
    /\ dpc' = "ready"
    /\ UNCHANGED <<lines, entries, hasher, size, table, at>>

-----------------------------------------------------------------------------
(* DICTIONARY_GET.                                                         *)

InBloom(w) == Bits(w) \subseteq bloom       \* FAST_BLOOM_CHECK

\* Where the loop of the look-up ends: at a free slot, at the word, or beyond
\* twice the size.
LookupEnds(w, p) ==
    /\ ~ Other(Slot(w, p), w) \/ p > 2 * size
    /\ \A q \in Powers : q < p => Other(Slot(w, q), w) /\ q <= 2 * size

LookupProbe(w) == CHOOSE p \in Powers : LookupEnds(w, p)

\* A word met at a probe larger than the table is dropped.
DICTIONARY_GET_INNER(w) ==
    IF ~ Other(Home(w), w)              THEN table[Home(w)]
    ELSE IF LookupProbe(w) > size       THEN NoEntry
    ELSE table[Slot(w, LookupProbe(w))]

DICTIONARY_GET(w) == IF InBloom(w) THEN DICTIONARY_GET_INNER(w) ELSE NoEntry

-----------------------------------------------------------------------------
dictionary_destroy ==
    /\ dpc = "ready"
    /\ table' = <<>> /\ entries' = <<>> /\ bloom' = {}
    /\ dpc' = "destroyed"
    /\ UNCHANGED <<lines, hasher, size, at>>

DictLoad == ReadLine \/ StartInsert \/ InsertHome \/ InsertProbed \/ Grow \/ FillBloom

DictNext == DictLoad \/ dictionary_destroy

DictSpec == DictInit /\ [][DictNext]_dictVars
-----------------------------------------------------------------------------
(* Properties.                                                             *)

\* Every variable has its type; while words are inserted or looked up a slot
\* is empty or holds one of the entries inserted so far.
DictTypeOK ==
    /\ dpc \in {"read", "insert", "ready", "destroyed", "exit"}
    /\ lines \in Seq(Word)
    /\ entries \in Seq(Entry)
    /\ hasher \in [one : [Word -> Nat], two : [Word -> Nat]]
    /\ size \in Nat /\ at \in Nat
    /\ bloom \subseteq 0 .. BloomSize - 1
    /\ dpc \in {"insert", "ready"} =>
          /\ at <= Len(entries)
          /\ size >= 2 * Len(entries)
          /\ table \in [Slots -> {NoEntry} \cup 1 .. at]

\* The look-up meets other words at the home slot and at every probe before p.
OthersBefore(w, p) ==
    /\ Other(Home(w), w)
    /\ \A q \in Powers : q < p => Other(Slot(w, q), w)

\* The first copy of the word was stored at a probe larger than the table.
StoredBeyond(w) ==
    \E p \in Powers : /\ p > size
                      /\ Holds(Slot(w, p), w)
                      /\ OthersBefore(w, p)

\* A look-up finds every word of the file, whatever the collisions, growths and
\* repeated lines before; it misses only the words whose
\* first copy went to a probe larger than the table, where the insertion stores
\* (Dictionary.c:69) but the look-up drops what it finds (Dictionary.h:86).
WordsAreFound ==
    dpc = "ready" =>
        \A i \in 1 .. Len(entries) :
            LET w == entries[i].word
                e == DICTIONARY_GET(w) IN
            \/ e \in 1 .. Len(entries) /\ entries[e].word = w
            \/ e = NoEntry /\ StoredBeyond(w)
=============================================================================
