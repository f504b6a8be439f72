---------------------------- MODULE EventJournal ----------------------------
(***************************************************************************)
(* The event log of a test (scenario/event_journal.py): full chunks go to  *)
(* a temporary file and come back through a cache of the chunks read last; *)
(* snapshots are prefixes of the log that read through it; the compressed  *)
(* artifact is a list of blocks with an index.                             *)
(*                                                                         *)
(* An event is [id, size]: its place in the log and the length of its      *)
(* line. Reading is interleaved with appending: an iterator is a           *)
(* generator, which stands still between two of its items while its caller *)
(* does other things.                                                      *)
(***************************************************************************)
EXTENDS Integers, SequencesExt

CONSTANTS
  ChunkSize,     \* chunk_size
  CacheSize,     \* chunk_cache_size
  ChunkEvents,   \* chunk_events of write_zlib_chunk_events
  MaxRaw,        \* _ZLIB_MAX_RAW
  Sizes,         \* line lengths of events
  Readers,       \* iterators over snapshots
  MaxEvents,     \* bound: events appended
  Idle           \* no iterator

VARIABLES
  log,           \* history: every event appended
  spilled,       \* the chunks in the file, in the order of _offsets; Torn: one cut short
  current,       \* _current
  cache,         \* _cache, the chunk used last at the end
  reader,        \* the state of each iterator
  blocks,        \* the compressed artifact
  inflated       \* the block a view of it has inflated: _cache_index, _cache_events

journalVars == <<log, spilled, current, cache>>
vars == <<journalVars, reader, blocks, inflated>>

Torn == <<>>
NoBlock == [index |-> 0, events |-> <<>>]
Init ==
  /\ log = <<>> /\ spilled = <<>> /\ current = <<>> /\ cache = <<>>
  /\ reader = [r \in Readers |-> Idle]
  /\ blocks = <<>> /\ inflated = NoBlock

\* append: a chunk that is full is written to the file and left to its readers.  If writing
\* it fails its offset is there all the same, and the list goes on to grow beyond its size.
\* (The artifact is written from the trace of a test that is over.)
Append1(size) ==
  LET event == [id |-> Len(log) + 1, size |-> size]
      filled == Append(current, event)
  IN
  /\ Len(log) < MaxEvents /\ blocks = <<>>
  /\ log' = Append(log, event)
  /\ \/ Len(filled) = ChunkSize /\ spilled' = Append(spilled, filled) /\ current' = <<>>
     \/ Len(filled) = ChunkSize /\ spilled' = Append(spilled, Torn) /\ current' = filled
     \/ Len(filled) # ChunkSize /\ current' = filled /\ UNCHANGED spilled
  /\ UNCHANGED <<cache, reader, blocks, inflated>>

\* _chunk: the cache c after chunk number (from 0) has been read, and what is returned.
\* Reading a chunk that was cut short fails.
CacheAfter(c, number) ==
  LET hits == SelectSeq(c, LAMBDA e : e.number = number)
      rest == SelectSeq(c, LAMBDA e : e.number # number)
      all == IF hits # <<>> THEN rest \o hits
             ELSE Append(rest, [number |-> number, events |-> spilled[number + 1]])
  IN  IF number = Len(spilled) \/ spilled[number + 1] = Torn THEN c
      ELSE IF Len(all) > CacheSize THEN Tail(all) ELSE all
Chunk(number) ==
  IF number = Len(spilled) THEN current
  ELSE IF \E e \in ToSet(cache) : e.number = number
       THEN (CHOOSE e \in ToSet(cache) : e.number = number).events
       ELSE spilled[number + 1]

\* __getitem__, for an index (from 0) below the length.
ItemAt(index) ==
  LET list == Chunk(index \div ChunkSize)
      i == (index % ChunkSize) + 1
  IN  IF i \in DOMAIN list THEN list[i] ELSE Idle      \* an exception
Get(index) ==
  /\ index < Len(log) /\ index \div ChunkSize <= Len(spilled)
  /\ cache' = CacheAfter(cache, index \div ChunkSize)
  /\ UNCHANGED <<log, spilled, current, reader, blocks, inflated>>

\* The generator of EventJournal.__iter__: it visits the chunks that were in the file when
\* it started, then the list that is current when it gets there, which may still grow.
NewIterator(count) ==
  [phase |-> "chunks", limit |-> Len(spilled), number |-> -1, list |-> <<>>, pos |-> 0,
   count |-> count, out |-> <<>>]
Seek(it) ==
  IF it.phase = "chunks" /\ it.pos = Len(it.list)
  THEN IF it.number + 1 < it.limit
       THEN IF spilled[it.number + 2] = Torn THEN [it EXCEPT !.phase = "failed"]
            ELSE [it EXCEPT !.number = @ + 1, !.pos = 0, !.list = Chunk(it.number + 1)]
       ELSE [it EXCEPT !.phase = "current", !.number = Len(spilled), !.pos = 0]
  ELSE it
\* Faulty form of Items: append empties the list it has written instead of taking a new one.
ItemsCleared(it) == IF it.phase = "chunks" THEN it.list ELSE current

\* The list it runs over: the current one of then, which is in the file by now or still grows.
Items(it) ==
  IF it.phase = "chunks" THEN it.list
  ELSE IF it.number < Len(spilled) /\ spilled[it.number + 1] # Torn
       THEN spilled[it.number + 1] ELSE current

\* One item of EventJournalSnapshot.__iter__ or _iter_borrowed, or its end.
Advance(r, it) ==
  LET at == Seek(it) IN
  /\ cache' = IF at.phase = "chunks" /\ at.number # it.number THEN CacheAfter(cache, at.number) ELSE cache
  /\ reader' = [reader EXCEPT ![r] =
       IF at.phase = "failed" THEN at
       ELSE IF at.pos < Len(Items(at)) /\ Len(at.out) < at.count
       THEN [at EXCEPT !.pos = @ + 1, !.out = Append(@, Items(at)[at.pos + 1])]
       ELSE [at EXCEPT !.phase = "done"]]
  /\ UNCHANGED <<log, spilled, current, blocks, inflated>>
\* A snapshot was taken when the log had count events, and is iterated now.
StartReader(r) ==
  /\ reader[r] = Idle
  /\ \E count \in 0..Len(log) : Advance(r, NewIterator(count))
NextItem(r) == reader[r] # Idle /\ reader[r].phase \in {"chunks", "current"} /\ Advance(r, reader[r])

\* write_zlib_chunk_events: a block is closed when it has chunk_events events, or when the
\* next line would not fit.
LineBytes(s) == FoldLeft(LAMBDA n, e : n + e.size, 0, s)
BlockFull(pending, event) ==
  pending # <<>> /\ (Len(pending) >= ChunkEvents \/ LineBytes(pending) + event.size > MaxRaw)
AddToBlocks(acc, event) ==
  IF BlockFull(acc.pending, event)
  THEN [done |-> Append(acc.done, acc.pending), pending |-> <<event>>]
  ELSE [acc EXCEPT !.pending = Append(@, event)]
Folded(events) == FoldLeft(AddToBlocks, [done |-> <<>>, pending |-> <<>>], events)
\* Faulty form of BlocksOf: the last block is not flushed unless it is full.
BlocksUnflushed(events) ==
  LET acc == Folded(events)
  IN  IF Len(acc.pending) < ChunkEvents THEN acc.done ELSE Append(acc.done, acc.pending)

BlocksOf(events) ==
  LET acc == Folded(events)
  IN  IF acc.pending = <<>> THEN acc.done ELSE Append(acc.done, acc.pending)

\* Writing a snapshot iterates over it in one go, and so reads every chunk.  An event whose
\* line is longer than a block is refused; then, and if a chunk cannot be read, there is no
\* artifact (the exception leaves what has been written so far, which nobody opens).
Readable == IF Torn \in ToSet(spilled) THEN Len(spilled) - 1 ELSE Len(spilled)
WriteArtifact ==
  /\ blocks = <<>>
  /\ LET events == FlattenSeq(spilled) \o current IN
     blocks' = IF Torn \in ToSet(spilled) \/ \E e \in ToSet(events) : e.size > MaxRaw
               THEN <<>> ELSE BlocksOf(events)
  /\ \E read \in 0..Readable :
       /\ blocks' # <<>> => read = Readable
       /\ cache' = FoldLeft(CacheAfter, cache, [i \in 1..read |-> i - 1])
  /\ UNCHANGED <<log, spilled, current, reader, inflated>>

\* ZlibChunkEventView: _starts, and the block bisect finds for an index.
StartOf(b) == Len(FlattenSeq(SubSeq(blocks, 1, b - 1)))
Written == Len(FlattenSeq(blocks))
BlockFor(index) == Max({b \in DOMAIN blocks : StartOf(b) <= index})
\* _block: the block inflated last is kept.
Block(b) == IF inflated.index = b THEN inflated.events ELSE blocks[b]
ViewItem(index) ==
  LET b == BlockFor(index)
      i == index - StartOf(b) + 1
  IN  IF i \in DOMAIN Block(b) THEN Block(b)[i] ELSE Idle      \* IndexError
Lookup(index) ==
  /\ index < Written
  /\ inflated' = [index |-> BlockFor(index), events |-> Block(BlockFor(index))]
  /\ UNCHANGED <<journalVars, reader, blocks>>

Next ==
  \/ \E size \in Sizes : Append1(size)
  \/ \E index \in 0..(MaxEvents - 1) : Get(index) \/ Lookup(index)
  \/ \E r \in Readers : StartReader(r) \/ NextItem(r)
  \/ WriteArtifact

Spec == Init /\ [][Next]_vars
-----------------------------------------------------------------------------
\* However chunks were spilled, cached and evicted, an index reads the event that was
\* appended there, in a journal that failed to write a chunk at least up to that chunk.  An
\* iterator shows the events of the chunks that were in the file when it started, then those
\* of the chunk that was current when it got there, each in its place: all of its snapshot, or
\* all but the whole chunks that went to the file in between.
Sound == IF Torn \in ToSet(spilled) THEN Readable * ChunkSize ELSE Len(log)
ReadsAreExact ==
  /\ \A i \in 1..Sound : ItemAt(i - 1) = log[i]
  /\ \A r \in Readers : reader[r] # Idle =>
       LET it == reader[r]
           whole == it.limit * ChunkSize
           skipped == IF it.number > it.limit THEN (it.number - it.limit) * ChunkSize ELSE 0
       IN
       /\ Len(it.out) <= it.count
       /\ \A i \in DOMAIN it.out : i <= whole => it.out[i] = log[i]
       /\ Sound = Len(log) =>
            /\ \A i \in DOMAIN it.out : i > whole => it.out[i] = log[i + skipped]
            /\ it.phase = "done" => \/ Len(it.out) = it.count
                                    \/ skipped > 0 /\ Len(it.out) >= it.count - skipped

\* An artifact has every event of the log it was written from, in order, in blocks that its
\* reader accepts, and the view finds each by its index, whatever it has inflated.
ArtifactIsLog ==
  /\ \A b \in DOMAIN blocks : Len(blocks[b]) \in 1..ChunkEvents /\ LineBytes(blocks[b]) <= MaxRaw
  /\ blocks # <<>> => Written = Len(log)
  /\ \A i \in 1..Written : ViewItem(i - 1) = log[i]
=============================================================================
