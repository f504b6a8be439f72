---------------------------- MODULE MemoryProofs ----------------------------
(***************************************************************************)
(* Proofs about the two memories that are shared: that of the environment, *)
(* which the CPU and the devices of a test read and write                  *)
(* (PersistentMemory), and that of the host, which the builds and the fuzz *)
(* jobs of several processes lease (MemoryTokens).  The two parts are      *)
(* independent.                                                            *)
(***************************************************************************)
EXTENDS PersistentMemory, MemoryTokens, FiniteSetTheorems, TLAPS

-----------------------------------------------------------------------------
(***************************************************************************)
(* The cells of the environment memory are sound, and the sparse memory    *)
(* acts as a plain one, for any regions, windows, widths, values and       *)
(* budget.                                                                 *)
(*                                                                         *)
(* CellsAreSound is inductive once the types, the finiteness of the set of *)
(* cells and the place of an acceptance (its bytes are instruction slots)  *)
(* are added.  Every operation but a reset and a declaration is a commit   *)
(* to the cells of one region, so one lemma (CommitKeeps) says what a      *)
(* commit keeps.                                                           *)
(***************************************************************************)

MemoryTypes ==
  /\ bytes \in [Cells -> ByteCells \cup {Undetermined}]
  /\ initialImages \in [Cells -> Values \cup {Undetermined}]
  /\ instructionSlots \subseteq Cells
  /\ commitSequences \in [Regions -> 0..MaxCommits]
  /\ generation \in 0..MaxGeneration
  /\ acceptances \subseteq [cells : SUBSET Cells, version : Versions]

MemoryInv ==
  /\ MemoryTypes
  /\ IsFiniteSet(Determined)
  /\ \A a \in acceptances : a.cells \subseteq instructionSlots
  /\ CellsAreSound

\* A cell is a region and an offset in it.
LEMMA CellParts ==
  /\ \A r \in Regions, o \in Nat : o < Size[r] => <<r, o>> \in Cells
  /\ \A c \in Cells : c[1] \in Regions
<1>1. ASSUME NEW r \in Regions, NEW o \in Nat, o < Size[r]
      PROVE  <<r, o>> \in Cells
  <2>1. o \in 0..(Size[r] - 1)
    BY <1>1, MemoryConstants
  <2>2. <<r, o>> \in {r} \X (0..(Size[r] - 1))
    BY Zenon, <2>1
  <2> QED BY Zenon, <2>2 DEF Cells
<1>2. ASSUME NEW c \in Cells PROVE c[1] \in Regions
  BY DEF Cells
<1> QED BY Zenon, <1>1, <1>2

\* An access that resolves means cells of one region, finitely many.
LEMMA ResolvedSpan ==
  ASSUME NEW address \in Nat, NEW n \in Nat, NEW place \in Resolve(address, n)
  PROVE  /\ Span(place, n) \subseteq Cells
         /\ IsFiniteSet(Span(place, n))
         /\ place[1] \in Regions
         /\ \A c \in Span(place, n) : c[1] = place[1]
<1>1. PICK w \in Windows : /\ w.base <= address /\ address + n <= w.base + Size[w.memory_id]
                           /\ place = <<w.memory_id, address - w.base>>
  BY Zenon DEF Resolve
<1>2. w.base \in Nat /\ w.memory_id \in Regions /\ Size[w.memory_id] \in Nat
  BY Zenon, MemoryConstants
<1>3. place[1] = w.memory_id /\ place[2] = address - w.base
  BY Zenon, <1>1
<1>4. ASSUME NEW lane \in 0..(n - 1)
      PROVE  <<place[1], place[2] + lane>> \in Cells
  <2>1. place[2] + lane \in Nat /\ place[2] + lane < Size[w.memory_id]
    BY <1>1, <1>2, <1>3
  <2> QED BY Zenon, <1>2, <1>3, <2>1, CellParts
<1>5. IsFiniteSet(0..(n - 1))
  BY FS_Interval
<1>6. IsFiniteSet(Span(place, n))
  <2> DEFINE f == [lane \in 0..(n - 1) |-> <<place[1], place[2] + lane>>]
  <2>1. f \in Surjection(0..(n - 1), Span(place, n))
    BY Zenon DEF Span, Surjection
  <2> HIDE DEF f
  <2> QED BY Zenon, <1>5, <2>1, FS_Surjection
<1> QED BY <1>2, <1>3, <1>4, <1>6 DEF Span

\* _resolve finds one place at most, since __init__ rejects overlapping windows.
LEMMA ResolvedOnce ==
  ASSUME NEW address \in Nat, NEW n \in Nat \ {0},
         NEW p \in Resolve(address, n), NEW q \in Resolve(address, n)
  PROVE  p = q
<1>1. PICK v \in Windows : /\ v.base <= address /\ address + n <= v.base + Size[v.memory_id]
                           /\ p = <<v.memory_id, address - v.base>>
  BY Zenon DEF Resolve
<1>2. PICK w \in Windows : /\ w.base <= address /\ address + n <= w.base + Size[w.memory_id]
                           /\ q = <<w.memory_id, address - w.base>>
  BY Zenon DEF Resolve
<1>3. v.base \in Nat /\ w.base \in Nat /\ Size[v.memory_id] \in Nat /\ Size[w.memory_id] \in Nat
  BY Zenon, MemoryConstants
<1>4. v # w => \/ v.base + Size[v.memory_id] <= w.base
               \/ w.base + Size[w.memory_id] <= v.base
  BY Zenon, MemoryConstants
<1>5. v = w
  BY <1>1, <1>2, <1>3, <1>4
<1> QED BY Zenon, <1>1, <1>2, <1>5

\* The addresses are numbers, and what is to be written has a value for each byte.
LEMMA AddressNat == Addresses \subseteq Nat
BY MemoryConstants DEF Addresses

LEMMA DataOfSpan ==
  ASSUME NEW address \in Nat, NEW n \in Nat \ {0},
         NEW place \in Resolve(address, n), NEW value \in DataFor(address, n)
  PROVE  value \in [Span(place, n) -> Values]
<1>1. PICK q \in Resolve(address, n) : value \in [Span(q, n) -> Values]
  BY Zenon DEF DataFor
<1> QED BY Zenon, <1>1, ResolvedOnce

\* A commit of one region: new cells of one version and kind, the image's version or the
\* next one.
Commit(r, cells, value, version, kind) ==
  /\ bytes' = Fill(cells, value, version, kind)
  /\ \/ /\ kind = "INITIAL_IMAGE" /\ version = <<generation, 0>>
        /\ commitSequences' = commitSequences
        /\ cells \cap Determined = {}
     \/ /\ kind # "INITIAL_IMAGE" /\ version = NextVersion(r)
        /\ Advance(r)
  /\ generation' = generation

LEMMA CommitKeeps ==
  ASSUME MemoryInv, NEW r \in Regions, NEW cells \in SUBSET Cells, \A c \in cells : c[1] = r,
         NEW value, \A c \in cells : value[c] \in Values,
         NEW version, NEW kind \in WriterKinds, Commit(r, cells, value, version, kind)
  PROVE  /\ bytes' \in [Cells -> ByteCells \cup {Undetermined}]
         /\ commitSequences' \in [Regions -> 0..MaxCommits]
         /\ Determined' = Determined \cup cells
         /\ \A c \in cells : bytes'[c].value = value[c] /\ bytes'[c].version = version /\ bytes'[c].writer_kind = kind
         /\ \A c \in Cells \ cells : bytes'[c] = bytes[c]
         /\ VersionsNameCommits'
<1>1. MemoryTypes /\ VersionsNameCommits /\ MaxCommits \in Nat /\ MaxGeneration \in Nat
      /\ Undetermined \notin ByteCells
  BY Zenon, MemoryConstants DEF MemoryInv, CellsAreSound
<1>2. \A c \in Cells : bytes'[c] = IF c \in cells THEN ByteCell(value[c], version, kind) ELSE bytes[c]
  BY Zenon DEF Commit, Fill
<1>3. commitSequences' \in [Regions -> 0..MaxCommits] /\ \A q \in Regions : commitSequences[q] <= commitSequences'[q]
  BY <1>1 DEF Commit, Advance, MemoryTypes
<1>4. version \in Versions /\ version[1] = generation /\ version[2] <= commitSequences'[r]
      /\ (version[2] = 0 <=> kind = "INITIAL_IMAGE")
  <2>1. CASE kind = "INITIAL_IMAGE" /\ version = <<generation, 0>>
    BY <1>1, <1>3, <2>1 DEF MemoryTypes, Versions
  <2>2. CASE kind # "INITIAL_IMAGE" /\ version = NextVersion(r) /\ Advance(r)
    BY <1>1, <2>2 DEF MemoryTypes, Versions, NextVersion, Advance
  <2> QED BY Zenon, <2>1, <2>2 DEF Commit
<1>5. \A c \in cells : ByteCell(value[c], version, kind) \in ByteCells
  BY Zenon, <1>4 DEF ByteCell, ByteCells
<1>6. bytes' \in [Cells -> ByteCells \cup {Undetermined}]
  <2>1. bytes' = [c \in Cells |-> IF c \in cells THEN ByteCell(value[c], version, kind) ELSE bytes[c]]
    BY Zenon DEF Commit, Fill
  <2> QED BY Zenon, <1>1, <1>5, <2>1 DEF MemoryTypes
<1>7. Determined' = Determined \cup cells
  BY Zenon, <1>1, <1>2, <1>5 DEF Determined
<1>8. \A c \in cells : bytes'[c].value = value[c] /\ bytes'[c].version = version /\ bytes'[c].writer_kind = kind
  <2> SUFFICES ASSUME NEW c \in cells
               PROVE  bytes'[c].value = value[c] /\ bytes'[c].version = version /\ bytes'[c].writer_kind = kind
    BY Zenon
  <2>1. bytes'[c] = [value |-> value[c], version |-> version, writer_kind |-> kind]
    BY Zenon, <1>2 DEF ByteCell
  <2> QED BY <2>1
<1>9. \A c \in Determined : /\ bytes[c] \in ByteCells /\ c[1] \in Regions
                            /\ bytes[c].version[1] = generation
                            /\ bytes[c].version[2] \in Nat
                            /\ bytes[c].version[2] <= commitSequences[c[1]]
                            /\ bytes[c].version[2] = 0 <=> bytes[c].writer_kind = "INITIAL_IMAGE"
  <2>1. \A c \in Determined : bytes[c] \in ByteCells /\ c[1] \in Regions
    BY Zenon, <1>1, CellParts DEF Determined, MemoryTypes
  <2>2. \A c \in Determined : bytes[c].version \in Versions
    BY Zenon, <2>1 DEF ByteCells
  <2>3. \A c \in Determined : bytes[c].version[2] \in Nat
    BY <1>1, <2>2 DEF Versions
  <2> QED BY Zenon, <1>1, <2>1, <2>3 DEF VersionsNameCommits
\* A commit shares its version with no cell it leaves, or both are of the image.
<1>10. \A c \in Determined : c[1] = r /\ bytes[c].version = version => bytes[c].writer_kind = kind
  <2>1. CASE kind = "INITIAL_IMAGE" /\ version = <<generation, 0>>
    <3>1. version[2] = 0
      BY Zenon, <2>1
    <3> QED BY Zenon, <1>9, <2>1, <3>1, Zenon
  <2>2. CASE version = NextVersion(r)
    <3>1. version[2] = commitSequences[r] + 1 /\ commitSequences[r] \in Nat
      BY <1>1, <2>2 DEF NextVersion, MemoryTypes
    <3> SUFFICES ASSUME NEW c \in Determined, c[1] = r, bytes[c].version = version PROVE FALSE
      BY Zenon
    <3>2. bytes[c].version[2] <= commitSequences[c[1]]
      BY Zenon, <1>9, Zenon
    <3>3. version[2] <= commitSequences[r]
      BY Zenon, <3>2, Zenon
    <3> QED BY <3>1, <3>3
  <2> QED BY Zenon, <2>1, <2>2 DEF Commit
<1>11. VersionsNameCommits'
  <2> SUFFICES ASSUME NEW c \in Determined'
               PROVE  /\ bytes'[c].version[1] = generation'
                      /\ bytes'[c].version[2] <= commitSequences'[c[1]]
                      /\ bytes'[c].version[2] = 0 <=> bytes'[c].writer_kind = "INITIAL_IMAGE"
                      /\ \A d \in Determined' :
                           c[1] = d[1] /\ bytes'[c].version = bytes'[d].version
                             => bytes'[c].writer_kind = bytes'[d].writer_kind
    BY Zenon DEF VersionsNameCommits
  <2>1. generation' = generation /\ \A d \in Determined' \ cells : d \in Determined /\ bytes'[d] = bytes[d]
    BY Zenon, <1>2, <1>7 DEF Commit, Determined
  <2>2. CASE c \in cells
    <3>1. c[1] = r /\ bytes'[c].version = version /\ bytes'[c].writer_kind = kind
      BY Zenon, <1>8, <2>2
    <3>2. ASSUME NEW d \in Determined', c[1] = d[1], bytes'[c].version = bytes'[d].version
          PROVE  bytes'[c].writer_kind = bytes'[d].writer_kind
      BY Zenon, <1>8, <1>10, <2>1, <3>1, <3>2
    <3> QED BY Zenon, <1>4, <2>1, <3>1, <3>2
  <2>3. CASE c \notin cells
    <3>1. c \in Determined /\ bytes'[c] = bytes[c]
      BY Zenon, <2>1, <2>3
    <3>2. ASSUME NEW d \in Determined', c[1] = d[1], bytes'[c].version = bytes'[d].version
          PROVE  bytes'[c].writer_kind = bytes'[d].writer_kind
      <4>1. CASE d \in cells
        BY Zenon, <1>8, <1>10, <3>1, <3>2, <4>1
      <4>2. CASE d \notin cells
        BY <1>1, <2>1, <3>1, <3>2, <4>2 DEF VersionsNameCommits
      <4> QED BY Zenon, <4>1, <4>2
    <3>3. bytes'[c].version[2] <= commitSequences'[c[1]]
      <4>1. /\ commitSequences[c[1]] \in Nat /\ commitSequences'[c[1]] \in Nat
            /\ commitSequences[c[1]] <= commitSequences'[c[1]]
        <5>1. c[1] \in Regions
          BY Zenon, <1>9, <3>1, Zenon
        <5> QED BY <1>1, <1>3, <5>1 DEF MemoryTypes
      <4>2. bytes[c].version[2] \in Nat /\ bytes[c].version[2] <= commitSequences[c[1]]
        BY Zenon, <1>9, <3>1, Zenon
      <4>3. bytes'[c].version[2] = bytes[c].version[2]
        BY Zenon, <3>1, Zenon
      <4> QED BY <4>1, <4>2, <4>3
    <3> QED BY Zenon, <1>9, <2>1, <3>1, <3>2, <3>3
  <2> QED BY Zenon, <2>2, <2>3
<1> QED BY Zenon, <1>2, <1>3, <1>6, <1>7, <1>8, <1>11

\* A checked commit stays in the budget.
LEMMA BudgetKept ==
  ASSUME MemoryInv, NEW cells, IsFiniteSet(cells), Budget(cells), Determined' = Determined \cup cells
  PROVE  IsFiniteSet(Determined') /\ Cardinality(Determined') <= MaxInitializedBytes
<1>1. IsFiniteSet(Determined)
  BY Zenon DEF MemoryInv
<1>2. IsFiniteSet(Determined \cup cells)
  BY Zenon, <1>1, FS_Union
<1> QED BY Zenon, <1>2 DEF Budget

\* A commit leaves the acceptances current if it only stores, or if it writes no byte of
\* one.
LEMMA AcceptancesKept ==
  ASSUME MemoryInv, NEW r \in Regions, NEW cells \in SUBSET Cells, \A c \in cells : c[1] = r,
         NEW value, \A c \in cells : value[c] \in Values,
         NEW version, NEW kind \in WriterKinds, Commit(r, cells, value, version, kind),
         kind = "STORE" \/ \A a \in acceptances : a.cells \cap cells = {},
         NEW a \in acceptances
  PROVE  /\ a.version[1] = generation'
         /\ a.cells \subseteq Determined'
         /\ \A c \in a.cells : \/ bytes'[c].version = a.version
                               \/ bytes'[c].writer_kind = "STORE" /\ bytes'[c].version[2] > a.version[2]
<1>1. /\ MemoryTypes /\ AcceptancesAreCurrent /\ VersionsNameCommits
      /\ a.cells \subseteq Cells /\ a.version \in Versions
      /\ MaxCommits \in Nat
  BY Zenon, MemoryConstants DEF MemoryInv, CellsAreSound, MemoryTypes
<1>2. /\ Determined' = Determined \cup cells
      /\ \A c \in cells : bytes'[c].value = value[c] /\ bytes'[c].version = version /\ bytes'[c].writer_kind = kind
      /\ \A c \in Cells \ cells : bytes'[c] = bytes[c]
  BY CommitKeeps
<1>3. a.version[1] = generation' /\ a.cells \subseteq Determined'
  BY Zenon, <1>1, <1>2 DEF AcceptancesAreCurrent, Commit
<1>4. ASSUME NEW c \in a.cells
      PROVE  \/ bytes'[c].version = a.version
             \/ bytes'[c].writer_kind = "STORE" /\ bytes'[c].version[2] > a.version[2]
  <2>1. /\ c \in Determined
        /\ \/ bytes[c].version = a.version
           \/ bytes[c].writer_kind = "STORE" /\ bytes[c].version[2] > a.version[2]
    BY Zenon, <1>1 DEF AcceptancesAreCurrent
  <2>2. CASE c \notin cells
    <3>1. bytes'[c] = bytes[c]
      BY Zenon, <1>1, <1>2, <2>2
    <3>2. bytes'[c].version = bytes[c].version /\ bytes'[c].writer_kind = bytes[c].writer_kind
      BY Zenon, <3>1, Zenon
    <3> QED BY Zenon, <2>1, <3>2
  <2>3. CASE c \in cells
    <3>1. kind = "STORE"
      BY Zenon, <2>3
    <3>2. c[1] = r /\ version = NextVersion(r) /\ c \in Cells
      BY Zenon, <2>3, <3>1 DEF Commit
    <3>4. bytes'[c].writer_kind = "STORE" /\ bytes'[c].version = version
      BY Zenon, <1>2, <2>3, <3>1, Zenon
    <3>5. version[2] = commitSequences[r] + 1 /\ commitSequences[r] \in Nat
      BY <1>1, <3>2 DEF NextVersion, MemoryTypes
    <3>6. bytes[c].version[2] <= commitSequences[r]
      <4>1. bytes[c].version[2] <= commitSequences[c[1]]
        BY Zenon, <1>1, <2>1, Zenon DEF VersionsNameCommits
      <4> QED BY Zenon, <3>2, <4>1, Zenon
    <3>7. bytes[c].version[2] \in Nat /\ a.version[2] \in Nat
      <4>1. bytes[c] \in ByteCells
        BY Zenon, <1>1, <2>1 DEF Determined, MemoryTypes
      <4>2. bytes[c].version \in Versions
        BY Zenon, <4>1 DEF ByteCells
      <4> QED BY <1>1, <4>2 DEF Versions
    <3>8. a.version[2] <= bytes[c].version[2]
      <4>1. CASE bytes[c].version = a.version
        <5>1. bytes[c].version[2] = a.version[2]
          BY Zenon, <4>1, Zenon
        <5> QED BY <3>7, <5>1
      <4>2. CASE bytes[c].version[2] > a.version[2]
        BY <3>7, <4>2
      <4> QED BY Zenon, <2>1, <4>1, <4>2
    <3>9. version[2] > a.version[2]
      BY <3>5, <3>6, <3>7, <3>8
    <3> QED BY Zenon, <3>4, <3>9
  <2> QED BY Zenon, <2>2, <2>3
<1> QED BY Zenon, <1>3, <1>4

\* What a commit does to the bytes as their users see them.
LEMMA CommitSeen ==
  ASSUME MemoryInv, NEW r \in Regions, NEW cells \in SUBSET Cells, \A c \in cells : c[1] = r,
         NEW value, \A c \in cells : value[c] \in Values,
         NEW version, NEW kind \in WriterKinds, Commit(r, cells, value, version, kind),
         instructionSlots' = instructionSlots
  PROVE  Worth' = [c \in Cells |-> IF c \in cells THEN value[c] ELSE Worth[c]]
<1>1. /\ Determined' = Determined \cup cells
      /\ \A c \in cells : bytes'[c].value = value[c] /\ bytes'[c].version = version /\ bytes'[c].writer_kind = kind
      /\ \A c \in Cells \ cells : bytes'[c] = bytes[c]
      /\ generation' = generation
  BY CommitKeeps DEF Commit
<1>2. \A c \in cells : bytes'[c] # Undetermined /\ bytes'[c].value = value[c]
  BY Zenon, <1>1 DEF Determined
<1>3. Worth' = [c \in Cells |-> IF bytes'[c] # Undetermined THEN bytes'[c].value
                                ELSE IF c \in instructionSlots THEN Undetermined
                                ELSE InitialByte[<<generation, c>>]]
  BY Zenon, <1>1 DEF Worth
<1>4. ASSUME NEW c \in Cells
      PROVE  (IF bytes'[c] # Undetermined THEN bytes'[c].value
              ELSE IF c \in instructionSlots THEN Undetermined ELSE InitialByte[<<generation, c>>])
             = IF c \in cells THEN value[c] ELSE Worth[c]
  <2>1. CASE c \in cells
    BY Zenon, <1>2, <2>1
  <2>2. CASE c \notin cells
    BY Zenon, <1>1, <2>2 DEF Worth
  <2> QED BY Zenon, <2>1, <2>2
<1> QED BY Zenon, <1>3, <1>4

\* A commit keeps the invariant if it is within the budget, declares an image only where
\* it writes and no slot is, and is a writer's where it writes a slot or an accepted byte.
LEMMA CommitInv ==
  ASSUME MemoryInv, NEW r \in Regions, NEW cells \in SUBSET Cells, \A c \in cells : c[1] = r,
         NEW value, \A c \in cells : value[c] \in Values,
         NEW version, NEW kind \in WriterKinds, Commit(r, cells, value, version, kind),
         IsFiniteSet(cells), Budget(cells) \/ cells \subseteq Determined,
         instructionSlots' = instructionSlots,
         initialImages' \in [Cells -> Values \cup {Undetermined}],
         \A c \in Cells \ cells : initialImages'[c] = initialImages[c],
         initialImages' = initialImages \/ cells \cap instructionSlots = {},
         kind \in {"INSTRUCTION_SOURCE", "STORE"} \/ cells \cap instructionSlots = {},
         kind = "STORE" \/ \A a \in acceptances : a.cells \cap cells = {},
         \/ acceptances' = acceptances
         \/ /\ kind # "INITIAL_IMAGE" /\ cells \subseteq instructionSlots
            /\ acceptances' = acceptances \cup {[cells |-> cells, version |-> version]}
  PROVE  MemoryInv'
<1>1. /\ MemoryTypes /\ IsFiniteSet(Determined) /\ WithinBudget /\ SlotsAreFilledByWriters
      /\ \A a \in acceptances : a.cells \subseteq instructionSlots
  BY Zenon DEF MemoryInv, CellsAreSound
<1>2. /\ bytes' \in [Cells -> ByteCells \cup {Undetermined}]
      /\ commitSequences' \in [Regions -> 0..MaxCommits]
      /\ Determined' = Determined \cup cells
      /\ \A c \in cells : bytes'[c].value = value[c] /\ bytes'[c].version = version /\ bytes'[c].writer_kind = kind
      /\ \A c \in Cells \ cells : bytes'[c] = bytes[c]
      /\ VersionsNameCommits'
  BY Zenon, CommitKeeps
<1>3. \A c \in cells : bytes'[c].version = version /\ bytes'[c].writer_kind = kind
  BY Zenon, <1>2, Zenon
<1>4. generation' = generation /\ version \in Versions /\ version[1] = generation
  BY <1>1, MemoryConstants DEF Commit, NextVersion, Advance, MemoryTypes, Versions
<1>5. acceptances' \subseteq [cells : SUBSET Cells, version : Versions]
  <2>1. [cells |-> cells, version |-> version] \in [cells : SUBSET Cells, version : Versions]
    BY Zenon, <1>4
  <2>2. acceptances \subseteq [cells : SUBSET Cells, version : Versions]
    BY Zenon, <1>1 DEF MemoryTypes
  <2> QED BY Zenon, <2>1, <2>2, Zenon
<1>6. MemoryTypes'
  BY Zenon, <1>1, <1>2, <1>4, <1>5 DEF MemoryTypes
<1>7. IsFiniteSet(Determined') /\ Cardinality(Determined') <= MaxInitializedBytes
  <2>1. CASE Budget(cells)
    BY Zenon, <1>2, <2>1, BudgetKept
  <2>2. CASE cells \subseteq Determined
    <3>1. Determined' = Determined
      BY Zenon, <1>2, <2>2
    <3> QED BY Zenon, <1>1, <3>1 DEF WithinBudget
  <2> QED BY Zenon, <2>1, <2>2
<1>8. WithinBudget'
  <2>1. ASSUME NEW c \in Cells, initialImages'[c] # Undetermined PROVE c \in Determined'
    BY Zenon, <1>1, <1>2, <2>1 DEF WithinBudget
  <2> QED BY Zenon, <1>7, <2>1 DEF WithinBudget
<1>9. SlotsAreFilledByWriters'
  <2> SUFFICES ASSUME NEW c \in instructionSlots
               PROVE  /\ initialImages'[c] = Undetermined
                      /\ c \in Determined' => bytes'[c].writer_kind \in {"INSTRUCTION_SOURCE", "STORE"}
    BY Zenon DEF SlotsAreFilledByWriters
  <2>1. c \in Cells /\ initialImages[c] = Undetermined
        /\ (c \in Determined => bytes[c].writer_kind \in {"INSTRUCTION_SOURCE", "STORE"})
    BY Zenon, <1>1 DEF MemoryTypes, SlotsAreFilledByWriters
  <2>2. initialImages'[c] = Undetermined
    BY Zenon, <2>1
  <2>3. CASE c \in cells
    BY Zenon, <1>3, <2>2, <2>3
  <2>4. CASE c \notin cells
    <3>1. bytes'[c] = bytes[c] /\ (c \in Determined' => c \in Determined)
      BY Zenon, <1>2, <2>1, <2>4
    <3>2. bytes'[c].writer_kind = bytes[c].writer_kind
      BY Zenon, <3>1, Zenon
    <3> QED BY Zenon, <2>1, <2>2, <3>1, <3>2
  <2> QED BY Zenon, <2>3, <2>4
<1>10. AcceptancesAreCurrent' /\ \A a \in acceptances' : a.cells \subseteq instructionSlots'
  <2> DEFINE new == [cells |-> cells, version |-> version]
  <2>1. ASSUME NEW a \in acceptances'
        PROVE  /\ a.version[1] = generation' /\ a.cells \subseteq Determined'
               /\ \A c \in a.cells : \/ bytes'[c].version = a.version
                                     \/ bytes'[c].writer_kind = "STORE" /\ bytes'[c].version[2] > a.version[2]
               /\ a.cells \subseteq instructionSlots'
    <3>1. CASE a \in acceptances
      <4>1. a.cells \subseteq instructionSlots'
        BY Zenon, <1>1, <3>1
      <4>2. /\ a.version[1] = generation' /\ a.cells \subseteq Determined'
            /\ \A c \in a.cells : \/ bytes'[c].version = a.version
                                  \/ bytes'[c].writer_kind = "STORE" /\ bytes'[c].version[2] > a.version[2]
        BY Zenon, <3>1, AcceptancesKept
      <4> QED BY Zenon, <4>1, <4>2
    <3>2. CASE a = new /\ cells \subseteq instructionSlots
      <4>1. a.cells = cells /\ a.version = version
        BY Zenon, <3>2
      <4>2. a.version[1] = generation'
        BY Zenon, <1>4, <4>1
      <4>3. \A c \in a.cells : bytes'[c].version = a.version
        BY Zenon, <1>3, <4>1
      <4> QED BY Zenon, <1>2, <3>2, <4>1, <4>2, <4>3
    <3> QED BY Zenon, <3>1, <3>2
  <2> QED BY Zenon, <2>1 DEF AcceptancesAreCurrent
<1> QED BY Zenon, <1>2, <1>6, <1>7, <1>8, <1>9, <1>10 DEF MemoryInv, CellsAreSound

\* preload: a commit of the image's version, and a declaration of the plain memory.
LEMMA PreloadKeeps ==
  ASSUME MemoryInv, NEW address \in Nat, NEW n \in Nat \ {0}, NEW value \in DataFor(address, n),
         Preload(address, n, value)
  PROVE  MemoryInv' /\ Eager!Next
<1>1. PICK place \in Resolve(address, n) :
        /\ Span(place, n) \cap (Determined \cup instructionSlots) = {}
        /\ Budget(Span(place, n))
        /\ initialImages' = [c \in Cells |-> IF c \in Span(place, n) THEN value[c] ELSE initialImages[c]]
        /\ bytes' = Fill(Span(place, n), value, <<generation, 0>>, "INITIAL_IMAGE")
        /\ instructionSlots' = instructionSlots /\ commitSequences' = commitSequences
        /\ generation' = generation /\ acceptances' = acceptances /\ reply' = reply
  BY Zenon DEF Preload
<1> DEFINE cells == Span(place, n)
<1>2. /\ cells \subseteq Cells /\ IsFiniteSet(cells) /\ place[1] \in Regions
      /\ \A c \in cells : c[1] = place[1]
  BY Zenon, ResolvedSpan
<1>3. value \in [cells -> Values]
  BY Zenon, DataOfSpan
<1> HIDE DEF cells
<1>4. /\ cells \cap (Determined \cup instructionSlots) = {} /\ Budget(cells)
      /\ initialImages' = [c \in Cells |-> IF c \in cells THEN value[c] ELSE initialImages[c]]
      /\ bytes' = Fill(cells, value, <<generation, 0>>, "INITIAL_IMAGE")
  BY Zenon, <1>1 DEF cells
<1>5. Commit(place[1], cells, value, <<generation, 0>>, "INITIAL_IMAGE") /\ "INITIAL_IMAGE" \in WriterKinds
  BY Zenon, <1>1, <1>4 DEF Commit, WriterKinds
<1>6. \A a \in acceptances : a.cells \cap cells = {}
  BY Zenon, <1>4 DEF MemoryInv, CellsAreSound, AcceptancesAreCurrent
<1>7. initialImages' \in [Cells -> Values \cup {Undetermined}]
  BY Zenon, <1>3, <1>4 DEF MemoryInv, MemoryTypes
<1>8. MemoryInv'
  BY ZenonT(60), <1>1, <1>2, <1>3, <1>4, <1>5, <1>6, <1>7, CommitInv
<1>9. Worth' = [c \in Cells |-> IF c \in cells THEN value[c] ELSE Worth[c]]
  BY <1>1, <1>2, <1>3, <1>5, CommitSeen
<1>10. Eager!Declare(cells, value)
  BY Zenon, <1>1, <1>4, <1>9 DEF Eager!Declare, Eager!Overwrite
<1> QED BY Zenon, <1>2, <1>3, <1>8, <1>10 DEF Eager!Next

\* reinstall_image: a commit to image bytes, which all have cells and are no slots; a store
\* of the plain memory.
LEMMA ReinstallKeeps ==
  ASSUME MemoryInv, NEW address \in Nat, NEW n \in Nat \ {0}, NEW value \in DataFor(address, n),
         ReinstallImage(address, n, value)
  PROVE  MemoryInv' /\ Eager!Next
<1>1. PICK place \in Resolve(address, n) :
        /\ \A c \in Span(place, n) : initialImages[c] # Undetermined
        /\ Advance(place[1])
        /\ bytes' = Fill(Span(place, n), value, NextVersion(place[1]), "RESET_IMAGE")
        /\ initialImages' = initialImages /\ instructionSlots' = instructionSlots
        /\ generation' = generation /\ acceptances' = acceptances /\ reply' = reply
  BY Zenon DEF ReinstallImage
<1> DEFINE cells == Span(place, n)
<1>2. /\ cells \subseteq Cells /\ IsFiniteSet(cells) /\ place[1] \in Regions
      /\ \A c \in cells : c[1] = place[1]
  BY Zenon, ResolvedSpan
<1>3. value \in [cells -> Values]
  BY Zenon, DataOfSpan
<1>4. (\A c \in cells : initialImages[c] # Undetermined)
      /\ Commit(place[1], cells, value, NextVersion(place[1]), "RESET_IMAGE") /\ "RESET_IMAGE" \in WriterKinds
  BY Zenon, <1>1 DEF Commit, WriterKinds
<1> HIDE DEF cells
<1>5. cells \subseteq Determined /\ cells \cap instructionSlots = {}
  BY Zenon, <1>2, <1>4 DEF MemoryInv, CellsAreSound, WithinBudget, SlotsAreFilledByWriters
<1>6. \A a \in acceptances : a.cells \cap cells = {}
  BY Zenon, <1>5 DEF MemoryInv
<1>7. initialImages' \in [Cells -> Values \cup {Undetermined}]
  BY Zenon, <1>1 DEF MemoryInv, MemoryTypes
<1>8. MemoryInv'
  BY Zenon, <1>1, <1>2, <1>3, <1>4, <1>5, <1>6, <1>7, CommitInv
<1>9. Worth' = [c \in Cells |-> IF c \in cells THEN value[c] ELSE Worth[c]]
  BY <1>1, <1>2, <1>3, <1>4, CommitSeen
<1>10. Eager!Store(cells, value)
  BY Zenon, <1>1, <1>9 DEF Eager!Store, Eager!Overwrite
<1> QED BY Zenon, <1>2, <1>3, <1>8, <1>10 DEF Eager!Next

\* accept_instructions: a commit to empty slots, and the acceptance that tells of it; a
\* store of the plain memory.
LEMMA AcceptKeeps ==
  ASSUME MemoryInv, NEW address \in Nat, NEW n \in Nat \ {0}, NEW value \in DataFor(address, n),
         AcceptInstructions(address, n, value)
  PROVE  MemoryInv' /\ Eager!Next
<1>1. PICK place \in Resolve(address, n) :
        /\ Span(place, n) \subseteq instructionSlots /\ Span(place, n) \cap Determined = {}
        /\ Budget(Span(place, n))
        /\ Advance(place[1])
        /\ bytes' = Fill(Span(place, n), value, NextVersion(place[1]), "INSTRUCTION_SOURCE")
        /\ acceptances' = acceptances \cup {[cells |-> Span(place, n), version |-> NextVersion(place[1])]}
        /\ initialImages' = initialImages /\ instructionSlots' = instructionSlots
        /\ generation' = generation /\ reply' = reply
  BY Zenon DEF AcceptInstructions
<1> DEFINE cells == Span(place, n)
           version == NextVersion(place[1])
<1>2. /\ cells \subseteq Cells /\ IsFiniteSet(cells) /\ place[1] \in Regions
      /\ \A c \in cells : c[1] = place[1]
  BY Zenon, ResolvedSpan
<1>3. value \in [cells -> Values]
  BY Zenon, DataOfSpan
<1>4. /\ cells \subseteq instructionSlots /\ cells \cap Determined = {} /\ Budget(cells)
      /\ acceptances' = acceptances \cup {[cells |-> cells, version |-> version]}
      /\ Commit(place[1], cells, value, version, "INSTRUCTION_SOURCE")
      /\ "INSTRUCTION_SOURCE" \in WriterKinds
  BY Zenon, <1>1 DEF Commit, WriterKinds
<1> HIDE DEF cells, version
<1>5. \A a \in acceptances : a.cells \cap cells = {}
  BY Zenon, <1>4 DEF MemoryInv, CellsAreSound, AcceptancesAreCurrent
<1>6. initialImages' \in [Cells -> Values \cup {Undetermined}]
  BY Zenon, <1>1 DEF MemoryInv, MemoryTypes
<1>7. MemoryInv'
  BY Zenon, <1>1, <1>2, <1>3, <1>4, <1>5, <1>6, CommitInv
<1>8. Worth' = [c \in Cells |-> IF c \in cells THEN value[c] ELSE Worth[c]]
  BY <1>1, <1>2, <1>3, <1>4, CommitSeen
<1>9. Eager!Store(cells, value)
  BY Zenon, <1>1, <1>8 DEF Eager!Store, Eager!Overwrite
<1> QED BY Zenon, <1>2, <1>3, <1>7, <1>9 DEF Eager!Next

\* write: a commit to the enabled lanes; a store of the plain memory to just these.
LEMMA WriteKeeps ==
  ASSUME MemoryInv, NEW address \in Nat, NEW n \in Nat \ {0}, NEW value \in DataFor(address, n),
         NEW enabled, Write(address, n, enabled, value)
  PROVE  MemoryInv' /\ Eager!Next
<1>1. PICK place \in Resolve(address, n) :
        /\ enabled \subseteq Span(place, n) /\ Budget(enabled) /\ Advance(place[1])
        /\ bytes' = Fill(enabled, value, NextVersion(place[1]), "STORE")
  BY Zenon DEF Write
<1>2. /\ initialImages' = initialImages /\ instructionSlots' = instructionSlots
      /\ generation' = generation /\ acceptances' = acceptances /\ reply' = reply
  BY Zenon DEF Write
<1>3. /\ Span(place, n) \subseteq Cells /\ IsFiniteSet(Span(place, n)) /\ place[1] \in Regions
      /\ \A c \in Span(place, n) : c[1] = place[1]
  BY Zenon, ResolvedSpan
<1>4. enabled \subseteq Cells /\ IsFiniteSet(enabled) /\ \A c \in enabled : c[1] = place[1]
  BY Zenon, <1>1, <1>3, FS_Subset
<1>5. \A c \in enabled : value[c] \in Values
  <2>1. value \in [Span(place, n) -> Values]
    BY Zenon, DataOfSpan
  <2> QED BY Zenon, <1>1, <2>1
<1>6. Commit(place[1], enabled, value, NextVersion(place[1]), "STORE") /\ "STORE" \in WriterKinds
  BY Zenon, <1>1, <1>2 DEF Commit, WriterKinds
<1>7. initialImages' \in [Cells -> Values \cup {Undetermined}]
  BY Zenon, <1>2 DEF MemoryInv, MemoryTypes
<1>8. MemoryInv'
  BY Zenon, <1>1, <1>2, <1>3, <1>4, <1>5, <1>6, <1>7, CommitInv
<1>9. Worth' = [c \in Cells |-> IF c \in enabled THEN value[c] ELSE Worth[c]]
  BY <1>2, <1>3, <1>4, <1>5, <1>6, CommitSeen
<1> DEFINE data == [c \in enabled |-> value[c]]
<1>10. data \in [enabled -> Values] /\ \A c \in enabled : data[c] = value[c]
  BY Zenon, <1>5
<1> HIDE DEF data
<1>11. Eager!Store(enabled, data)
  BY Zenon, <1>2, <1>9, <1>10 DEF Eager!Store, Eager!Overwrite
<1> QED BY Zenon, <1>4, <1>8, <1>10, <1>11 DEF Eager!Next

\* Nothing but the reply of the last read has changed.
LEMMA CellsUnchanged ==
  ASSUME MemoryInv, bytes' = bytes, initialImages' = initialImages, instructionSlots' = instructionSlots,
         commitSequences' = commitSequences, generation' = generation, acceptances' \subseteq acceptances
  PROVE  MemoryInv' /\ Worth' = Worth
<1>1. Determined' = Determined
  BY Zenon DEF Determined
<1>2. MemoryTypes' /\ Worth' = Worth
  BY Zenon DEF MemoryInv, MemoryTypes, Worth
<1>3. VersionsNameCommits' /\ WithinBudget' /\ SlotsAreFilledByWriters'
  BY <1>1 DEF MemoryInv, CellsAreSound, VersionsNameCommits, WithinBudget, SlotsAreFilledByWriters
<1>4. AcceptancesAreCurrent'
  BY Zenon, <1>1 DEF MemoryInv, CellsAreSound, AcceptancesAreCurrent
<1> QED BY Zenon, <1>1, <1>2, <1>3, <1>4 DEF MemoryInv, CellsAreSound

\* read: the bytes that have no cell yet get one, with the value they had been worth; a load
\* of the plain memory.
LEMMA ReadKeeps ==
  ASSUME MemoryInv, NEW address \in Nat, NEW n \in Nat \ {0}, Read(address, n)
  PROVE  MemoryInv' /\ Eager!Next
<1>1. PICK place \in Resolve(address, n) :
        /\ Loadable(place, n) /\ Materialize(place, n)
        /\ reply' = [c \in Span(place, n) |-> bytes'[c].value]
  BY Zenon DEF Read
<1>2. /\ initialImages' = initialImages /\ instructionSlots' = instructionSlots
      /\ generation' = generation /\ acceptances' = acceptances
  BY Zenon DEF Read
<1> DEFINE cells == Span(place, n)
           missing == cells \ Determined
           value == [c \in missing |-> InitialByte[<<generation, c>>]]
<1>3. /\ cells \subseteq Cells /\ IsFiniteSet(cells) /\ place[1] \in Regions
      /\ \A c \in cells : c[1] = place[1]
  BY Zenon, ResolvedSpan
<1>4. missing \cap instructionSlots = {} /\ Budget(missing)
      /\ bytes' = Fill(missing, value, NextVersion(place[1]), "FIRST_READ")
      /\ IF missing = {} THEN commitSequences' = commitSequences ELSE Advance(place[1])
  BY Zenon, <1>1 DEF Loadable, Materialize
<1>5. \A c \in missing : value[c] = InitialByte[<<generation, c>>]
  BY Zenon
<1>6. missing \subseteq cells /\ missing \cap Determined = {} /\ cells \subseteq Determined \cup missing
  BY Zenon
<1>7. reply' = [c \in cells |-> bytes'[c].value]
  BY Zenon, <1>1
<1> HIDE DEF cells, missing, value
<1>8. \A c \in missing : value[c] \in Values /\ value[c] = Worth[c]
  <2>1. ASSUME NEW c \in missing PROVE InitialByte[<<generation, c>>] \in Values
    <3>1. <<generation, c>> \in (0..MaxGeneration) \X Cells
      BY Zenon, <1>3, <1>6 DEF MemoryInv, MemoryTypes
    <3> QED BY Zenon, <3>1, MemoryConstants
  <2>2. ASSUME NEW c \in missing PROVE Worth[c] = InitialByte[<<generation, c>>]
    BY Zenon, <1>3, <1>4, <1>6 DEF Worth, Determined
  <2> QED BY Zenon, <1>5, <2>1, <2>2
<1>9. MemoryInv' /\ Worth' = Worth /\ Determined' = Determined \cup missing
  <2>1. CASE missing = {}
    <3>1. bytes' = bytes
      BY Zenon, <1>4, <2>1 DEF Fill, MemoryInv, MemoryTypes
    <3>2. commitSequences' = commitSequences
      BY Zenon, <1>4, <2>1
    <3>3. Determined' = Determined \cup missing
      BY Zenon, <2>1, <3>1 DEF Determined
    <3> QED BY Zenon, <1>2, <3>1, <3>2, <3>3, CellsUnchanged
  <2>2. CASE missing # {}
    <3>1. Commit(place[1], missing, value, NextVersion(place[1]), "FIRST_READ") /\ "FIRST_READ" \in WriterKinds
      BY Zenon, <1>2, <1>4, <2>2 DEF Commit, WriterKinds
    <3>2. missing \subseteq Cells /\ IsFiniteSet(missing) /\ \A c \in missing : c[1] = place[1]
      BY Zenon, <1>3, <1>6, FS_Subset
    <3>3. \A a \in acceptances : a.cells \cap missing = {}
      BY Zenon, <1>6 DEF MemoryInv, CellsAreSound, AcceptancesAreCurrent
    <3>4. initialImages' \in [Cells -> Values \cup {Undetermined}]
      BY Zenon, <1>2 DEF MemoryInv, MemoryTypes
    <3>5. MemoryInv'
      BY Zenon, <1>2, <1>3, <1>4, <1>8, <3>1, <3>2, <3>3, <3>4, CommitInv
    <3>6. Worth' = [c \in Cells |-> IF c \in missing THEN value[c] ELSE Worth[c]]
      BY <1>2, <1>3, <1>8, <3>1, <3>2, CommitSeen
    <3>7. Worth' = Worth
      BY Zenon, <1>8, <3>6 DEF Worth
    <3>8. Determined' = Determined \cup missing
      BY Zenon, <1>3, <1>8, <3>1, <3>2, CommitKeeps
    <3> QED BY Zenon, <3>5, <3>7, <3>8
  <2> QED BY Zenon, <2>1, <2>2
<1>10. \A c \in cells : bytes'[c] # Undetermined /\ bytes'[c].value = Worth[c]
  <2>1. \A c \in cells : c \in Cells /\ bytes'[c] # Undetermined
    BY Zenon, <1>3, <1>6, <1>9 DEF Determined
  <2>2. \A c \in cells : Worth'[c] = bytes'[c].value
    BY Zenon, <2>1 DEF Worth
  <2> QED BY Zenon, <1>9, <2>1, <2>2
<1>11. \A c \in cells : Worth[c] # Undetermined
  <2>1. \A c \in cells : bytes'[c] \in ByteCells
    BY Zenon, <1>3, <1>9, <1>10 DEF MemoryInv, MemoryTypes
  <2>2. \A c \in cells : bytes'[c].value \in Values
    BY Zenon, <2>1 DEF ByteCells
  <2> QED BY Zenon, <1>10, <2>2, MemoryConstants
<1>12. reply' = [c \in cells |-> Worth[c]]
  BY Zenon, <1>7, <1>10
<1>13. Eager!Load(cells)
  BY Zenon, <1>2, <1>9, <1>11, <1>12 DEF Eager!Load
<1> QED BY Zenon, <1>3, <1>9, <1>13 DEF Eager!Next

\* declare_instruction_slots: bytes without a cell, hence without an image, are reserved.
LEMMA DeclareKeeps ==
  ASSUME MemoryInv, NEW address \in Nat, DeclareInstructionSlots(address, 1)
  PROVE  MemoryInv' /\ Eager!Next
<1>1. WordBytes * 1 \in Nat
  BY MemoryConstants
<1>2. PICK place \in Resolve(address, WordBytes * 1) :
        /\ Span(place, WordBytes * 1) \cap Determined = {}
        /\ instructionSlots' = instructionSlots \cup Span(place, WordBytes * 1)
        /\ bytes' = bytes /\ initialImages' = initialImages /\ commitSequences' = commitSequences
        /\ generation' = generation /\ acceptances' = acceptances /\ reply' = reply
  BY Zenon DEF DeclareInstructionSlots
<1> DEFINE cells == Span(place, WordBytes * 1)
<1>3. cells \subseteq Cells
  BY Zenon, <1>1, ResolvedSpan
<1>4. cells \cap Determined = {} /\ instructionSlots' = instructionSlots \cup cells
  BY Zenon, <1>2
<1> HIDE DEF cells
<1>5. Determined' = Determined
  BY Zenon, <1>2 DEF Determined
<1>6. \A c \in cells : initialImages[c] = Undetermined /\ bytes[c] = Undetermined
  BY Zenon, <1>3, <1>4 DEF MemoryInv, CellsAreSound, WithinBudget, Determined
<1>7. MemoryTypes' /\ IsFiniteSet(Determined') /\ \A a \in acceptances' : a.cells \subseteq instructionSlots'
  BY Zenon, <1>2, <1>3, <1>4, <1>5 DEF MemoryInv, MemoryTypes
<1>8. VersionsNameCommits' /\ WithinBudget' /\ AcceptancesAreCurrent'
  <2>1. VersionsNameCommits'
    BY Zenon, <1>2, <1>5 DEF MemoryInv, CellsAreSound, VersionsNameCommits
  <2>2. WithinBudget'
    BY Zenon, <1>2, <1>5 DEF MemoryInv, CellsAreSound, WithinBudget
  <2>3. AcceptancesAreCurrent'
    BY Zenon, <1>2, <1>5 DEF MemoryInv, CellsAreSound, AcceptancesAreCurrent
  <2> QED BY Zenon, <2>1, <2>2, <2>3
<1>9. SlotsAreFilledByWriters'
  BY Zenon, <1>2, <1>4, <1>5, <1>6 DEF MemoryInv, CellsAreSound, SlotsAreFilledByWriters
<1>10. Worth' = [c \in Cells |-> IF c \in cells \ instructionSlots THEN Undetermined ELSE Worth[c]]
  <2>1. Worth' = [c \in Cells |-> IF bytes[c] # Undetermined THEN bytes[c].value
                                  ELSE IF c \in instructionSlots' THEN Undetermined
                                  ELSE InitialByte[<<generation, c>>]]
    BY Zenon, <1>2 DEF Worth
  <2>2. ASSUME NEW c \in Cells
        PROVE  (IF bytes[c] # Undetermined THEN bytes[c].value
                ELSE IF c \in instructionSlots' THEN Undetermined ELSE InitialByte[<<generation, c>>])
               = IF c \in cells \ instructionSlots THEN Undetermined ELSE Worth[c]
    BY Zenon, <1>4, <1>6 DEF Worth
  <2> QED BY Zenon, <2>1, <2>2
<1>11. Eager!Reserve(cells)
  BY Zenon, <1>2, <1>4, <1>6, <1>10 DEF Eager!Reserve
<1> QED BY Zenon, <1>3, <1>7, <1>8, <1>9, <1>11 DEF MemoryInv, CellsAreSound, Eager!Next

\* cold_reset: only image bytes have cells, and they had them before.
LEMMA ColdResetKeeps ==
  ASSUME MemoryInv, ColdReset
  PROVE  MemoryInv' /\ Eager!Next
<1>1. /\ generation < MaxGeneration /\ generation' = generation + 1
      /\ bytes' = [c \in Cells |-> IF initialImages[c] = Undetermined THEN Undetermined
                      ELSE ByteCell(initialImages[c], <<generation + 1, 0>>, "INITIAL_IMAGE")]
      /\ commitSequences' = [r \in Regions |-> 0] /\ acceptances' = {}
      /\ initialImages' = initialImages /\ instructionSlots' = instructionSlots /\ reply' = reply
  BY Zenon DEF ColdReset
<1>2. MemoryTypes /\ IsFiniteSet(Determined) /\ WithinBudget /\ SlotsAreFilledByWriters
      /\ MaxGeneration \in Nat /\ MaxCommits \in Nat /\ MaxInitializedBytes \in Nat /\ Undetermined \notin ByteCells
  BY Zenon, MemoryConstants DEF MemoryInv, CellsAreSound
<1>3. \A v \in Values : ByteCell(v, <<generation + 1, 0>>, "INITIAL_IMAGE") \in ByteCells
  <2>1. <<generation + 1, 0>> \in Versions
    BY <1>1, <1>2 DEF MemoryTypes, Versions
  <2> QED BY Zenon, <2>1 DEF ByteCell, ByteCells, WriterKinds
<1>4. MemoryTypes'
  <2>1. bytes' \in [Cells -> ByteCells \cup {Undetermined}]
    BY Zenon, <1>1, <1>2, <1>3 DEF MemoryTypes
  <2> QED BY <1>1, <1>2, <2>1 DEF MemoryTypes
<1>5. \A c \in Cells : /\ c \in Determined' <=> initialImages[c] # Undetermined
                       /\ c \in Determined' => bytes'[c] = ByteCell(initialImages[c], <<generation + 1, 0>>, "INITIAL_IMAGE")
  BY Zenon, <1>1, <1>2, <1>3 DEF MemoryTypes, Determined
<1>6. Determined' \subseteq Determined /\ Determined' \subseteq Cells
  BY Zenon, <1>2, <1>5 DEF WithinBudget, Determined
<1>7. IsFiniteSet(Determined') /\ WithinBudget'
  <2>1. IsFiniteSet(Determined') /\ Cardinality(Determined') <= Cardinality(Determined)
    BY Zenon, <1>2, <1>6, FS_Subset
  <2>2. Cardinality(Determined') \in Nat /\ Cardinality(Determined) \in Nat
    BY Zenon, <1>2, <2>1, FS_CardinalityType
  <2>3. Cardinality(Determined') <= MaxInitializedBytes
    BY <1>2, <2>1, <2>2 DEF WithinBudget
  <2> QED BY Zenon, <1>1, <1>5, <2>1, <2>3 DEF WithinBudget
<1>8. \A c \in Determined' : /\ bytes'[c].value = initialImages[c]
                             /\ bytes'[c].version = <<generation + 1, 0>>
                             /\ bytes'[c].writer_kind = "INITIAL_IMAGE"
  <2> SUFFICES ASSUME NEW c \in Determined'
               PROVE  /\ bytes'[c].value = initialImages[c]
                      /\ bytes'[c].version = <<generation + 1, 0>>
                      /\ bytes'[c].writer_kind = "INITIAL_IMAGE"
    BY Zenon
  <2>1. bytes'[c] = [value |-> initialImages[c], version |-> <<generation + 1, 0>>, writer_kind |-> "INITIAL_IMAGE"]
    BY Zenon, <1>5, <1>6 DEF ByteCell
  <2> QED BY <2>1
<1>9. VersionsNameCommits'
  <2>1. \A c \in Determined' : bytes'[c].version[1] = generation' /\ bytes'[c].version[2] = 0
    BY <1>1, <1>8
  <2>2. \A c \in Determined' : commitSequences'[c[1]] = 0
    BY Zenon, <1>1, <1>6, CellParts
  <2> QED BY <1>8, <2>1, <2>2 DEF VersionsNameCommits
<1>10. SlotsAreFilledByWriters'
  BY Zenon, <1>1, <1>2, <1>5 DEF SlotsAreFilledByWriters, MemoryTypes
<1>11. AcceptancesAreCurrent' /\ \A a \in acceptances' : a.cells \subseteq instructionSlots'
  BY Zenon, <1>1 DEF AcceptancesAreCurrent
<1>12. Worth' = Eager!Fresh(generation + 1)
  <2>1. Worth' = [c \in Cells |-> IF bytes'[c] # Undetermined THEN bytes'[c].value
                                  ELSE IF c \in instructionSlots THEN Undetermined
                                  ELSE InitialByte[<<generation + 1, c>>]]
    BY Zenon, <1>1 DEF Worth
  <2>2. \A c \in Cells : /\ bytes'[c] # Undetermined <=> initialImages[c] # Undetermined
                         /\ bytes'[c] # Undetermined => bytes'[c].value = initialImages[c]
    BY Zenon, <1>5, <1>8 DEF Determined
  <2> QED BY Zenon, <2>1, <2>2 DEF Eager!Fresh
<1>13. Eager!ColdReset
  BY Zenon, <1>1, <1>12 DEF Eager!ColdReset
<1> QED BY Zenon, <1>4, <1>7, <1>9, <1>10, <1>11, <1>13 DEF MemoryInv, CellsAreSound, Eager!Next

LEMMA MemoryInit == Init => MemoryInv /\ Eager!Init
<1> SUFFICES ASSUME Init PROVE MemoryInv /\ Eager!Init
  BY Zenon
<1>1. /\ bytes = [c \in Cells |-> Undetermined] /\ initialImages = [c \in Cells |-> Undetermined]
      /\ instructionSlots = {} /\ commitSequences = [r \in Regions |-> 0]
      /\ generation = 0 /\ acceptances = {} /\ reply = <<>>
  BY Zenon DEF Init, Empty
<1>2. MemoryTypes
  BY <1>1, MemoryConstants DEF MemoryTypes
<1>3. Determined = {}
  BY Zenon, <1>1 DEF Determined
<1>4. IsFiniteSet(Determined) /\ Cardinality(Determined) = 0
  BY Zenon, <1>3, FS_EmptySet
<1>5. CellsAreSound
  BY <1>1, <1>3, <1>4, MemoryConstants
     DEF CellsAreSound, VersionsNameCommits, WithinBudget, SlotsAreFilledByWriters, AcceptancesAreCurrent
<1>6. Worth = [c \in Cells |-> InitialByte[<<0, c>>]]
  BY Zenon, <1>1 DEF Worth
<1> QED BY Zenon, <1>1, <1>2, <1>4, <1>5, <1>6 DEF MemoryInv, Eager!Init

LEMMA MemoryStep == MemoryInv /\ [Next]_vars => MemoryInv' /\ [Eager!Next]_(Eager!vars)
<1> SUFFICES ASSUME MemoryInv, [Next]_vars PROVE MemoryInv' /\ [Eager!Next]_(Eager!vars)
  BY Zenon
<1>1. Addresses \subseteq Nat /\ Widths \subseteq Nat \ {0}
  BY Zenon, AddressNat, MemoryConstants
<1>2. CASE UNCHANGED vars
  BY Zenon, <1>2, CellsUnchanged DEF vars, Eager!vars
<1>3. CASE WarmReset
  BY Zenon, <1>3, CellsUnchanged DEF WarmReset, Eager!vars
<1>4. CASE ColdReset
  BY Zenon, <1>4, ColdResetKeeps
<1>5. ASSUME NEW address \in Addresses, DeclareInstructionSlots(address, 1)
      PROVE  MemoryInv' /\ Eager!Next
  BY Zenon, <1>1, <1>5, DeclareKeeps
<1>6. ASSUME NEW address \in Addresses, NEW n \in Widths, Read(address, n)
      PROVE  MemoryInv' /\ Eager!Next
  BY Zenon, <1>1, <1>6, ReadKeeps
<1>7. ASSUME NEW address \in Addresses, NEW n \in Widths, NEW value \in DataFor(address, n),
             \/ Preload(address, n, value) \/ ReinstallImage(address, n, value)
             \/ AcceptInstructions(address, n, value)
             \/ \E enabled \in Lanes(address, n) : Write(address, n, enabled, value)
      PROVE  MemoryInv' /\ Eager!Next
  <2>1. address \in Nat /\ n \in Nat \ {0}
    BY Zenon, <1>1
  <2> QED BY Zenon, <1>7, <2>1, PreloadKeeps, ReinstallKeeps, AcceptKeeps, WriteKeeps
<1> QED BY Zenon, <1>2, <1>3, <1>4, <1>5, <1>6, <1>7 DEF Next

\* PersistentMemory: every byte's version names a commit of this generation, the cells stay
\* within max_initialized_bytes, reserved words hold only what a writer put there, and an
\* acceptance that was not revoked is current, after any sequence of calls.
THEOREM MemoryCellsAreSound == Spec => []CellsAreSound
<1>1. MemoryInv => CellsAreSound
  BY Zenon DEF MemoryInv
<1> QED BY <1>1, MemoryInit, MemoryStep, PTL DEF Spec

\* PersistentMemory.read: that bytes are materialized on their first read cannot be told from
\* outside; through every window the memory is one whose bytes had their values all along.
THEOREM MemoryActsAsPlain == Spec => ActsAsPlainMemory
BY MemoryInit, MemoryStep, PTL DEF Spec, ActsAsPlainMemory, Eager!Spec

-----------------------------------------------------------------------------
(***************************************************************************)
(* The leases that processes hold are recorded, and an exclusive build is  *)
(* alone, for any number of processes, threads, deaths and restarts.       *)
(*                                                                         *)
(* HoldersCovered speaks of the published file only.  It is inductive once *)
(* the draft of the thread that has the flock is known to be as good as    *)
(* the file, and a lease on its way to its caller to be in the draft, or   *)
(* in the file.                                                            *)
(***************************************************************************)

Fields == {"leases", "bytes", "builds", "maxBuilds", "history"}
Leases ==
  [token : Nat, bytes : Estimates, build : BOOLEAN, pid : Pids, start : Nat \cup {None}, owner : Pids \X Nat]

BuildAlone(S) == \A k, l \in S : k.build => k = l
Sound(s) ==
  /\ DOMAIN s = Fields
  /\ s.leases \subseteq Leases /\ IsFiniteSet(s.leases)
  /\ s.builds = Builds(s.leases)
  /\ BuildAlone(s.leases)

\* l is a lease of the process that has its pid now.
Mine(l, p) == l.pid = p /\ l.start \in {None, birth[p]} /\ running[p] = "running"
Covers(S) == \A p \in Pids : held[p] \subseteq S

TokenTypes ==
  /\ lock \in Threads \cup {None}
  /\ pc \in [Threads -> {"idle", "waiting", "write", "return"}]
  /\ call \in [Threads -> Requests \cup {NoCall} \cup [op : {"granted"}, lease : Leases]]
  /\ held \in [Pids -> SUBSET Leases]
  /\ granted \in Nat
  /\ running \in [Pids -> {"running", "zombie", "gone", "foreign"}]
  /\ birth \in [Pids -> Nat]
Locked ==
  \A t \in Threads :
    /\ pc[t] \in {"write", "return"} <=> lock = t
    /\ pc[t] # "idle" => running[Home[t]] = "running"
HeldByTheLiving == \A p \in Pids : \A l \in held[p] : Mine(l, p)
FileGood == Sound(file) /\ Covers(file.leases)
DraftGood == \A t \in Threads : pc[t] = "write" => Sound(draft) /\ Covers(draft.leases)
OnItsWay ==
  \A t \in Threads : call[t].op = "granted" =>
    /\ pc[t] \in {"write", "return"}
    /\ Mine(call[t].lease, Home[t])
    /\ pc[t] = "write" => call[t].lease \in draft.leases
    /\ pc[t] = "return" => call[t].lease \in file.leases

TokenInv == TokenTypes /\ Locked /\ HeldByTheLiving /\ FileGood /\ DraftGood /\ OnItsWay

\* The count of builds is zero only if no lease is for a build.
LEMMA NoBuilds ==
  ASSUME NEW S, IsFiniteSet(S), ~(Builds(S) > 0)
  PROVE  \A l \in S : ~l.build
<1> DEFINE B == {l \in S : l.build}
<1>1. IsFiniteSet(B)
  BY Zenon, FS_Subset
<1>2. Cardinality(B) \in Nat
  BY Zenon, <1>1, FS_CardinalityType
<1>3. Cardinality(B) = 0
  BY <1>2 DEF Builds
<1>4. B = {}
  BY Zenon, <1>1, <1>3, FS_EmptySet
<1> QED BY Zenon, <1>4

\* A new lease counts as one build, or as none.
LEMMA BuildAdded ==
  ASSUME NEW S, IsFiniteSet(S), NEW l, l \notin S, l.build \in BOOLEAN
  PROVE  /\ IsFiniteSet(S \cup {l})
         /\ Builds(S \cup {l}) = Builds(S) + (IF l.build THEN 1 ELSE 0)
<1> DEFINE B == {k \in S : k.build}
           C == {k \in S \cup {l} : k.build}
<1>1. IsFiniteSet(B) /\ IsFiniteSet(S \cup {l})
  BY Zenon, FS_Subset, FS_AddElement
<1>2. Cardinality(B) \in Nat
  BY Zenon, <1>1, FS_CardinalityType
<1>3. Builds(S) = Cardinality(B) /\ Builds(S \cup {l}) = Cardinality(C)
  BY Zenon DEF Builds
<1>4. CASE l.build
  <2>1. C = B \cup {l}
    BY Zenon, <1>4
  <2>2. Cardinality(B \cup {l}) = Cardinality(B) + 1
    BY Zenon, <1>1, FS_AddElement
  <2> HIDE DEF B, C
  <2> QED BY Zenon, <1>1, <1>4, <1>3, <2>1, <2>2
<1>5. CASE ~l.build
  <2>1. C = B
    BY Zenon, <1>5
  <2> HIDE DEF B, C
  <2> QED BY <1>1, <1>2, <1>5, <1>3, <2>1
<1> QED BY Zenon, <1>4, <1>5

\* A lease that goes takes its build with it.
LEMMA BuildRemoved ==
  ASSUME NEW S, IsFiniteSet(S), NEW l \in S, l.build \in BOOLEAN
  PROVE  /\ IsFiniteSet(S \ {l})
         /\ Builds(S \ {l}) = Builds(S) - (IF l.build THEN 1 ELSE 0)
<1> DEFINE B == {k \in S : k.build}
           C == {k \in S \ {l} : k.build}
<1>1. IsFiniteSet(B) /\ IsFiniteSet(S \ {l})
  BY Zenon, FS_Subset
<1>2. Cardinality(B) \in Nat
  BY Zenon, <1>1, FS_CardinalityType
<1>3. Builds(S) = Cardinality(B) /\ Builds(S \ {l}) = Cardinality(C)
  BY Zenon DEF Builds
<1>4. CASE l.build
  <2>1. C = B \ {l} /\ l \in B
    BY Zenon, <1>4
  <2>2. Cardinality(B \ {l}) = Cardinality(B) - 1
    BY Zenon, <1>1, <2>1, FS_RemoveElement
  <2> HIDE DEF B, C
  <2> QED BY Zenon, <1>1, <1>4, <1>3, <2>1, <2>2
<1>5. CASE ~l.build
  <2>1. C = B
    BY Zenon, <1>5
  <2> HIDE DEF B, C
  <2> QED BY <1>1, <1>2, <1>5, <1>3, <2>1
<1> QED BY Zenon, <1>4, <1>5

\* Reclaiming keeps a state sound, and takes away no lease of a living process.
LEMMA ReclaimSound ==
  ASSUME TokenInv
  PROVE  /\ Sound(Reclaim(file)) /\ Covers(Reclaim(file).leases)
         /\ Reclaim(file).leases \subseteq file.leases
<1> DEFINE stale == {l \in file.leases : ~PidMatches(l)}
           kept == file.leases \ stale
           s == Reclaim(file)
<1>1. Sound(file) /\ Covers(file.leases) /\ HeldByTheLiving /\ held \in [Pids -> SUBSET Leases]
  BY Zenon DEF TokenInv, FileGood, TokenTypes
<1>2. Covers(kept)
  BY <1>1 DEF Covers, HeldByTheLiving, Mine, PidMatches
<1>3. CASE stale = {}
  BY Zenon, <1>1, <1>3 DEF Reclaim
<1>4. CASE stale # {}
  <2>1. s = [file EXCEPT !.leases = kept, !.bytes = Bytes(kept), !.builds = Builds(kept), !.history = Ended(@, stale)]
    BY Zenon, <1>4 DEF Reclaim
  <2>2. DOMAIN s = Fields /\ s.leases = kept /\ s.builds = Builds(kept)
    BY Zenon, <1>1, <2>1 DEF Sound, Fields
  <2>3. kept \subseteq Leases /\ IsFiniteSet(kept) /\ BuildAlone(kept)
    BY Zenon, <1>1, FS_Subset DEF Sound, BuildAlone
  <2> QED BY Zenon, <1>2, <2>2, <2>3 DEF Sound
<1> QED BY Zenon, <1>3, <1>4

\* A thread takes the flock and is to publish s, or nothing: the file is as it was, and
\* the rest follows from what is said of s and of the call.
LEMMA PrepareKeeps ==
  ASSUME TokenInv, NEW t \in Threads, NEW s, NEW next \in {"write", "return"},
         Locks(t), Prepare(t, s, next),
         held' \in [Pids -> SUBSET Leases], \A p \in Pids : held'[p] \subseteq held[p],
         granted' \in Nat,
         next = "write" => Sound(s) /\ \A p \in Pids : held'[p] \subseteq s.leases,
         call' \in [Threads -> Requests \cup {NoCall} \cup [op : {"granted"}, lease : Leases]],
         \A u \in Threads \ {t} : call'[u] = call[u],
         call'[t].op = "granted" => /\ next = "write"
                                    /\ Mine(call'[t].lease, Home[t])
                                    /\ call'[t].lease \in s.leases
  PROVE  TokenInv'
<1>1. TokenTypes /\ Locked /\ HeldByTheLiving /\ FileGood /\ OnItsWay
  BY Zenon DEF TokenInv
<1>2. lock = None /\ None \notin Threads /\ running[Home[t]] = "running" /\ Home \in [Threads -> Pids]
  BY Zenon, TokenConstants DEF Locks
<1>3. \A u \in Threads : pc[u] \notin {"write", "return"}
  BY Zenon, <1>1, <1>2 DEF Locked
<1>4. /\ lock' = t /\ pc' = [pc EXCEPT ![t] = next]
      /\ draft' = IF next = "write" THEN s ELSE EmptyState
      /\ file' = file /\ running' = running /\ birth' = birth
  BY Zenon DEF Prepare, procVars
<1>5. TokenTypes'
  BY Zenon, <1>1, <1>4 DEF TokenTypes
<1>6. Locked'
  BY ZenonT(60), <1>1, <1>2, <1>3, <1>4 DEF Locked, TokenTypes
<1>7. HeldByTheLiving'
  BY Zenon, <1>1, <1>4 DEF HeldByTheLiving, Mine
<1>8. FileGood'
  BY Zenon, <1>1, <1>4 DEF FileGood, Sound, Covers, BuildAlone
<1>9. DraftGood'
  <2> SUFFICES ASSUME NEW u \in Threads, pc'[u] = "write"
               PROVE  Sound(draft') /\ Covers(draft.leases)'
    BY Zenon DEF DraftGood
  <2>1. u = t /\ next = "write"
    BY Zenon, <1>1, <1>3, <1>4 DEF TokenTypes
  <2>2. draft' = s
    BY Zenon, <1>4, <2>1
  <2> QED BY Zenon, <2>1, <2>2 DEF Covers
<1>10. OnItsWay'
  <2> SUFFICES ASSUME NEW u \in Threads, call'[u].op = "granted"
               PROVE  /\ pc'[u] \in {"write", "return"}
                      /\ Mine(call[u].lease, Home[u])'
                      /\ pc'[u] = "write" => call'[u].lease \in draft'.leases
                      /\ pc'[u] = "return" => call'[u].lease \in file'.leases
    BY Zenon DEF OnItsWay
  <2>1. u = t
    BY Zenon, <1>1, <1>3 DEF OnItsWay
  <2>2. next = "write" /\ pc'[u] = "write" /\ draft' = s
    BY Zenon, <1>1, <1>4, <2>1 DEF TokenTypes
  <2> QED BY Zenon, <1>4, <2>1, <2>2 DEF Mine
<1> QED BY Zenon, <1>5, <1>6, <1>7, <1>8, <1>9, <1>10 DEF TokenInv

\* An attempt to acquire keeps the invariant: it adds a lease only to a state without
\* builds, and a build only to an empty one.
LEMMA TryAcquireKeeps ==
  ASSUME TokenInv, NEW t \in Threads, NEW c \in Requests, TryAcquire(t, c)
  PROVE  TokenInv'
<1> DEFINE s == Reclaim(file)
<1>1. Sound(s) /\ Covers(s.leases)
  BY Zenon, ReclaimSound
<1>2. TokenTypes /\ Home[t] \in Pids /\ running[Home[t]] = "running" /\ Locks(t)
  BY Zenon, TokenConstants DEF TokenInv, TryAcquire, Locks
<1>3. held' = held
  BY Zenon DEF TryAcquire
<1>4. CASE /\ Unavailable(s, c) /\ WriteIfDirty(t, s)
           /\ call' = [call EXCEPT ![t] = c] /\ granted' = granted
  <2>1. PICK next \in {"write", "return"} : Prepare(t, s, next)
    BY Zenon, <1>4 DEF WriteIfDirty
  <2>2. call'[t] = c /\ c.op = "acquire"
    BY Zenon, <1>2, <1>4 DEF TokenTypes, Requests
  <2>3. call' \in [Threads -> Requests \cup {NoCall} \cup [op : {"granted"}, lease : Leases]]
    BY Zenon, <1>2, <1>4 DEF TokenTypes
  <2>4. \A p \in Pids : held'[p] \subseteq s.leases
    BY Zenon, <1>1, <1>3 DEF Covers
  <2>5. held' \in [Pids -> SUBSET Leases] /\ granted' \in Nat
    BY Zenon, <1>2, <1>3, <1>4 DEF TokenTypes
  <2>6. \A u \in Threads \ {t} : call'[u] = call[u]
    BY Zenon, <1>2, <1>4 DEF TokenTypes
  <2>7. call'[t].op # "granted"
    BY Zenon, <2>2
  <2> HIDE DEF s
  <2> QED BY ZenonT(60), <1>1, <1>2, <1>3, <2>1, <2>3, <2>4, <2>5, <2>6, <2>7, PrepareKeeps
<1>5. ASSUME ~Unavailable(s, c), NEW start \in {birth[Home[t]], None}, granted' = granted + 1,
             LET l == Record(t, c, start)
                 builds == s.builds + (IF l.build THEN 1 ELSE 0)
             IN  /\ Prepare(t, [s EXCEPT !.leases = @ \cup {l}, !.bytes = @ + l.bytes,
                                         !.builds = builds, !.maxBuilds = IF @ < builds THEN builds ELSE @], "write")
                 /\ call' = [call EXCEPT ![t] = [op |-> "granted", lease |-> l]]
      PROVE  TokenInv'
  <2> DEFINE l == Record(t, c, start)
             builds == s.builds + (IF l.build THEN 1 ELSE 0)
             d == [s EXCEPT !.leases = @ \cup {l}, !.bytes = @ + l.bytes,
                            !.builds = builds, !.maxBuilds = IF @ < builds THEN builds ELSE @]
  <2>1. l \in Leases /\ l.pid = Home[t] /\ l.start = start /\ l.build = c.build
    BY <1>2, TokenConstants DEF Record, Leases, TokenTypes, Requests
  <2>2. Prepare(t, d, "write") /\ call' = [call EXCEPT ![t] = [op |-> "granted", lease |-> l]]
    BY Zenon, <1>5
  <2>3. DOMAIN d = Fields /\ d.leases = s.leases \cup {l} /\ d.builds = builds
    <3> HIDE DEF s, l, builds
    <3> QED BY Zenon, <1>1 DEF Sound, Fields
  <2>4. (\A k \in s.leases : ~k.build) /\ (l.build => s.leases = {})
    <3>1. ~(s.builds > 0) /\ (c.build => s.leases = {})
      BY Zenon, <1>5 DEF Unavailable
    <3>2. ~(Builds(s.leases) > 0) /\ IsFiniteSet(s.leases)
      BY Zenon, <1>1, <3>1 DEF Sound
    <3> HIDE DEF s, l
    <3> QED BY Zenon, <2>1, <3>1, <3>2, NoBuilds
  <2>5. Sound(d) /\ l \in d.leases
    <3>1. s.leases \subseteq Leases /\ IsFiniteSet(s.leases) /\ s.builds = Builds(s.leases)
      BY Zenon, <1>1 DEF Sound
    <3>2. l.build \in BOOLEAN
      <4> HIDE DEF l
      <4> QED BY Zenon, <2>1 DEF Leases
    <3>3. IsFiniteSet(s.leases \cup {l}) /\ Builds(s.leases \cup {l}) = builds
      <4> HIDE DEF s, l
      <4>1. CASE l \notin s.leases
        BY Zenon, <3>1, <3>2, <4>1, BuildAdded
      <4>2. CASE l \in s.leases
        <5>1. ~l.build /\ s.leases \cup {l} = s.leases
          BY Zenon, <2>4, <4>2
        <5>2. Builds(s.leases) \in Nat
          <6>1. IsFiniteSet({k \in s.leases : k.build})
            BY Zenon, <3>1, FS_Subset
          <6> QED BY Zenon, <6>1, FS_CardinalityType DEF Builds
        <5>3. (IF l.build THEN 1 ELSE 0) = 0
          BY Zenon, <5>1
        <5>4. builds = Builds(s.leases)
          BY <3>1, <5>2, <5>3
        <5> HIDE DEF builds, d
        <5> QED BY Zenon, <3>1, <5>1, <5>4
      <4> QED BY Zenon, <4>1, <4>2
    <3>4. BuildAlone(s.leases \cup {l})
      <4> HIDE DEF s, l
      <4> QED BY Zenon, <2>4 DEF BuildAlone
    <3> HIDE DEF s, l, builds, d
    <3> QED BY Zenon, <2>1, <2>3, <3>1, <3>3, <3>4 DEF Sound
  <2>6. \A p \in Pids : held'[p] \subseteq d.leases
    <3> HIDE DEF s, l, d
    <3> QED BY Zenon, <1>1, <1>3, <2>3 DEF Covers
  <2>7. Mine(l, Home[t])
    <3> HIDE DEF l
    <3> QED BY Zenon, <1>2, <2>1 DEF Mine
  <2>8. /\ call' \in [Threads -> Requests \cup {NoCall} \cup [op : {"granted"}, lease : Leases]]
        /\ call'[t].lease = l /\ \A u \in Threads \ {t} : call'[u] = call[u]
    <3> HIDE DEF l
    <3> QED BY Zenon, <1>2, <2>1, <2>2 DEF TokenTypes
  <2>9. held' \in [Pids -> SUBSET Leases] /\ granted' \in Nat
    BY <1>2, <1>3, <1>5 DEF TokenTypes
  <2> HIDE DEF s, l, d, builds
  <2> QED BY ZenonT(60), <1>2, <1>3, <2>2, <2>5, <2>6, <2>7, <2>8, <2>9, PrepareKeeps
<1> QED BY Zenon, <1>4, <1>5 DEF TryAcquire

\* A release keeps the invariant: the lease it takes out of the file is one that only the
\* releasing process can hold.
LEMMA TryReleaseKeeps ==
  ASSUME TokenInv, NEW t \in Threads, NEW l, TryRelease(t, l)
  PROVE  TokenInv'
<1> DEFINE s == Reclaim(file)
           d == [s EXCEPT !.leases = @ \ {l}, !.bytes = @ - l.bytes,
                          !.builds = @ - (IF l.build THEN 1 ELSE 0), !.history = Ended(@, {l})]
<1>1. Sound(s) /\ Covers(s.leases)
  BY Zenon, ReclaimSound
<1>2. TokenTypes /\ HeldByTheLiving /\ OnItsWay /\ Home[t] \in Pids /\ Locks(t)
  BY Zenon, TokenConstants DEF TokenInv, TryRelease
<1>3. call' = call /\ granted' = granted /\ held' = [held EXCEPT ![Home[t]] = @ \ {l}]
  BY Zenon DEF TryRelease
<1>4. held' \in [Pids -> SUBSET Leases] /\ \A p \in Pids : held'[p] \subseteq held[p]
  BY Zenon, <1>2, <1>3 DEF TokenTypes
<1>5. call[t].op # "granted"
  BY Zenon, <1>2 DEF Locks, OnItsWay
<1>6. CASE l \in s.leases /\ LeaseMatches(l, t) /\ Prepare(t, d, "write")
  <2>1. l \in Leases /\ l.build \in BOOLEAN
    <3> HIDE DEF s
    <3> QED BY Zenon, <1>1, <1>6 DEF Sound, Leases
  <2>2. DOMAIN d = Fields /\ d.leases = s.leases \ {l} /\ d.builds = s.builds - (IF l.build THEN 1 ELSE 0)
    <3> HIDE DEF s
    <3> QED BY Zenon, <1>1 DEF Sound, Fields
  <2>3. IsFiniteSet(s.leases \ {l}) /\ Builds(s.leases \ {l}) = d.builds
    <3>1. IsFiniteSet(s.leases) /\ s.builds = Builds(s.leases)
      BY Zenon, <1>1 DEF Sound
    <3> HIDE DEF s, d
    <3> QED BY Zenon, <1>6, <2>1, <2>2, <3>1, BuildRemoved
  <2>4. Sound(d)
    <3>1. s.leases \subseteq Leases /\ BuildAlone(s.leases)
      BY Zenon, <1>1 DEF Sound
    <3>2. BuildAlone(s.leases \ {l})
      BY Zenon, <3>1 DEF BuildAlone
    <3> HIDE DEF s, d
    <3> QED BY Zenon, <2>2, <2>3, <3>1, <3>2 DEF Sound
  <2>5. \A p \in Pids : held'[p] \subseteq d.leases
    <3> SUFFICES ASSUME NEW p \in Pids, NEW k \in held'[p] PROVE k \in d.leases
      BY Zenon
    <3>1. k \in held[p] /\ k \in s.leases /\ k.pid = p
      BY Zenon, <1>1, <1>2, <1>4 DEF Covers, HeldByTheLiving, Mine
    <3>2. k # l
      BY Zenon, <1>2, <1>3, <1>6, <3>1 DEF LeaseMatches, TokenTypes
    <3> HIDE DEF s, d
    <3> QED BY Zenon, <2>2, <3>1, <3>2
  <2> HIDE DEF s, d
  <2> QED BY Zenon, <1>2, <1>3, <1>4, <1>5, <1>6, <2>4, <2>5, PrepareKeeps DEF TokenTypes
<1>7. CASE Prepare(t, s, "return")
  <2> HIDE DEF s
  <2> QED BY Zenon, <1>2, <1>3, <1>4, <1>5, <1>7, PrepareKeeps DEF TokenTypes
<1> QED BY Zenon, <1>6, <1>7 DEF TryRelease

\* A snapshot publishes at most what it reclaimed.
LEMMA TrySnapshotKeeps ==
  ASSUME TokenInv, NEW t \in Threads, TrySnapshot(t)
  PROVE  TokenInv'
<1> DEFINE s == Reclaim(file)
<1>1. Sound(s) /\ Covers(s.leases)
  BY Zenon, ReclaimSound
<1>2. TokenTypes /\ OnItsWay /\ Locks(t)
  BY Zenon DEF TokenInv, TrySnapshot
<1>3. call' = call /\ granted' = granted /\ held' = held
  BY Zenon DEF TrySnapshot
<1>4. PICK next \in {"write", "return"} : Prepare(t, s, next)
  BY Zenon DEF TrySnapshot, WriteIfDirty
<1>5. call[t].op # "granted"
  BY Zenon, <1>2 DEF Locks, OnItsWay
<1> HIDE DEF s
<1> QED BY Zenon, <1>1, <1>2, <1>3, <1>4, <1>5, PrepareKeeps DEF TokenTypes, Covers

\* The rename puts the draft in the place of the file; a failure leaves the file.
LEMMA WriteStateKeeps ==
  ASSUME TokenInv, NEW t \in Threads, WriteState(t)
  PROVE  TokenInv'
<1>1. TokenTypes /\ Locked /\ HeldByTheLiving /\ FileGood /\ DraftGood /\ OnItsWay /\ lock \in Threads \cup {None}
  BY Zenon DEF TokenInv, TokenTypes
<1>2. /\ pc[t] = "write" /\ pc' = [pc EXCEPT ![t] = "return"] /\ lock' = lock /\ held' = held
      /\ granted' = granted /\ running' = running /\ birth' = birth
      /\ \/ file' = draft /\ call' = call
         \/ file' = file /\ call' = [call EXCEPT ![t] = NoCall]
  BY Zenon DEF WriteState, procVars
<1>3. lock = t /\ \A u \in Threads \ {t} : pc[u] \notin {"write", "return"}
  BY <1>1, <1>2 DEF Locked
<1>4. \A u \in Threads : pc'[u] # "write"
  BY Zenon, <1>1, <1>2, <1>3 DEF TokenTypes
<1>5. TokenTypes'
  BY Zenon, <1>1, <1>2 DEF TokenTypes
<1>6. Locked'
  BY ZenonT(60), <1>1, <1>2, <1>3 DEF Locked, TokenTypes
<1>7. HeldByTheLiving'
  BY Zenon, <1>1, <1>2 DEF HeldByTheLiving, Mine
<1>8. FileGood'
  BY Zenon, <1>1, <1>2 DEF FileGood, DraftGood, Covers
<1>9. DraftGood'
  BY Zenon, <1>4 DEF DraftGood
<1>10. OnItsWay'
  <2> SUFFICES ASSUME NEW u \in Threads, call'[u].op = "granted"
               PROVE  pc'[u] = "return" /\ Mine(call[u].lease, Home[u])' /\ call'[u].lease \in file'.leases
    BY Zenon DEF OnItsWay
  <2>1. call[u].op = "granted" /\ call'[u] = call[u] /\ (u = t => file' = draft)
    BY <1>1, <1>2 DEF TokenTypes, NoCall
  <2>2. u = t
    BY Zenon, <1>1, <1>3, <2>1 DEF OnItsWay
  <2> QED BY ZenonT(60), <1>1, <1>2, <2>1, <2>2 DEF OnItsWay, Mine, TokenTypes
<1> QED BY Zenon, <1>5, <1>6, <1>7, <1>8, <1>9, <1>10 DEF TokenInv

\* A granted lease reaches its caller while it is in the file.
LEMMA ReturnKeeps ==
  ASSUME TokenInv, NEW t \in Threads, Return(t)
  PROVE  TokenInv'
<1>1. TokenTypes /\ Locked /\ HeldByTheLiving /\ FileGood /\ DraftGood /\ OnItsWay /\ Home \in [Threads -> Pids] /\ None \notin Threads
  BY Zenon, TokenConstants DEF TokenInv
<1>2. /\ pc[t] = "return" /\ lock' = None
      /\ granted' = granted /\ running' = running /\ birth' = birth /\ file' = file /\ draft' = draft
      /\ held' = IF call[t].op = "granted" THEN [held EXCEPT ![Home[t]] = @ \cup {call[t].lease}] ELSE held
  BY Zenon DEF Return, procVars
<1>3. lock = t /\ \A u \in Threads \ {t} : pc[u] \notin {"write", "return"}
  BY <1>1, <1>2 DEF Locked
<1>4. \E q \in {"idle", "waiting"} : pc' = [pc EXCEPT ![t] = q]
  BY Zenon DEF Return
<1>5. call' \in [Threads -> Requests \cup {NoCall} \cup [op : {"granted"}, lease : Leases]]
      /\ (\A u \in Threads \ {t} : call'[u] = call[u]) /\ call'[t].op # "granted"
  BY <1>1 DEF Return, TokenTypes, NoCall
<1>6. call[t].op = "granted" => call[t].lease \in Leases /\ call[t].lease \in file.leases /\ Mine(call[t].lease, Home[t])
  BY Zenon, <1>1, <1>2 DEF OnItsWay, FileGood, Sound
<1>7. \A u \in Threads : pc'[u] \notin {"write", "return"} /\ call'[u].op # "granted"
  BY Zenon, <1>1, <1>3, <1>4, <1>5 DEF TokenTypes, OnItsWay
<1>8. TokenTypes'
  BY Zenon, <1>1, <1>2, <1>4, <1>5, <1>6 DEF TokenTypes
<1>9. Locked'
  BY <1>1, <1>2, <1>3, <1>4, <1>7 DEF Locked, TokenTypes
<1>10. HeldByTheLiving'
  BY ZenonT(60), <1>1, <1>2, <1>6 DEF HeldByTheLiving, Mine, TokenTypes
<1>11. FileGood'
  BY Zenon, <1>1, <1>2, <1>6 DEF FileGood, Covers, TokenTypes
<1>12. DraftGood' /\ OnItsWay'
  BY Zenon, <1>7 DEF DraftGood, OnItsWay
<1> QED BY Zenon, <1>8, <1>9, <1>10, <1>11, <1>12 DEF TokenInv

\* The death of a process frees its flock and empties its memory; the file stays.
LEMMA DieKeeps ==
  ASSUME TokenInv, NEW p \in Pids, Die(p)
  PROVE  TokenInv'
<1>1. TokenTypes /\ Locked /\ HeldByTheLiving /\ FileGood /\ DraftGood /\ OnItsWay /\ Home \in [Threads -> Pids] /\ None \notin Threads
  BY Zenon, TokenConstants DEF TokenInv
<1>2. PICK z \in {"zombie", "gone"} : running' = [running EXCEPT ![p] = z]
  BY Zenon DEF Die
<1>3. /\ lock' = IF lock # None /\ Home[lock] = p THEN None ELSE lock
      /\ pc' = [t \in Threads |-> IF Home[t] = p THEN "idle" ELSE pc[t]]
      /\ call' = [t \in Threads |-> IF Home[t] = p THEN NoCall ELSE call[t]]
      /\ draft' = IF lock # None /\ Home[lock] = p THEN EmptyState ELSE draft
      /\ held' = [held EXCEPT ![p] = {}]
      /\ file' = file /\ granted' = granted /\ birth' = birth
  BY Zenon DEF Die
<1>4. TokenTypes'
  BY Zenon, <1>1, <1>2, <1>3 DEF TokenTypes
<1>5. Locked'
  BY <1>1, <1>2, <1>3 DEF Locked, TokenTypes
<1>6. HeldByTheLiving'
  BY ZenonT(60), <1>1, <1>2, <1>3 DEF HeldByTheLiving, Mine, TokenTypes
<1>7. \A q \in Pids : held'[q] \subseteq held[q]
  BY Zenon, <1>1, <1>3 DEF TokenTypes
<1>8. FileGood'
  BY Zenon, <1>1, <1>3, <1>7 DEF FileGood, Covers
<1>9. \A t \in Threads : pc'[t] = "write" => pc[t] = "write" /\ draft' = draft
  BY Zenon, <1>1, <1>3 DEF Locked
<1>10. DraftGood'
  BY Zenon, <1>1, <1>7, <1>9 DEF DraftGood, Covers
<1>11. OnItsWay'
  <2> SUFFICES ASSUME NEW t \in Threads, call'[t].op = "granted"
               PROVE  /\ pc'[t] \in {"write", "return"} /\ Mine(call[t].lease, Home[t])'
                      /\ pc'[t] = "write" => call'[t].lease \in draft'.leases
                      /\ pc'[t] = "return" => call'[t].lease \in file'.leases
    BY Zenon DEF OnItsWay
  <2>1. Home[t] # p /\ call'[t] = call[t] /\ pc'[t] = pc[t]
    BY Zenon, <1>3 DEF NoCall
  <2>2. running'[Home[t]] = running[Home[t]]
    BY Zenon, <1>1, <1>2, <2>1 DEF TokenTypes
  <2> QED BY Zenon, <1>1, <1>3, <1>9, <2>1, <2>2 DEF OnItsWay, Mine
<1> QED BY Zenon, <1>4, <1>5, <1>6, <1>8, <1>10, <1>11 DEF TokenInv

\* A zombie that is reaped, another user's process that ends and a process that starts have no leases and no calls.
LEMMA ProcessKeeps ==
  ASSUME TokenInv, NEW p \in Pids, Reap(p) \/ Start(p)
  PROVE  TokenInv'
<1>1. TokenTypes /\ Locked /\ HeldByTheLiving /\ FileGood /\ DraftGood /\ OnItsWay /\ Home \in [Threads -> Pids]
  BY Zenon, TokenConstants DEF TokenInv
<1>2. /\ running[p] # "running" /\ file' = file /\ lock' = lock /\ pc' = pc /\ call' = call
      /\ draft' = draft /\ held' = held /\ granted' = granted
      /\ running' \in [Pids -> {"running", "zombie", "gone", "foreign"}] /\ birth' \in [Pids -> Nat]
      /\ \A q \in Pids \ {p} : running'[q] = running[q] /\ birth'[q] = birth[q]
  BY <1>1 DEF Reap, Start, TokenTypes
<1>3. held[p] = {} /\ \A t \in Threads : Home[t] = p => pc[t] = "idle" /\ call[t].op # "granted"
  BY <1>1, <1>2 DEF HeldByTheLiving, Mine, Locked, OnItsWay, TokenTypes
<1>4. TokenTypes'
  BY Zenon, <1>1, <1>2 DEF TokenTypes
<1>5. Locked'
  BY Zenon, <1>1, <1>2, <1>3 DEF Locked
<1>6. HeldByTheLiving'
  BY ZenonT(60), <1>1, <1>2, <1>3 DEF HeldByTheLiving, Mine
<1>7. FileGood' /\ DraftGood'
  BY Zenon, <1>1, <1>2 DEF FileGood, DraftGood, Covers
<1>8. OnItsWay'
  BY Zenon, <1>1, <1>2, <1>3 DEF OnItsWay, Mine
<1> QED BY Zenon, <1>4, <1>5, <1>6, <1>7, <1>8 DEF TokenInv

\* What can be read in /proc is no part of the invariant.
LEMMA HideKeeps ==
  ASSUME TokenInv, NEW S, Hide(S)
  PROVE  TokenInv'
BY DEF Hide, TokenInv, TokenTypes, Locked, HeldByTheLiving, FileGood, DraftGood, OnItsWay, Mine, Covers

\* MemoryTokenPool: at all times, a lease that a living process has is in the state file,
\* and an exclusive build is the only lease in it.
THEOREM TokensCovered == TokenSpec => []HoldersCovered
<1>1. TokenInit => TokenInv
  <2> SUFFICES ASSUME TokenInit PROVE TokenInv
    BY Zenon
  <2>1. TokenTypes /\ Locked /\ HeldByTheLiving /\ DraftGood /\ OnItsWay
    BY Zenon, TokenConstants DEF TokenInit, TokenTypes, Locked, HeldByTheLiving, DraftGood, OnItsWay, NoCall
  <2>2. Builds({}) = 0
    <3>1. {l \in {} : l.build} = {}
      BY Zenon
    <3> QED BY Zenon, <3>1, FS_EmptySet DEF Builds
  <2>3. FileGood
    BY Zenon, <2>2, FS_EmptySet DEF TokenInit, FileGood, Sound, Covers, BuildAlone, EmptyState, Fields
  <2> QED BY Zenon, <2>1, <2>3 DEF TokenInv
<1>2. TokenInv /\ [TokenNext]_tokenVars => TokenInv'
  <2> SUFFICES ASSUME TokenInv, [TokenNext]_tokenVars PROVE TokenInv'
    BY Zenon
  <2>1. CASE UNCHANGED tokenVars
    BY <2>1 DEF tokenVars, TokenInv, TokenTypes, Locked, HeldByTheLiving, FileGood, DraftGood, OnItsWay, Mine, Covers
  <2>2. ASSUME NEW t \in Threads, NEW c \in Requests, TryAcquire(t, c) PROVE TokenInv'
    BY Zenon, <2>2, TryAcquireKeeps
  <2>3. ASSUME NEW t \in Threads, NEW l \in issued, TryRelease(t, l) PROVE TokenInv'
    BY Zenon, <2>3, TryReleaseKeeps
  <2>4. ASSUME NEW t \in Threads, TrySnapshot(t) PROVE TokenInv'
    BY Zenon, <2>4, TrySnapshotKeeps
  <2>5. ASSUME NEW t \in Threads, WriteState(t) PROVE TokenInv'
    BY Zenon, <2>5, WriteStateKeeps
  <2>6. ASSUME NEW t \in Threads, Return(t) PROVE TokenInv'
    BY Zenon, <2>6, ReturnKeeps
  <2>7. ASSUME NEW p \in Pids, Die(p) PROVE TokenInv'
    BY Zenon, <2>7, DieKeeps
  <2>8. ASSUME NEW p \in Pids, Reap(p) \/ Start(p) PROVE TokenInv'
    BY Zenon, <2>8, ProcessKeeps
  <2>9. ASSUME NEW S \in SUBSET Pids, Hide(S) PROVE TokenInv'
    BY Zenon, <2>9, HideKeeps
  <2> QED BY Zenon, <2>1, <2>2, <2>3, <2>4, <2>5, <2>6, <2>7, <2>8, <2>9 DEF TokenNext
<1>3. TokenInv => HoldersCovered
  BY Zenon DEF TokenInv, FileGood, Sound, Covers, BuildAlone, HoldersCovered, HeldLeases, InForce
<1> QED BY <1>1, <1>2, <1>3, PTL DEF TokenSpec
=============================================================================
