-------------------------- MODULE PersistentMemory --------------------------
(***************************************************************************)
(* The environment RAM and ROM of a scenario,                              *)
(* src/myfuzz/scenario/memory.py.                                          *)
(*                                                                         *)
(* The memory is sparse.  A byte gets a cell when it is preloaded, stored, *)
(* filled with an instruction or read for the first time, and keeps the    *)
(* version of the commit that wrote it.  A region is reached through one   *)
(* or more address windows.  Instruction slots are reserved bytes that     *)
(* cannot be read before they are filled.                                  *)
(*                                                                         *)
(* An address is a small number, a byte a small set of values.  Writer     *)
(* event identities are left out: the version of a cell already names its  *)
(* commit. A call that raises changes nothing and is a stuttering step.    *)
(***************************************************************************)
EXTENDS Naturals, FiniteSets

CONSTANTS
  Regions,             \* memory ids
  Size,                \* Size[r]: bytes of region r
  Windows,             \* [base, memory_id]: the base and the aliases of regions
  Readable, Writable,  \* regions by permission
  Widths,              \* _WIDTHS
  WordBytes,           \* bytes of an instruction slot, 4 in the code
  Values,              \* values of a byte
  InitialByte,         \* _initial_byte: a hash of the generation and the byte
  MaxInitializedBytes, \* max_initialized_bytes
  MaxGeneration,       \* bound: cold resets
  MaxCommits,          \* bound: commits of a region in one generation
  Undetermined

VARIABLES
  bytes,            \* _bytes, Undetermined where there is no cell
  initialImages,    \* _initial_images, Undetermined where there is none
  instructionSlots, \* _instruction_slots
  commitSequences,  \* _commit_sequences
  generation,       \* generation
  acceptances,      \* instruction acceptances issued and not revoked
  reply             \* history: the bytes the last read returned

vars == <<bytes, initialImages, instructionSlots, commitSequences, generation, acceptances, reply>>

Cells == UNION {{r} \X (0..(Size[r] - 1)) : r \in Regions}
Addresses == UNION {w.base..(w.base + Size[w.memory_id] - 1) : w \in Windows}

\* ByteCell: a value, the generation and the commit that wrote it, and what wrote it.
Versions == (0..MaxGeneration) \X (0..MaxCommits)
WriterKinds == {"INITIAL_IMAGE", "RESET_IMAGE", "INSTRUCTION_SOURCE", "FIRST_READ", "STORE"}
ByteCells == [value : Values, version : Versions, writer_kind : WriterKinds]

\* __init__ rejects overlapping windows.
ASSUME MemoryConstants ==
  /\ \A w \in Windows : w.base \in Nat /\ w.memory_id \in Regions
  /\ \A v, w \in Windows : v # w =>
       \/ v.base + Size[v.memory_id] <= w.base
       \/ w.base + Size[w.memory_id] <= v.base
  /\ \A r \in Regions : Size[r] \in Nat \ {0}
  /\ Readable \subseteq Regions /\ Writable \subseteq Regions
  /\ Widths \subseteq Nat \ {0} /\ WordBytes \in Nat \ {0}
  /\ InitialByte \in [(0..MaxGeneration) \X Cells -> Values]
  /\ Undetermined \notin Values /\ Undetermined \notin ByteCells
  /\ MaxInitializedBytes \in Nat /\ MaxGeneration \in Nat /\ MaxCommits \in Nat

ByteCell(value, version, kind) == [value |-> value, version |-> version, writer_kind |-> kind]

\* A new memory, with some instruction slots declared.
Empty(declared) ==
  /\ bytes = [c \in Cells |-> Undetermined]
  /\ initialImages = [c \in Cells |-> Undetermined]
  /\ instructionSlots = declared
  /\ commitSequences = [r \in Regions |-> 0]
  /\ generation = 0
  /\ acceptances = {}
  /\ reply = <<>>

Init == Empty({})

\* _resolve: the places an aligned access of n bytes can mean.  At most one, since
\* windows do not overlap; none when the access leaves its window.
Resolve(address, n) ==
  {<<w.memory_id, address - w.base>> :
     w \in {v \in Windows : /\ v.base <= address
                            /\ address + n <= v.base + Size[v.memory_id]}}
Aligned(address, n) == address % n = 0
Span(place, n) == {<<place[1], place[2] + lane>> : lane \in 0..(n - 1)}

Determined == {c \in Cells : bytes[c] # Undetermined}
Budget(cells) == Cardinality(Determined \cup cells) <= MaxInitializedBytes
NextVersion(r) == <<generation, commitSequences[r] + 1>>
Advance(r) ==
  /\ commitSequences[r] < MaxCommits
  /\ commitSequences' = [commitSequences EXCEPT ![r] = @ + 1]

\* The bytes with new cells in some places.
Fill(cells, value, version, kind) ==
  [c \in Cells |-> IF c \in cells THEN ByteCell(value[c], version, kind) ELSE bytes[c]]

\* preload: the initial image, over bytes nobody has seen or reserved.
Preload(address, n, value) ==
  \E place \in Resolve(address, n) :
    LET cells == Span(place, n) IN
    /\ place[1] \in Readable
    /\ cells \cap (Determined \cup instructionSlots) = {}
    /\ Budget(cells)
    /\ initialImages' = [c \in Cells |-> IF c \in cells THEN value[c] ELSE initialImages[c]]
    /\ bytes' = Fill(cells, value, <<generation, 0>>, "INITIAL_IMAGE")
    /\ UNCHANGED <<instructionSlots, commitSequences, generation, acceptances, reply>>

\* reinstall_image: image bytes are replaced after a reset.
ReinstallImage(address, n, value) ==
  \E place \in Resolve(address, n) :
    LET cells == Span(place, n) IN
    /\ place[1] \in Readable
    /\ \A c \in cells : initialImages[c] # Undetermined
    /\ Advance(place[1])
    /\ bytes' = Fill(cells, value, NextVersion(place[1]), "RESET_IMAGE")
    /\ UNCHANGED <<initialImages, instructionSlots, generation, acceptances, reply>>

\* declare_instruction_slots: words nobody has seen are reserved.
DeclareInstructionSlots(address, count) ==
  /\ Aligned(address, WordBytes)
  /\ \E place \in Resolve(address, WordBytes * count) :
       LET cells == Span(place, WordBytes * count) IN
       /\ place[1] \in Readable
       /\ cells \cap Determined = {}
       /\ instructionSlots' = instructionSlots \cup cells
       /\ UNCHANGED <<bytes, initialImages, commitSequences, generation, acceptances, reply>>

\* accept_instructions: reserved words are filled, once.
AcceptInstructions(address, n, value) ==
  /\ Aligned(address, WordBytes)
  /\ \E place \in Resolve(address, n) :
       LET cells == Span(place, n) IN
       /\ place[1] \in Readable
       /\ cells \subseteq instructionSlots
       /\ cells \cap Determined = {}
       /\ Budget(cells)
       /\ Advance(place[1])
       /\ bytes' = Fill(cells, value, NextVersion(place[1]), "INSTRUCTION_SOURCE")
       /\ acceptances' = acceptances \cup {[cells |-> cells, version |-> NextVersion(place[1])]}
       /\ UNCHANGED <<initialImages, instructionSlots, generation, reply>>

\* Faulty form of Loadable: an empty instruction slot is read as RAM.
LoadableUnready(place, n) ==
  LET missing == Span(place, n) \ Determined IN
  /\ place[1] \in Readable
  /\ missing = {} \/ place[1] \in Writable
  /\ Budget(missing)

\* The guards of read, which validate_read also checks on its own.
Loadable(place, n) ==
  LET missing == Span(place, n) \ Determined IN
  /\ place[1] \in Readable
  /\ missing \cap instructionSlots = {}
  /\ missing = {} \/ place[1] \in Writable
  /\ Budget(missing)

\* What read commits: bytes seen for the first time get their initial value.
Materialize(place, n) ==
  LET missing == Span(place, n) \ Determined IN
  /\ bytes' = Fill(missing, [c \in missing |-> InitialByte[<<generation, c>>]],
                   NextVersion(place[1]), "FIRST_READ")
  /\ IF missing = {} THEN UNCHANGED commitSequences ELSE Advance(place[1])

Read(address, n) ==
  /\ Aligned(address, n)
  /\ \E place \in Resolve(address, n) :
       /\ Loadable(place, n)
       /\ Materialize(place, n)
       /\ reply' = [c \in Span(place, n) |-> bytes'[c].value]
  /\ UNCHANGED <<initialImages, instructionSlots, generation, acceptances>>

\* write: the enabled lanes are stored in one commit, reserved or not.  With no
\* lane enabled nothing changes.
Write(address, n, enabled, value) ==
  /\ Aligned(address, n)
  /\ enabled # {}
  /\ \E place \in Resolve(address, n) :
       /\ place[1] \in Writable
       /\ enabled \subseteq Span(place, n)
       /\ Budget(enabled)
       /\ Advance(place[1])
       /\ bytes' = Fill(enabled, value, NextVersion(place[1]), "STORE")
  /\ UNCHANGED <<initialImages, instructionSlots, generation, acceptances, reply>>

\* Faulty form of WarmReset: the bytes return to the image.
WarmResetForgets ==
  /\ bytes' = [c \in Cells |-> IF initialImages[c] = Undetermined THEN Undetermined ELSE bytes[c]]
  /\ acceptances' = {}
  /\ UNCHANGED <<initialImages, instructionSlots, commitSequences, generation, reply>>

\* warm_reset: cells and generation stay, issued acceptances do not.
WarmReset ==
  /\ acceptances' = {}
  /\ UNCHANGED <<bytes, initialImages, instructionSlots, commitSequences, generation, reply>>

\* cold_reset: a new generation with the declared image and nothing else.
ColdReset ==
  /\ generation < MaxGeneration
  /\ generation' = generation + 1
  /\ bytes' = [c \in Cells |-> IF initialImages[c] = Undetermined THEN Undetermined
                 ELSE ByteCell(initialImages[c], <<generation + 1, 0>>, "INITIAL_IMAGE")]
  /\ commitSequences' = [r \in Regions |-> 0]
  /\ acceptances' = {}
  /\ UNCHANGED <<initialImages, instructionSlots, reply>>

\* The values an operation can put into the n bytes at an address.
DataFor(address, n) == UNION {[Span(place, n) -> Values] : place \in Resolve(address, n)}
Lanes(address, n) == UNION {SUBSET Span(place, n) : place \in Resolve(address, n)}

Next ==
  \/ \E address \in Addresses, n \in Widths :
       \/ Read(address, n)
       \/ \E value \in DataFor(address, n) :
            \/ Preload(address, n, value)
            \/ ReinstallImage(address, n, value)
            \/ \E enabled \in Lanes(address, n) : Write(address, n, enabled, value)
            \/ n % WordBytes = 0 /\ AcceptInstructions(address, n, value)
  \/ \E address \in Addresses : DeclareInstructionSlots(address, 1)
  \/ WarmReset
  \/ ColdReset

Spec == Init /\ [][Next]_vars

-----------------------------------------------------------------------------

\* A byte's version names a commit that happened, in this generation: no cell
\* survives a cold reset, no two commits of a region share a version, and the
\* initial image alone has version zero.
VersionsNameCommits ==
  \A c \in Determined :
    /\ bytes[c].version[1] = generation
    /\ bytes[c].version[2] <= commitSequences[c[1]]
    /\ bytes[c].version[2] = 0 <=> bytes[c].writer_kind = "INITIAL_IMAGE"
    /\ \A d \in Determined :
         c[1] = d[1] /\ bytes[c].version = bytes[d].version
           => bytes[c].writer_kind = bytes[d].writer_kind

\* max_initialized_bytes holds although reinstall_image and cold_reset do not check
\* it: the bytes they write are image bytes, and those always have a cell.
WithinBudget ==
  /\ Cardinality(Determined) <= MaxInitializedBytes
  /\ \A c \in Cells : initialImages[c] # Undetermined => c \in Determined

\* "Reserve empty aligned words without materializing RAM" (memory.py:402): what
\* is in a reserved byte came from an instruction source or from a store, never
\* from the image or from a read that invented a value, whatever the order of
\* preloads, declarations and resets.
SlotsAreFilledByWriters ==
  \A c \in instructionSlots :
    /\ initialImages[c] = Undetermined
    /\ c \in Determined => bytes[c].writer_kind \in {"INSTRUCTION_SOURCE", "STORE"}

\* validate_instruction_acceptance: an acceptance that has not been revoked tells
\* of bytes this generation still holds, as it wrote them or stored over since.
AcceptancesAreCurrent ==
  \A a \in acceptances :
    /\ a.version[1] = generation
    /\ a.cells \subseteq Determined
    /\ \A c \in a.cells : \/ bytes[c].version = a.version
                          \/ bytes[c].writer_kind = "STORE" /\ bytes[c].version[2] > a.version[2]

\* Every cell has a writer of this generation that may write there, and there are not
\* too many, after any order of preloads, declarations, reads, stores and resets.
CellsAreSound ==
  VersionsNameCommits /\ WithinBudget /\ SlotsAreFilledByWriters /\ AcceptancesAreCurrent

\* What a byte is worth, with or without a cell.
Worth == [c \in Cells |-> IF bytes[c] # Undetermined THEN bytes[c].value
                          ELSE IF c \in instructionSlots THEN Undetermined
                          ELSE InitialByte[<<generation, c>>]]

Eager == INSTANCE EagerMemory WITH
  Default <- InitialByte, Absent <- Undetermined,
  content <- Worth, image <- initialImages, slots <- instructionSlots

\* Nobody can tell when a byte was materialized: the sparse memory is a plain one
\* whose bytes have had their values from the start of the generation, loads
\* through any window change nothing, and a warm reset is not noticed.
ActsAsPlainMemory == Eager!Spec
=============================================================================
