--------------------------- MODULE CpuMemoryProofs ---------------------------
(***************************************************************************)
(* The memory port of a CPU session: no commit fails, the commit stream is *)
(* exact and the ports hold what is theirs, for any memory, word size,     *)
(* values, capacity, and numbers of requests and resets.                   *)
(*                                                                         *)
(* PortInv follows a request from its key to its answer.  Before: the      *)
(* frontier of a channel is one past what its port has asked, or at the    *)
(* key of a fetch that waits (Asked).  At the ledger: there is one call,   *)
(* and what was validated before still holds (Running), because nothing    *)
(* but the commit can come in between.  After: the entry is complete       *)
(* (Settled), its receipt is the answer (Frozen) and its key is in the     *)
(* stream if it was a write (Stream).                                      *)
(***************************************************************************)
EXTENDS CpuMemoryPort, TLAPS

Channels == Ports \X (0..MaxEpoch)
Responses == [key : Ledger!Keys, data : Data \cup {"written"}]

Types ==
  /\ epoch \in 0..MaxEpoch /\ sequences \in [Ports -> 0..MaxSequence]
  /\ entries \in [Ledger!Keys -> Ledger!Entry \cup {None}]
  /\ nextChannelSequence \in [Channels -> Nat]
  /\ call \in Calls \cup {None}
  /\ response \in [Ports -> Responses \cup {None}]
  /\ waiting \in Fetches \cup {None}
  /\ pendingCommits \in Seq(Ledger!Keys) /\ acknowledged \in Seq(Ledger!Keys) /\ committed \in Seq(Ledger!Keys)

\* What a read returns: a byte that is there has a value, and there is no image to fall back on.
Bytes ==
  /\ \A c \in Memory!Cells : bytes[c] = Undetermined \/ bytes[c].value \in Values
  /\ \A c \in Memory!Cells : initialImages[c] = Undetermined
  /\ generation \in 0..MaxGeneration

\* The request at the ledger is the one call, of the present epoch, as it was validated.
Running ==
  /\ call = None => stack = <<>>
  /\ call # None =>
       /\ \E n : stack = <<[key |-> call.key, expected |-> n]>>
       /\ call.key[1][2] = epoch
       /\ entries[call.key] # None
       /\ entries[call.key].status = "target_inflight"
       /\ entries[call.key].digest.op = call.op
       /\ call.op = "read" => Memory!Loadable(Place(call.address), WordBytes)
       /\ call.op = "write" => /\ call.key[1][1] = "data"
                               /\ Storable(call.address, call.enabled)
                               /\ call.value \in [call.enabled -> Values]

\* All others are complete.
Settled ==
  \A key \in Ledger!Keys : entries[key] # None =>
    entries[key].status = "complete" \/ (call # None /\ call.key = key)

\* The ledger knows the keys below the frontier of a channel, and no others.
Issued ==
  /\ \A key \in Ledger!Keys : entries[key] # None => key[2] < nextChannelSequence[key[1]]
  /\ \A p \in Ports, e \in 0..MaxEpoch : e > epoch => nextChannelSequence[<<p, e>>] = 1

\* The frontier of a port's channel is one past what the port has asked, but for a fetch that waits.
Held(p) == p = "instr" /\ waiting # None /\ (call = None \/ call.key[1][1] = "data")
Asked ==
  /\ ~failed => \A p \in Ports :
       nextChannelSequence[<<p, epoch>>] = IF Held(p) THEN sequences[p] ELSE sequences[p] + 1
  /\ waiting # None => /\ waiting.key = <<<<"instr", epoch>>, sequences["instr"]>>
                       /\ response["instr"] = None
                       /\ Held("instr") => nextChannelSequence[<<"instr", epoch>>] = sequences["instr"]

\* The keys of the writes that took effect, and the properties in terms of the entries.
Written == {key \in Ledger!Keys : /\ entries[key] # None /\ entries[key].status = "complete"
                                  /\ entries[key].digest.op = "write"}
Frozen ==
  \A p \in Ports : response[p] # None =>
    /\ response[p].key[1] = <<p, epoch>> /\ entries[response[p].key] # None
    /\ entries[response[p].key].status = "complete"
    /\ entries[response[p].key].receipt = response[p].data
Stream ==
  /\ acknowledged \o pendingCommits = committed
  /\ IsInjective(committed)
  /\ Range(committed) = Written
  /\ Len(pendingCommits) <= Capacity

PortInv ==
  /\ Types /\ Bytes /\ Running /\ Settled /\ Issued /\ Asked
  /\ Frozen /\ Stream

-----------------------------------------------------------------------------

\* The parts of a key.
LEMMA KeyParts ==
  ASSUME NEW key \in Ledger!Keys
  PROVE  /\ key = <<key[1], key[2]>> /\ key[1] = <<key[1][1], key[1][2]>>
         /\ key[1] \in Channels /\ key[1][1] \in Ports /\ key[1][2] \in 0..MaxEpoch
         /\ key[2] \in 1..MaxSequence
BY DEF Ledger!Keys, Channels

\* The next key of a port that may ask again.
LEMMA NextKey ==
  ASSUME Types, NEW port \in Ports, sequences[port] < MaxSequence
  PROVE  /\ Key(port) \in Ledger!Keys /\ Key(port)[1] = <<port, epoch>>
         /\ Key(port)[2] = sequences[port] + 1 /\ sequences[port] + 1 \in 1..MaxSequence
<1>1. sequences[port] \in 0..MaxSequence /\ epoch \in 0..MaxEpoch /\ MaxSequence \in Nat
  BY Zenon, PortConstants DEF Types
<1>2. sequences[port] + 1 \in 1..MaxSequence
  BY <1>1
<1> QED BY Zenon, <1>1, <1>2 DEF Key, Ledger!Keys

\* The bytes of an access that resolves are bytes of the memory.
LEMMA SpanCells ==
  ASSUME NEW address \in Words, NEW place \in Memory!Resolve(address, WordBytes)
  PROVE  Memory!Span(place, WordBytes) \subseteq Memory!Cells
<1>1. PICK w \in Windows : /\ w.base <= address /\ address + WordBytes <= w.base + Size[w.memory_id]
                           /\ place = <<w.memory_id, address - w.base>>
  BY Zenon DEF Memory!Resolve
<1>2. w.base \in Nat /\ w.memory_id \in Regions /\ Size[w.memory_id] \in Nat /\ WordBytes \in Nat
  BY <1>1, PortConstants DEF Memory!MemoryConstants
<1>3. address \in Nat
  <2>1. PICK v \in Windows : address \in v.base..(v.base + Size[v.memory_id] - 1)
    BY Zenon DEF Words, Memory!Addresses
  <2>2. v.base \in Nat /\ Size[v.memory_id] \in Nat
    BY <2>1, PortConstants DEF Memory!MemoryConstants
  <2> QED BY <2>1, <2>2
<1>4. ASSUME NEW lane \in 0..(WordBytes - 1)
      PROVE  <<place[1], place[2] + lane>> \in Memory!Cells
  <2>1. place[1] = w.memory_id /\ place[2] = address - w.base
    BY Zenon, <1>1
  <2>2. (address - w.base) + lane \in 0..(Size[w.memory_id] - 1)
    BY <1>1, <1>2, <1>3
  <2>3. <<place[1], place[2] + lane>> \in {w.memory_id} \X (0..(Size[w.memory_id] - 1))
    BY Zenon, <2>1, <2>2
  <2> QED BY Zenon, <1>2, <2>3 DEF Memory!Cells
<1> QED BY Zenon, <1>4 DEF Memory!Span

LEMMA LaneCells ==
  ASSUME NEW address \in Words
  PROVE  Lanes(address) \subseteq Memory!Cells
<1>1. Place(address) \in Memory!Resolve(address, WordBytes)
  BY Zenon DEF Words, Place
<1> QED BY Zenon, <1>1, SpanCells DEF Lanes

LEMMA StatusIs ==
  ASSUME NEW key \in Ledger!Keys
  PROVE  /\ Ledger!Status[key] = IF entries[key] = None THEN "absent" ELSE entries[key].status
         /\ Ledger!Status'[key] = IF entries'[key] = None THEN "absent" ELSE entries'[key].status
BY Zenon DEF Ledger!Status

LEMMA StreamIs == (StreamIsExact <=> Stream) /\ (StreamIsExact' <=> Stream')
<1>1. \A key \in Ledger!Keys : Ledger!Status[key] = "complete" <=> entries[key] # None /\ entries[key].status = "complete"
  BY StatusIs
<1>2. \A key \in Ledger!Keys : Ledger!Status'[key] = "complete" <=> entries'[key] # None /\ entries'[key].status = "complete"
  BY StatusIs
<1>3. {key \in Ledger!Keys : Ledger!Status[key] = "complete" /\ entries[key].digest.op = "write"} = Written
  BY Zenon, <1>1 DEF Written
<1>4. {key \in Ledger!Keys : Ledger!Status[key] = "complete" /\ entries[key].digest.op = "write"}' = Written'
  BY Zenon, <1>2 DEF Written
<1> QED BY Zenon, <1>3, <1>4 DEF StreamIsExact, Stream

LEMMA FrozenIs ==
  /\ Types => (ResponsesFrozen <=> Frozen)
  /\ Types' => (ResponsesFrozen' <=> Frozen')
<1>1. ASSUME Types, NEW p \in Ports, response[p] # None
      PROVE  Ledger!Status[response[p].key] = "complete"
               <=> entries[response[p].key] # None /\ entries[response[p].key].status = "complete"
  <2>1. response[p].key \in Ledger!Keys
    BY <1>1 DEF Types, Responses
  <2> QED BY <2>1, StatusIs
<1>2. ASSUME Types', NEW p \in Ports, response'[p] # None
      PROVE  Ledger!Status'[response'[p].key] = "complete"
               <=> entries'[response'[p].key] # None /\ entries'[response'[p].key].status = "complete"
  <2>1. response'[p].key \in Ledger!Keys
    BY <1>2 DEF Types, Responses
  <2> QED BY <2>1, StatusIs
<1> QED BY Zenon, <1>1, <1>2 DEF ResponsesFrozen, Frozen

-----------------------------------------------------------------------------

\* A memory that stays as it is admits the same accesses.
LEMMA SameMemory ==
  ASSUME UNCHANGED memoryVars
  PROVE  /\ \A place : Memory!Loadable(place, WordBytes)' <=> Memory!Loadable(place, WordBytes)
         /\ \A cells : Memory!Budget(cells)' <=> Memory!Budget(cells)
         /\ Bytes => Bytes'
<1>1. bytes' = bytes /\ instructionSlots' = instructionSlots /\ initialImages' = initialImages /\ generation' = generation
  BY Zenon DEF memoryVars
<1> QED BY Zenon, <1>1 DEF Memory!Loadable, Memory!Budget, Memory!Determined, Bytes

\* What service.read and service.write do to the ledger and to the call, for a request
\* that was validated.
Starts(key, access) ==
  /\ entries[key] = None /\ key[2] = nextChannelSequence[key[1]]
  /\ entries' = [entries EXCEPT ![key] = [digest |-> access, status |-> "target_inflight", receipt |-> None]]
  /\ nextChannelSequence' = [nextChannelSequence EXCEPT ![key[1]] = @ + 1]
  /\ \E n : stack' = <<[key |-> key, expected |-> n]>>
  /\ call' \in Calls /\ call'.key = key /\ call'.op = access.op
  /\ call'.op = "read" => Memory!Loadable(Place(call'.address), WordBytes)
  /\ call'.op = "write" => /\ key[1][1] = "data"
                           /\ Storable(call'.address, call'.enabled)
                           /\ call'.value \in [call'.enabled -> Values]

LEMMA ReadStarts ==
  ASSUME Types, Running, call = None, NEW key \in Ledger!Keys, NEW address \in Words, ServiceRead(key, address)
  PROVE  \E access \in Accesses : Starts(key, access)
<1> DEFINE access == [op |-> "read", address |-> address]
           next == [op |-> "read", key |-> key, address |-> address]
<1>1. access \in Accesses /\ next \in Calls /\ call' = next
  BY Zenon DEF Accesses, Calls, ServiceRead
<1>2. Memory!Loadable(Place(address), WordBytes) /\ Ledger!ExecuteOnce(key, access)
  BY Zenon DEF ServiceRead
<1>3. stack = <<>>
  BY Zenon DEF Running
<1>4. \E n : stack' = <<[key |-> key, expected |-> n]>>
  <2> DEFINE frame == [key |-> key, expected |-> nextTargetSequence[key[1]]]
  <2>1. stack' = Append(<<>>, frame)
    BY Zenon, <1>2, <1>3 DEF Ledger!ExecuteOnce, Ledger!Call, Ledger!Channel
  <2>2. Append(<<>>, frame) = <<frame>>
    OBVIOUS
  <2> QED BY Zenon, <2>1, <2>2
<1>5. /\ entries[key] = None /\ key[2] = nextChannelSequence[key[1]]
      /\ entries' = [entries EXCEPT ![key] = [digest |-> access, status |-> "target_inflight", receipt |-> None]]
      /\ nextChannelSequence' = [nextChannelSequence EXCEPT ![key[1]] = @ + 1]
  BY Zenon, <1>2 DEF Ledger!ExecuteOnce, Ledger!SourceSequence, Ledger!Channel
<1>6. next.op = "read" /\ next.key = key /\ next.address = address /\ access.op = "read"
  OBVIOUS
<1>7. Starts(key, access)
  BY Zenon, <1>1, <1>2, <1>4, <1>5, <1>6 DEF Starts
<1> QED BY Zenon, <1>1, <1>7

LEMMA WriteStarts ==
  ASSUME Types, Running, call = None, NEW key \in Ledger!Keys, NEW address \in Words,
         NEW enabled \in SUBSET Lanes(address), NEW value \in [enabled -> Values],
         key[1][1] = "data", ServiceWrite(key, address, enabled, value)
  PROVE  \E access \in Accesses : Starts(key, access)
<1> DEFINE access == [op |-> "write", address |-> address, enabled |-> enabled, value |-> value]
           next == [op |-> "write", key |-> key, address |-> address, enabled |-> enabled, value |-> value]
<1>1. enabled \in SUBSET Memory!Cells /\ value \in Data
  BY Zenon, LaneCells DEF Data
<1>2. access \in Accesses /\ next \in Calls /\ call' = next
  BY Zenon, <1>1 DEF Accesses, Calls, ServiceWrite
<1>3. Storable(address, enabled) /\ Ledger!ExecuteOnce(key, access)
  BY Zenon DEF ServiceWrite
<1>4. stack = <<>>
  BY Zenon DEF Running
<1>5. \E n : stack' = <<[key |-> key, expected |-> n]>>
  <2> DEFINE frame == [key |-> key, expected |-> nextTargetSequence[key[1]]]
  <2>1. stack' = Append(<<>>, frame)
    BY Zenon, <1>3, <1>4 DEF Ledger!ExecuteOnce, Ledger!Call, Ledger!Channel
  <2>2. Append(<<>>, frame) = <<frame>>
    OBVIOUS
  <2> QED BY Zenon, <2>1, <2>2
<1>6. /\ entries[key] = None /\ key[2] = nextChannelSequence[key[1]]
      /\ entries' = [entries EXCEPT ![key] = [digest |-> access, status |-> "target_inflight", receipt |-> None]]
      /\ nextChannelSequence' = [nextChannelSequence EXCEPT ![key[1]] = @ + 1]
  BY Zenon, <1>3 DEF Ledger!ExecuteOnce, Ledger!SourceSequence, Ledger!Channel
<1>7. /\ next.op = "write" /\ next.key = key /\ next.address = address /\ next.enabled = enabled
      /\ next.value = value /\ access.op = "write"
  OBVIOUS
<1>8. Starts(key, access)
  BY Zenon, <1>2, <1>3, <1>5, <1>6, <1>7 DEF Starts
<1> QED BY Zenon, <1>2, <1>8

\* A request that starts keeps what the session, the stream and the frontiers promise.
LEMMA StartKeeps ==
  ASSUME PortInv, call = None, NEW key \in Ledger!Keys, key[1][2] = epoch, NEW access \in Accesses,
         Starts(key, access), UNCHANGED <<memoryVars, pendingCommits, acknowledged, committed, response, epoch>>
  PROVE  /\ entries' \in [Ledger!Keys -> Ledger!Entry \cup {None}] /\ nextChannelSequence' \in [Channels -> Nat]
         /\ call' \in Calls /\ call' # None
         /\ Bytes' /\ Running' /\ Settled' /\ Issued' /\ Frozen' /\ Stream'
<1> DEFINE new == [digest |-> access, status |-> "target_inflight", receipt |-> None]
<1>1. /\ entries \in [Ledger!Keys -> Ledger!Entry \cup {None}] /\ nextChannelSequence \in [Channels -> Nat]
      /\ Bytes /\ Settled /\ Issued /\ Frozen /\ Stream /\ response \in [Ports -> Responses \cup {None}]
  BY Zenon DEF PortInv, Types
<1>2. /\ key[1] \in Channels /\ entries[key] = None /\ key[2] = nextChannelSequence[key[1]]
      /\ entries' = [entries EXCEPT ![key] = new]
      /\ nextChannelSequence' = [nextChannelSequence EXCEPT ![key[1]] = @ + 1]
      /\ call' \in Calls /\ call' # None
  BY Zenon, KeyParts, PortConstants DEF Starts
<1>3. new \in Ledger!Entry /\ new # None /\ new.status = "target_inflight" /\ new.digest = access
  <2>1. new \in Ledger!Entry
    BY DEF Ledger!Entry, Ledger!Statuses
  <2> QED BY <2>1, PortConstants
<1> HIDE DEF new
<1>4. /\ entries' \in [Ledger!Keys -> Ledger!Entry \cup {None}] /\ entries'[key] = new
      /\ \A k \in Ledger!Keys : k # key => entries'[k] = entries[k]
  BY Zenon, <1>1, <1>2, <1>3
<1>5. /\ nextChannelSequence' \in [Channels -> Nat]
      /\ nextChannelSequence'[key[1]] = nextChannelSequence[key[1]] + 1
      /\ \A c \in Channels : c # key[1] => nextChannelSequence'[c] = nextChannelSequence[c]
  BY <1>1, <1>2
<1>6. UNCHANGED <<memoryVars, pendingCommits, acknowledged, committed, response, epoch>>
  OBVIOUS
<1>7. Running'
  <2>0. bytes' = bytes /\ instructionSlots' = instructionSlots /\ pendingCommits' = pendingCommits
    BY Zenon, <1>6 DEF memoryVars
  <2>1. (call.op = "read" => Memory!Loadable(Place(call.address), WordBytes))'
    BY Zenon, <2>0 DEF Starts, Memory!Loadable, Memory!Budget, Memory!Determined, Place
  <2>2. (call.op = "write" => /\ call.key[1][1] = "data"
                              /\ Storable(call.address, call.enabled) /\ call.value \in [call.enabled -> Values])'
    BY Zenon, <2>0 DEF Starts, Storable, Memory!Budget, Memory!Determined, Place
  <2>3. (\E n : stack' = <<[key |-> call'.key, expected |-> n]>>) /\ call'.key[1][2] = epoch'
    BY Zenon, <1>6 DEF Starts
  <2>4. entries'[call'.key] # None /\ entries'[call'.key].status = "target_inflight"
        /\ entries'[call'.key].digest.op = call'.op
    BY Zenon, <1>3, <1>4 DEF Starts
  <2> QED BY Zenon, <1>2, <2>1, <2>2, <2>3, <2>4 DEF Running
<1>8. Settled'
  BY Zenon, <1>1, <1>2, <1>4 DEF Settled, Starts
<1>9. Issued'
  <2>1. ASSUME NEW k \in Ledger!Keys, entries'[k] # None PROVE k[2] < nextChannelSequence'[k[1]]
    <3>1. k[1] \in Channels /\ k[2] \in 1..MaxSequence /\ nextChannelSequence[k[1]] \in Nat /\ MaxSequence \in Nat
      BY Zenon, <1>1, KeyParts, PortConstants
    <3>2. CASE k = key
      BY <1>2, <1>5, <3>1, <3>2
    <3>3. CASE k # key
      <4>1. k[2] < nextChannelSequence[k[1]]
        BY Zenon, <1>1, <1>4, <2>1, <3>3 DEF Issued
      <4> QED BY <1>5, <3>1, <4>1
    <3> QED BY Zenon, <3>2, <3>3
  <2>2. ASSUME NEW p \in Ports, NEW e \in 0..MaxEpoch, e > epoch PROVE nextChannelSequence'[<<p, e>>] = 1
    <3>1. <<p, e>> \in Channels /\ nextChannelSequence[<<p, e>>] = 1
      BY Zenon, <1>1, <2>2 DEF Channels, Issued
    <3>2. e # epoch
      BY <2>2, PortConstants DEF PortInv, Types
    <3>3. <<p, e>> # key[1]
      BY <3>2
    <3> QED BY Zenon, <1>5, <3>1, <3>3
  <2> QED BY Zenon, <1>6, <2>1, <2>2 DEF Issued
<1>10. Frozen'
  <2>1. ASSUME NEW p \in Ports, response[p] # None PROVE response[p].key \in Ledger!Keys /\ response[p].key # key
    <3>1. response[p].key \in Ledger!Keys
      BY <1>1, <2>1 DEF Responses
    <3> QED BY Zenon, <1>1, <1>2, <2>1, <3>1 DEF Frozen
  <2> QED BY Zenon, <1>1, <1>4, <1>6, <2>1 DEF Frozen
<1>11. Stream'
  <2>1. \A k \in Ledger!Keys : k \in Written' <=> k \in Written
    <3>1. "target_inflight" # "complete"
      OBVIOUS
    <3> QED BY Zenon, <1>2, <1>3, <1>4, <3>1 DEF Written
  <2>2. Written' = Written
    BY Zenon, <2>1 DEF Written
  <2> QED BY Zenon, <1>1, <1>6, <2>2 DEF Stream
<1>12. Bytes'
  BY Zenon, <1>1, <1>6, SameMemory
<1> QED BY Zenon, <1>2, <1>4, <1>5, <1>7, <1>8, <1>9, <1>10, <1>11, <1>12

\* A step that leaves all but the phase alone.
LEMMA RestKeeps ==
  ASSUME PortInv, UNCHANGED <<memoryVars, ledgerVars, serviceVars, sessionVars, failed>>
  PROVE  PortInv'
<1>1. /\ entries' = entries /\ nextChannelSequence' = nextChannelSequence /\ stack' = stack
      /\ call' = call /\ pendingCommits' = pendingCommits /\ acknowledged' = acknowledged /\ committed' = committed
      /\ response' = response /\ waiting' = waiting /\ sequences' = sequences /\ epoch' = epoch /\ failed' = failed
      /\ bytes' = bytes /\ instructionSlots' = instructionSlots /\ initialImages' = initialImages
      /\ generation' = generation
  BY Zenon DEF memoryVars, ledgerVars, serviceVars, sessionVars
<1>2. Types'
  BY Zenon, <1>1 DEF PortInv, Types
<1>3. Bytes' /\ Settled' /\ Issued' /\ Frozen'
  BY Zenon, <1>1 DEF PortInv, Bytes, Settled, Issued, Frozen
<1>4. Asked'
  <2>1. failed' <=> failed
    BY <1>1
  <2> QED BY Zenon, <1>1, <2>1 DEF PortInv, Asked, Held
<1>5. Stream'
  BY Zenon, <1>1 DEF PortInv, Stream, Written
<1>6. Running'
  BY Zenon, <1>1 DEF PortInv, Running, Storable, Memory!Loadable, Memory!Budget, Memory!Determined, Place
<1> QED BY Zenon, <1>2, <1>3, <1>4, <1>5, <1>6 DEF PortInv

\* A request that goes to the ledger at once.
LEMMA AskKeeps ==
  ASSUME PortInv, NEW port \in Ports, Asks(port), NEW access \in Accesses, Starts(Key(port), access),
         sequences' = [sequences EXCEPT ![port] = @ + 1],
         UNCHANGED <<memoryVars, pendingCommits, acknowledged, committed, response, waiting, epoch, failed>>
  PROVE  PortInv'
<1>1. Types /\ Asked /\ call = None /\ ~failed /\ (port = "instr" => waiting = None) /\ sequences[port] < MaxSequence
  BY Zenon DEF PortInv, Asks, AtRest
<1>2. /\ Key(port) \in Ledger!Keys /\ Key(port)[1] = <<port, epoch>> /\ sequences[port] + 1 \in 1..MaxSequence
      /\ Key(port)[1][1] = port /\ Key(port)[1][2] = epoch
  <2>1. Key(port)[1] = <<port, epoch>>
    BY Zenon, <1>1, NextKey
  <2>2. <<port, epoch>>[1] = port /\ <<port, epoch>>[2] = epoch
    OBVIOUS
  <2> QED BY Zenon, <1>1, <2>1, <2>2, NextKey
<1>3. UNCHANGED <<memoryVars, pendingCommits, acknowledged, committed, response, epoch>>
  BY Zenon
<1>4. /\ entries' \in [Ledger!Keys -> Ledger!Entry \cup {None}] /\ nextChannelSequence' \in [Channels -> Nat]
      /\ call' \in Calls /\ call' # None
      /\ Bytes' /\ Running' /\ Settled' /\ Issued' /\ Frozen' /\ Stream'
  BY Zenon, <1>1, <1>2, <1>3, StartKeeps
<1>5. /\ sequences' \in [Ports -> 0..MaxSequence] /\ sequences'[port] = sequences[port] + 1
      /\ \A p \in Ports : p # port => sequences'[p] = sequences[p]
  <2>1. sequences \in [Ports -> 0..MaxSequence] /\ sequences[port] + 1 \in 0..MaxSequence
    BY <1>1, <1>2 DEF Types
  <2> QED BY Zenon, <2>1
<1>6. Types'
  BY Zenon, <1>1, <1>3, <1>4, <1>5 DEF Types
<1>7. /\ nextChannelSequence'[<<port, epoch>>] = nextChannelSequence[<<port, epoch>>] + 1
      /\ \A p \in Ports : p # port => nextChannelSequence'[<<p, epoch>>] = nextChannelSequence[<<p, epoch>>]
  <2>1. \A p \in Ports : <<p, epoch>> \in Channels
    BY Zenon, <1>1 DEF Types, Channels
  <2>2. nextChannelSequence \in [Channels -> Nat]
        /\ nextChannelSequence' = [nextChannelSequence EXCEPT ![<<port, epoch>>] = @ + 1]
    BY Zenon, <1>1, <1>2 DEF Types, Starts
  <2>3. \A p \in Ports : p # port => <<p, epoch>> # <<port, epoch>>
    OBVIOUS
  <2> QED BY Zenon, <2>1, <2>2, <2>3
<1>8. /\ ~Held(port) /\ ~Held(port)' /\ \A p \in Ports : p # port => (Held(p)' <=> Held(p))
  <2>1. call'.key[1][1] = port
    BY Zenon, <1>2 DEF Starts
  <2>2. "instr" # "data"
    OBVIOUS
  <2>3. waiting' = waiting
    BY Zenon
  <2> QED BY Zenon, <1>1, <1>4, <2>1, <2>2, <2>3 DEF Held, Ports
<1>9. nextChannelSequence[<<port, epoch>>] = sequences[port] + 1
  BY Zenon, <1>1, <1>8 DEF Asked
<1>10. ASSUME NEW p \in Ports
       PROVE  nextChannelSequence'[<<p, epoch>>] = IF Held(p)' THEN sequences'[p] ELSE sequences'[p] + 1
  <2>1. CASE p = port
    BY <1>5, <1>7, <1>8, <1>9, <2>1
  <2>2. CASE p # port
    BY Zenon, <1>1, <1>5, <1>7, <1>8, <2>2 DEF Asked
  <2> QED BY Zenon, <2>1, <2>2
<1>11. waiting' # None => /\ waiting'.key = <<<<"instr", epoch'>>, sequences'["instr"]>>
                          /\ response'["instr"] = None
                          /\ Held("instr")' => nextChannelSequence'[<<"instr", epoch'>>] = sequences'["instr"]
  <2>1. "instr" \in Ports
    BY Zenon DEF Ports
  <2>2. waiting' = waiting /\ response' = response /\ epoch' = epoch
    BY Zenon
  <2> QED BY Zenon, <1>1, <1>5, <1>10, <2>1, <2>2 DEF Asked
<1>12. Asked'
  BY Zenon, <1>3, <1>10, <1>11 DEF Asked
<1> QED BY Zenon, <1>4, <1>6, <1>12 DEF PortInv

\* A request of a port: it goes to the ledger, or waits for its instructions.
LEMMA LoadKeeps ==
  ASSUME PortInv, NEW port \in Ports, NEW address \in Words, Load(port, address)
  PROVE  PortInv'
<1>1. Types /\ Running /\ Asked /\ call = None /\ Asks(port) /\ ~failed /\ (port = "instr" => waiting = None)
      /\ sequences[port] < MaxSequence /\ response[port] = None
  BY Zenon DEF PortInv, Load, Asks, AtRest
<1>2. /\ Key(port) \in Ledger!Keys /\ Key(port) = <<<<port, epoch>>, sequences[port] + 1>>
      /\ sequences[port] + 1 \in 0..MaxSequence
  <2>1. Key(port) \in Ledger!Keys /\ sequences[port] + 1 \in 1..MaxSequence
    BY Zenon, <1>1, NextKey
  <2> QED BY <2>1, PortConstants DEF Key
<1>3. sequences' = [sequences EXCEPT ![port] = @ + 1]
      /\ UNCHANGED <<memoryVars, pendingCommits, acknowledged, committed, response, epoch, failed>>
  BY Zenon DEF Load
<1>4. CASE ServiceRead(Key(port), address) /\ UNCHANGED waiting
  <2>1. PICK access \in Accesses : Starts(Key(port), access)
    BY Zenon, <1>1, <1>2, <1>4, ReadStarts
  <2>2. UNCHANGED <<memoryVars, pendingCommits, acknowledged, committed, response, waiting, epoch, failed>>
    BY Zenon, <1>3, <1>4
  <2> QED BY Zenon, <1>1, <1>3, <2>1, <2>2, AskKeeps
<1>5. CASE port = "instr" /\ waiting' = [key |-> Key(port), address |-> address] /\ UNCHANGED <<ledgerVars, call>>
  <2>1. /\ entries' = entries /\ nextChannelSequence' = nextChannelSequence /\ stack' = stack
        /\ call' = call /\ pendingCommits' = pendingCommits /\ acknowledged' = acknowledged /\ committed' = committed
        /\ response' = response /\ epoch' = epoch /\ failed' = failed
        /\ bytes' = bytes /\ instructionSlots' = instructionSlots /\ initialImages' = initialImages
        /\ generation' = generation
    BY Zenon, <1>3, <1>5 DEF memoryVars, ledgerVars
  <2>2. /\ waiting' \in Fetches /\ waiting' # None /\ waiting'.key = <<<<"instr", epoch>>, sequences["instr"] + 1>>
    <3>1. waiting' \in Fetches
      BY Zenon, <1>2, <1>5 DEF Fetches
    <3>2. waiting'.key = Key(port)
      BY <1>5
    <3> QED BY Zenon, <1>2, <1>5, <3>1, <3>2, PortConstants
  <2>3. /\ sequences' \in [Ports -> 0..MaxSequence] /\ sequences'["instr"] = sequences["instr"] + 1
        /\ \A p \in Ports : p # "instr" => sequences'[p] = sequences[p]
    BY Zenon, <1>1, <1>2, <1>3, <1>5 DEF Types
  <2>4. Types'
    BY Zenon, <1>1, <2>1, <2>2, <2>3 DEF Types
  <2>5. Bytes' /\ Settled' /\ Issued' /\ Frozen'
    BY Zenon, <2>1 DEF PortInv, Bytes, Settled, Issued, Frozen
  <2>6. Stream'
    BY Zenon, <2>1 DEF PortInv, Stream, Written
  <2>7. Running'
    BY Zenon, <1>1, <2>1 DEF Running
  <2>8. /\ nextChannelSequence[<<"instr", epoch>>] = sequences["instr"] + 1
        /\ \A p \in Ports : p # "instr" => nextChannelSequence[<<p, epoch>>] = sequences[p] + 1
    BY Zenon, <1>1, <1>5 DEF Asked, Held
  <2>9. Held("instr")' /\ \A p \in Ports : p # "instr" => ~Held(p)'
    BY Zenon, <1>1, <2>1, <2>2 DEF Held
  <2>10. ASSUME NEW p \in Ports
         PROVE  nextChannelSequence'[<<p, epoch'>>] = IF Held(p)' THEN sequences'[p] ELSE sequences'[p] + 1
    BY Zenon, <2>1, <2>3, <2>8, <2>9
  <2>11. Asked'
    BY Zenon, <1>1, <1>5, <2>1, <2>2, <2>3, <2>8, <2>10 DEF Asked
  <2> QED BY Zenon, <2>4, <2>5, <2>6, <2>7, <2>11 DEF PortInv
<1> QED BY Zenon, <1>4, <1>5 DEF Load

LEMMA StoreKeeps ==
  ASSUME PortInv, NEW address \in Words, NEW enabled \in SUBSET Lanes(address), NEW value \in [enabled -> Values],
         Store(address, enabled, value)
  PROVE  PortInv'
<1>1. Types /\ Running /\ call = None /\ Asks("data") /\ sequences["data"] < MaxSequence /\ "data" \in Ports
  BY Zenon DEF PortInv, Store, Asks, AtRest, Ports
<1>2. Key("data") \in Ledger!Keys /\ Key("data")[1][1] = "data"
  <2>1. Key("data")[1] = <<"data", epoch>>
    BY Zenon, <1>1, NextKey
  <2>2. Key("data")[1][1] = "data"
    BY <2>1
  <2> QED BY Zenon, <1>1, <2>2, NextKey
<1>3. PICK access \in Accesses : Starts(Key("data"), access)
  BY Zenon, <1>1, <1>2, WriteStarts DEF Store
<1>4. sequences' = [sequences EXCEPT !["data"] = @ + 1]
      /\ UNCHANGED <<memoryVars, pendingCommits, acknowledged, committed, response, waiting, epoch, failed>>
  BY Zenon DEF Store
<1> QED BY Zenon, <1>1, <1>3, <1>4, AskKeeps

\* The retry of a fetch that waits.
LEMMA ResumeKeeps ==
  ASSUME PortInv, NEW from, NEW to, Resume(from, to)
  PROVE  PortInv'
<1>1. Types /\ Running /\ Asked /\ call = None /\ ~failed
  BY Zenon DEF PortInv, Resume, AtRest
<1>2. UNCHANGED <<memoryVars, pendingCommits, acknowledged, committed, sessionVars, failed>>
  BY Zenon DEF Resume
<1>3. CASE waiting # None /\ ServiceRead(waiting.key, waiting.address)
  <2>1. waiting.key \in Ledger!Keys /\ waiting.address \in Words
    BY <1>1, <1>3 DEF Types, Fetches
  <2>2. /\ waiting.key = <<<<"instr", epoch>>, sequences["instr"]>> /\ response["instr"] = None
        /\ nextChannelSequence[<<"instr", epoch>>] = sequences["instr"]
    BY Zenon, <1>1, <1>3 DEF Asked, Held
  <2>3. waiting.key[1] = <<"instr", epoch>> /\ waiting.key[1][1] = "instr" /\ waiting.key[1][2] = epoch
    BY <2>2
  <2>4. PICK access \in Accesses : Starts(waiting.key, access)
    BY Zenon, <1>1, <1>3, <2>1, ReadStarts
  <2>5. /\ UNCHANGED <<memoryVars, pendingCommits, acknowledged, committed, response, epoch>>
        /\ waiting' = waiting /\ sequences' = sequences /\ response' = response /\ epoch' = epoch
    BY Zenon, <1>2 DEF sessionVars
  <2>6. /\ entries' \in [Ledger!Keys -> Ledger!Entry \cup {None}] /\ nextChannelSequence' \in [Channels -> Nat]
        /\ call' \in Calls /\ call' # None
        /\ Bytes' /\ Running' /\ Settled' /\ Issued' /\ Frozen' /\ Stream'
    BY Zenon, <1>1, <2>1, <2>3, <2>4, <2>5, StartKeeps
  <2>7. Types'
    BY Zenon, <1>1, <2>5, <2>6 DEF Types
  <2>8. \A p \in Ports : ~Held(p)'
    <3>1. call'.key[1][1] = "instr"
      BY Zenon, <2>3, <2>4 DEF Starts
    <3>2. "instr" # "data"
      OBVIOUS
    <3> QED BY Zenon, <2>6, <3>1, <3>2 DEF Held
  <2>9. ASSUME NEW p \in Ports
        PROVE  nextChannelSequence'[<<p, epoch>>] = sequences[p] + 1
    <3>1. nextChannelSequence' = [nextChannelSequence EXCEPT ![<<"instr", epoch>>] = @ + 1]
      BY Zenon, <2>3, <2>4 DEF Starts
    <3>2. nextChannelSequence \in [Channels -> Nat] /\ <<p, epoch>> \in Channels /\ <<"instr", epoch>> \in Channels
      BY Zenon, <1>1 DEF Types, Channels, Ports
    <3>3. CASE p = "instr"
      BY Zenon, <2>2, <3>1, <3>2, <3>3
    <3>4. CASE p # "instr"
      <4>1. <<p, epoch>> # <<"instr", epoch>>
        BY <3>4
      <4>2. nextChannelSequence[<<p, epoch>>] = sequences[p] + 1
        BY Zenon, <1>1, <3>4 DEF Asked, Held
      <4> QED BY Zenon, <3>1, <3>2, <4>1, <4>2
    <3> QED BY Zenon, <3>3, <3>4
  <2>10. Asked'
    BY Zenon, <2>2, <2>5, <2>8, <2>9 DEF Asked, Ports
  <2> QED BY Zenon, <2>6, <2>7, <2>10 DEF PortInv
<1>4. CASE UNCHANGED <<ledgerVars, call>>
  <2>1. UNCHANGED <<memoryVars, ledgerVars, serviceVars, sessionVars, failed>>
    BY Zenon, <1>2, <1>4 DEF serviceVars
  <2> QED BY Zenon, <2>1, RestKeeps
<1> QED BY Zenon, <1>3, <1>4 DEF Resume

\* A refused access ends the test: its sequence number is spent, its key is not.
LEMMA RefusedKeeps ==
  ASSUME PortInv, NEW port \in Ports, NEW address, NEW enabled, Refused(port, address, enabled)
  PROVE  PortInv'
<1>1. Types /\ Running /\ Asked /\ call = None /\ (port = "instr" => waiting = None) /\ sequences[port] < MaxSequence
  BY Zenon DEF PortInv, Refused, Asks, AtRest
<1>2. /\ entries' = entries /\ nextChannelSequence' = nextChannelSequence /\ stack' = stack
      /\ call' = call /\ pendingCommits' = pendingCommits /\ acknowledged' = acknowledged /\ committed' = committed
      /\ response' = response /\ waiting' = waiting /\ epoch' = epoch /\ failed'
      /\ bytes' = bytes /\ instructionSlots' = instructionSlots /\ initialImages' = initialImages
      /\ generation' = generation /\ sequences' = [sequences EXCEPT ![port] = @ + 1]
  BY Zenon DEF Refused, memoryVars, ledgerVars, serviceVars
<1>3. sequences[port] + 1 \in 0..MaxSequence
  BY <1>1, PortConstants DEF Types
<1>4. /\ sequences' \in [Ports -> 0..MaxSequence]
      /\ \A p \in Ports : p # port => sequences'[p] = sequences[p]
  BY Zenon, <1>1, <1>2, <1>3 DEF Types
<1>5. Types'
  BY Zenon, <1>1, <1>2, <1>4 DEF Types
<1>6. Bytes' /\ Settled' /\ Issued' /\ Frozen'
  BY Zenon, <1>2 DEF PortInv, Bytes, Settled, Issued, Frozen
<1>7. Stream'
  BY Zenon, <1>2 DEF PortInv, Stream, Written
<1>8. Running'
  BY Zenon, <1>1, <1>2 DEF Running
<1>9. Asked'
  BY Zenon, <1>1, <1>2, <1>4 DEF Asked, Held, Ports
<1> QED BY Zenon, <1>5, <1>6, <1>7, <1>8, <1>9 DEF PortInv

\* The CPU takes its response.
LEMMA PortRestsKeeps ==
  ASSUME PortInv, NEW port \in Ports, PortRests(port)
  PROVE  PortInv'
<1>1. Types /\ Running /\ Asked /\ Frozen /\ call = None
  BY Zenon DEF PortInv, PortRests, AtRest
<1>2. /\ entries' = entries /\ nextChannelSequence' = nextChannelSequence /\ stack' = stack
      /\ call' = call /\ pendingCommits' = pendingCommits /\ acknowledged' = acknowledged /\ committed' = committed
      /\ waiting' = waiting /\ epoch' = epoch /\ failed' = failed /\ sequences' = sequences
      /\ bytes' = bytes /\ instructionSlots' = instructionSlots /\ initialImages' = initialImages
      /\ generation' = generation
  BY Zenon DEF PortRests, memoryVars, ledgerVars, serviceVars
<1>3. /\ response' \in [Ports -> Responses \cup {None}]
      /\ \A p \in Ports : response'[p] = response[p] \/ response'[p] = None
  <2>1. response' = response \/ response' = [response EXCEPT ![port] = None]
    BY Zenon DEF PortRests
  <2> QED BY Zenon, <1>1, <2>1 DEF Types
<1>4. Types'
  BY Zenon, <1>1, <1>2, <1>3 DEF Types
<1>5. Bytes' /\ Settled' /\ Issued'
  BY Zenon, <1>2 DEF PortInv, Bytes, Settled, Issued
<1>6. Stream'
  BY Zenon, <1>2 DEF PortInv, Stream, Written
<1>7. Running'
  BY Zenon, <1>1, <1>2 DEF Running
<1>8. Frozen'
  BY Zenon, <1>1, <1>2, <1>3 DEF Frozen
<1>9. Asked'
  <2>1. failed' <=> failed
    BY <1>2
  <2> QED BY Zenon, <1>1, <1>2, <1>3, <2>1 DEF Asked, Held, Ports
<1> QED BY Zenon, <1>4, <1>5, <1>6, <1>7, <1>8, <1>9 DEF PortInv

\* Windows do not overlap, so an address means one place.
LEMMA OnePlace ==
  ASSUME NEW address \in Words, NEW place \in Memory!Resolve(address, WordBytes)
  PROVE  Memory!Span(place, WordBytes) = Lanes(address)
<1>1. Place(address) \in Memory!Resolve(address, WordBytes)
  BY Zenon DEF Place
<1>2. PICK v \in Windows : /\ v.base <= address /\ address + WordBytes <= v.base + Size[v.memory_id]
                           /\ place = <<v.memory_id, address - v.base>>
  BY Zenon DEF Memory!Resolve
<1>3. PICK w \in Windows : /\ w.base <= address /\ address + WordBytes <= w.base + Size[w.memory_id]
                           /\ Place(address) = <<w.memory_id, address - w.base>>
  BY Zenon, <1>1 DEF Memory!Resolve
<1>4. v = w
  <2>1. /\ v.base \in Nat /\ w.base \in Nat /\ Size[v.memory_id] \in Nat /\ Size[w.memory_id] \in Nat
        /\ WordBytes \in Nat \ {0}
        /\ v # w => v.base + Size[v.memory_id] <= w.base \/ w.base + Size[w.memory_id] <= v.base
    BY PortConstants DEF Memory!MemoryConstants
  <2>2. address \in Nat
    <3>1. PICK u \in Windows : address \in u.base..(u.base + Size[u.memory_id] - 1)
      BY Zenon DEF Words, Memory!Addresses
    <3>2. u.base \in Nat /\ Size[u.memory_id] \in Nat
      BY <3>1, PortConstants DEF Memory!MemoryConstants
    <3> QED BY <3>1, <3>2
  <2> QED BY <1>2, <1>3, <2>1, <2>2
<1> QED BY Zenon, <1>2, <1>3, <1>4 DEF Lanes

\* Filled bytes have values.
LEMMA FillKeeps ==
  ASSUME Bytes, NEW cells, NEW value, NEW version, NEW kind, \A c \in cells : value[c] \in Values,
         bytes' = Memory!Fill(cells, value, version, kind)
  PROVE  \A c \in Memory!Cells : bytes'[c] = Undetermined \/ bytes'[c].value \in Values
<1> SUFFICES ASSUME NEW c \in Memory!Cells PROVE bytes'[c] = Undetermined \/ bytes'[c].value \in Values
  OBVIOUS
<1>1. bytes'[c] = IF c \in cells THEN Memory!ByteCell(value[c], version, kind) ELSE bytes[c]
  BY Zenon DEF Memory!Fill
<1>2. CASE c \in cells
  <2>1. bytes'[c].value = value[c]
    BY <1>1, <1>2 DEF Memory!ByteCell
  <2> QED BY Zenon, <1>2, <2>1
<1>3. CASE c \notin cells
  BY Zenon, <1>1, <1>3 DEF Bytes
<1> QED BY Zenon, <1>2, <1>3

\* New instructions change bytes and nothing else that counts here.
LEMMA AcceptKeeps ==
  ASSUME PortInv, NEW address \in Words, NEW value \in [Lanes(address) -> Values], AcceptInstructions(address, value)
  PROVE  PortInv'
<1>1. Types /\ Running /\ Bytes /\ Asked /\ call = None
  BY Zenon DEF PortInv, AcceptInstructions, AtRest
<1>2. /\ entries' = entries /\ nextChannelSequence' = nextChannelSequence /\ stack' = stack
      /\ call' = call /\ pendingCommits' = pendingCommits /\ acknowledged' = acknowledged /\ committed' = committed
      /\ response' = response /\ waiting' = waiting /\ sequences' = sequences /\ epoch' = epoch /\ failed' = failed
  BY Zenon DEF AcceptInstructions, ledgerVars, serviceVars, sessionVars
<1>3. Bytes'
  <2>1. PICK place \in Memory!Resolve(address, WordBytes) :
          /\ bytes' = Memory!Fill(Memory!Span(place, WordBytes), value, Memory!NextVersion(place[1]), "INSTRUCTION_SOURCE")
          /\ initialImages' = initialImages /\ generation' = generation
    BY Zenon DEF AcceptInstructions, Memory!AcceptInstructions
  <2>2. \A c \in Memory!Span(place, WordBytes) : value[c] \in Values
    BY Zenon, OnePlace
  <2>3. \A c \in Memory!Cells : bytes'[c] = Undetermined \/ bytes'[c].value \in Values
    BY Zenon, <1>1, <2>1, <2>2, FillKeeps
  <2> QED BY Zenon, <1>1, <2>1, <2>3 DEF Bytes
<1>4. Types'
  BY Zenon, <1>1, <1>2 DEF Types
<1>5. Settled' /\ Issued' /\ Frozen'
  BY Zenon, <1>2 DEF PortInv, Settled, Issued, Frozen
<1>6. Stream'
  BY Zenon, <1>2 DEF PortInv, Stream, Written
<1>7. Running'
  BY Zenon, <1>1, <1>2 DEF Running
<1>8. Asked'
  <2>1. failed' <=> failed
    BY <1>2
  <2> QED BY Zenon, <1>1, <1>2, <2>1 DEF Asked, Held
<1> QED BY Zenon, <1>3, <1>4, <1>5, <1>6, <1>7, <1>8 DEF PortInv

\* The runner takes a prefix of the stream.
LEMMA AcknowledgeKeeps ==
  ASSUME PortInv, NEW n \in 1..Len(pendingCommits), Acknowledge(n)
  PROVE  PortInv'
<1>1. Types /\ Running /\ Asked /\ Stream /\ call = None
  BY Zenon DEF PortInv, Acknowledge, AtRest
<1>2. /\ entries' = entries /\ nextChannelSequence' = nextChannelSequence /\ stack' = stack
      /\ call' = call /\ committed' = committed
      /\ response' = response /\ waiting' = waiting /\ sequences' = sequences /\ epoch' = epoch /\ failed' = failed
      /\ bytes' = bytes /\ instructionSlots' = instructionSlots /\ initialImages' = initialImages
      /\ generation' = generation
      /\ pendingCommits' = SubSeq(pendingCommits, n + 1, Len(pendingCommits))
      /\ acknowledged' = acknowledged \o SubSeq(pendingCommits, 1, n)
  BY Zenon DEF Acknowledge, memoryVars, ledgerVars, sessionVars
<1>3. pendingCommits \in Seq(Ledger!Keys) /\ acknowledged \in Seq(Ledger!Keys)
  BY Zenon, <1>1 DEF Types
<1>4. pendingCommits' \in Seq(Ledger!Keys) /\ acknowledged' \in Seq(Ledger!Keys)
      /\ Len(pendingCommits') = Len(pendingCommits) - n
  BY <1>2, <1>3
<1>5. acknowledged' \o pendingCommits' = acknowledged \o pendingCommits
  <2> DEFINE front == SubSeq(pendingCommits, 1, n)
             back == SubSeq(pendingCommits, n + 1, Len(pendingCommits))
  <2>1. front \in Seq(Ledger!Keys) /\ back \in Seq(Ledger!Keys)
    BY <1>3
  <2>2. front \o back = pendingCommits
    BY <1>3
  <2>3. (acknowledged \o front) \o back = acknowledged \o (front \o back)
    <3> HIDE DEF front, back
    <3> QED BY <1>3, <2>1
  <2> QED BY Zenon, <1>2, <2>2, <2>3
<1>6. Stream'
  <2>1. Len(pendingCommits') <= Capacity
    BY <1>1, <1>3, <1>4, PortConstants DEF Stream
  <2> QED BY Zenon, <1>1, <1>2, <1>5, <2>1 DEF Stream, Written
<1>7. Types'
  BY Zenon, <1>1, <1>2, <1>4 DEF Types
<1>8. Bytes' /\ Settled' /\ Issued' /\ Frozen'
  BY Zenon, <1>2 DEF PortInv, Bytes, Settled, Issued, Frozen
<1>9. Running'
  BY Zenon, <1>1, <1>2 DEF Running
<1>10. Asked'
  <2>1. failed' <=> failed
    BY <1>2
  <2> QED BY Zenon, <1>1, <1>2, <2>1 DEF Asked, Held
<1> QED BY Zenon, <1>6, <1>7, <1>8, <1>9, <1>10 DEF PortInv

\* A reset opens new channels: the answers and the fetch of the old epoch are dropped, its commits are not.
LEMMA ResetKeeps ==
  ASSUME PortInv, Reset
  PROVE  PortInv'
<1>1. Types /\ Running /\ Bytes /\ Issued /\ call = None /\ epoch < MaxEpoch
  BY Zenon DEF PortInv, Reset, AtRest
<1>2. /\ entries' = entries /\ nextChannelSequence' = nextChannelSequence /\ stack' = stack
      /\ call' = call /\ pendingCommits' = pendingCommits /\ acknowledged' = acknowledged /\ committed' = committed
      /\ response' = [p \in Ports |-> None] /\ waiting' = None /\ sequences' = [p \in Ports |-> 0]
      /\ epoch' = epoch + 1
  BY Zenon DEF Reset, ledgerVars, serviceVars
<1>3. epoch \in 0..MaxEpoch /\ MaxEpoch \in Nat /\ MaxSequence \in Nat
  BY Zenon, <1>1, PortConstants DEF Types
<1>4. epoch + 1 \in 0..MaxEpoch /\ 0 \in 0..MaxSequence /\ epoch + 1 > epoch /\ 0 + 1 = 1
      /\ \A e \in 0..MaxEpoch : e > epoch + 1 => e > epoch
  BY <1>1, <1>3
<1>5. Bytes'
  <2>1. /\ initialImages' = initialImages
        /\ \/ bytes' = bytes /\ generation' = generation
           \/ /\ \A c \in Memory!Cells : initialImages[c] = Undetermined => bytes'[c] = Undetermined
              /\ generation < MaxGeneration /\ generation' = generation + 1
    BY Zenon DEF Reset, Memory!WarmReset, Memory!ColdReset
  <2>2. generation < MaxGeneration => generation + 1 \in 0..MaxGeneration
    BY <1>1, PortConstants DEF Bytes, Memory!MemoryConstants
  <2> QED BY Zenon, <1>1, <2>1, <2>2 DEF Bytes
<1>6. Types'
  BY Zenon, <1>1, <1>2, <1>4 DEF Types
<1>7. Settled'
  BY Zenon, <1>2 DEF PortInv, Settled
<1>8. Frozen'
  BY Zenon, <1>2 DEF Frozen
<1>9. Stream'
  BY Zenon, <1>2 DEF PortInv, Stream, Written
<1>10. Running'
  BY Zenon, <1>1, <1>2 DEF Running
<1>11. Issued'
  BY Zenon, <1>1, <1>2, <1>4 DEF Issued
<1>12. Asked'
  <2>1. ASSUME NEW p \in Ports PROVE nextChannelSequence'[<<p, epoch'>>] = sequences'[p] + 1
    BY Zenon, <1>1, <1>2, <1>4 DEF Issued
  <2> QED BY Zenon, <1>2, <2>1 DEF Asked, Held
<1> QED BY Zenon, <1>5, <1>6, <1>7, <1>8, <1>9, <1>10, <1>11, <1>12 DEF PortInv

\* The ledger freezes the receipt of the one call.
LEMMA OperationDone ==
  ASSUME PortInv, call # None, NEW receipt \in Data \cup {"written"}, Ledger!OperationReturns(receipt)
  PROVE  /\ call.key \in Ledger!Keys /\ entries' \in [Ledger!Keys -> Ledger!Entry \cup {None}]
         /\ entries'[call.key] # None /\ entries'[call.key].status = "complete"
         /\ entries'[call.key].receipt = receipt /\ entries'[call.key].digest = entries[call.key].digest
         /\ \A key \in Ledger!Keys : key # call.key => entries'[key] = entries[key]
         /\ stack' = <<>> /\ nextChannelSequence' = nextChannelSequence
<1>1. entries \in [Ledger!Keys -> Ledger!Entry \cup {None}] /\ call \in Calls /\ Running
  BY Zenon DEF PortInv, Types
<1>2. call.key \in Ledger!Keys
  BY <1>1 DEF Calls
<1>3. PICK n : stack = <<[key |-> call.key, expected |-> n]>>
  BY Zenon, <1>1 DEF Running
<1>4. Ledger!Top.key = call.key /\ SubSeq(stack, 1, Len(stack) - 1) = <<>>
  BY <1>3 DEF Ledger!Top
<1>5. /\ entries' = [entries EXCEPT ![call.key].receipt = receipt, ![call.key].status = "complete"]
      /\ stack' = <<>> /\ nextChannelSequence' = nextChannelSequence
  BY Zenon, <1>4 DEF Ledger!OperationReturns, Ledger!Pop
<1> DEFINE old == entries[call.key]
           new == [[old EXCEPT !.receipt = receipt] EXCEPT !.status = "complete"]
<1>6. old \in Ledger!Entry
  BY Zenon, <1>1, <1>2 DEF Running
<1>7. new \in Ledger!Entry /\ new.status = "complete" /\ new.receipt = receipt /\ new.digest = old.digest
  BY <1>6 DEF Ledger!Entry, Ledger!Statuses
<1>8. entries' = [entries EXCEPT ![call.key] = new]
  BY Zenon, <1>1, <1>2, <1>5
<1>9. new # None
  BY Zenon, <1>7, PortConstants
<1> HIDE DEF new, old
<1>10. /\ entries' \in [Ledger!Keys -> Ledger!Entry \cup {None}] /\ entries'[call.key] = new
       /\ \A key \in Ledger!Keys : key # call.key => entries'[key] = entries[key]
  BY Zenon, <1>1, <1>2, <1>7, <1>8
<1> QED BY Zenon, <1>2, <1>5, <1>7, <1>9, <1>10 DEF old

\* A commit answers its port, and the fetch that waited no longer does.
LEMMA CommitAnswers ==
  ASSUME PortInv, call # None, NEW receipt \in Data \cup {"written"}, Ledger!OperationReturns(receipt),
         response' = [response EXCEPT ![call.key[1][1]] = [key |-> call.key, data |-> receipt]],
         waiting' = IF call.key[1][1] = "instr" THEN None ELSE waiting,
         call' = None, UNCHANGED <<sequences, epoch, failed>>
  PROVE  /\ entries' \in [Ledger!Keys -> Ledger!Entry \cup {None}] /\ nextChannelSequence' \in [Channels -> Nat]
         /\ response' \in [Ports -> Responses \cup {None}] /\ waiting' \in Fetches \cup {None}
         /\ Running' /\ Settled' /\ Issued' /\ Asked' /\ Frozen'
<1> DEFINE port == call.key[1][1]
           answer == [key |-> call.key, data |-> receipt]
<1>1. /\ Types /\ Running /\ Settled /\ Issued /\ Asked /\ Frozen
      /\ sequences' = sequences /\ epoch' = epoch /\ failed' = failed
  BY Zenon DEF PortInv
<1>2. /\ call.key \in Ledger!Keys /\ entries' \in [Ledger!Keys -> Ledger!Entry \cup {None}]
      /\ entries'[call.key] # None /\ entries'[call.key].status = "complete"
      /\ entries'[call.key].receipt = receipt
      /\ \A key \in Ledger!Keys : key # call.key => entries'[key] = entries[key]
      /\ stack' = <<>> /\ nextChannelSequence' = nextChannelSequence
  BY Zenon, OperationDone
<1>3. port \in Ports /\ call.key[1] = <<port, epoch>> /\ entries[call.key] # None
      /\ entries[call.key].status = "target_inflight"
  <2>1. call.key[1] = <<port, call.key[1][2]>> /\ port \in Ports
    BY Zenon, <1>2, KeyParts
  <2> QED BY Zenon, <1>1, <2>1 DEF Running
<1>5. answer \in Responses /\ answer.key = call.key /\ answer.data = receipt
  BY <1>2 DEF Responses
<1> HIDE DEF answer, port
<1>6. response' = [response EXCEPT ![port] = answer]
  BY Zenon DEF answer, port
<1>7. /\ response' \in [Ports -> Responses \cup {None}] /\ response'[port] = answer
      /\ \A p \in Ports : p # port => response'[p] = response[p]
  BY Zenon, <1>1, <1>3, <1>5, <1>6 DEF Types
<1>8. waiting' = IF port = "instr" THEN None ELSE waiting
  BY Zenon DEF port
<1>9. waiting' \in Fetches \cup {None}
  BY Zenon, <1>1, <1>8 DEF Types
<1>10. nextChannelSequence' \in [Channels -> Nat]
  BY Zenon, <1>1, <1>2 DEF Types
<1>11. Running' /\ Settled'
  <2>1. Running'
    BY Zenon, <1>2 DEF Running
  <2>2. Settled'
    BY Zenon, <1>1, <1>2 DEF Settled
  <2> QED BY Zenon, <2>1, <2>2
<1>12. Issued'
  BY Zenon, <1>1, <1>2, <1>3 DEF Issued
<1>13. Frozen'
  <2>1. ASSUME NEW p \in Ports, response'[p] # None
        PROVE  /\ response'[p].key[1] = <<p, epoch'>> /\ entries'[response'[p].key] # None
               /\ entries'[response'[p].key].status = "complete"
               /\ entries'[response'[p].key].receipt = response'[p].data
    <3>1. CASE p = port
      BY Zenon, <1>1, <1>2, <1>3, <1>5, <1>7, <3>1
    <3>2. CASE p # port
      <4>1. response'[p] = response[p] /\ response[p] \in Responses
        BY Zenon, <1>1, <1>7, <2>1, <3>2 DEF Types
      <4>2. response[p].key \in Ledger!Keys
        BY <4>1 DEF Responses
      <4>3. "complete" # "target_inflight"
        OBVIOUS
      <4>4. response[p].key # call.key
        BY Zenon, <1>1, <1>3, <2>1, <4>1, <4>3 DEF Frozen
      <4> QED BY Zenon, <1>1, <1>2, <2>1, <4>1, <4>2, <4>4 DEF Frozen
    <3> QED BY Zenon, <3>1, <3>2
  <2> QED BY Zenon, <2>1 DEF Frozen
<1>14. Asked'
  <2>1. "instr" # "data" /\ "instr" \in Ports /\ (failed' <=> failed)
    BY <1>1 DEF Ports
  <2>2. \A p \in Ports : Held(p)' <=> Held(p)
    BY Zenon, <1>3, <1>8, <2>1 DEF Held, Ports, port
  <2>3. waiting' # None => waiting' = waiting /\ response'["instr"] = response["instr"]
    BY Zenon, <1>7, <1>8, <2>1
  <2>4. Held("instr")' <=> Held("instr")
    BY Zenon, <2>1, <2>2
  <2>5. (\A p \in Ports :
          nextChannelSequence[<<p, epoch>>] = IF Held(p) THEN sequences[p] ELSE sequences[p] + 1)' \/ failed
    <3> SUFFICES ASSUME ~failed, NEW p \in Ports
                 PROVE  nextChannelSequence'[<<p, epoch'>>] = IF Held(p)' THEN sequences'[p] ELSE sequences'[p] + 1
      BY Zenon
    <3> QED BY Zenon, <1>1, <1>2, <2>2 DEF Asked
  <2>6. waiting' # None => /\ waiting'.key = <<<<"instr", epoch'>>, sequences'["instr"]>>
                           /\ response'["instr"] = None
                           /\ Held("instr")' => nextChannelSequence'[<<"instr", epoch'>>] = sequences'["instr"]
    BY Zenon, <1>1, <1>2, <2>3, <2>4 DEF Asked
  <2> QED BY Zenon, <2>1, <2>5, <2>6 DEF Asked
<1> QED BY Zenon, <1>2, <1>7, <1>9, <1>10, <1>11, <1>12, <1>13, <1>14

\* The commit of a read: what it returns are values of bytes of the memory.
LEMMA CommitReadKeeps ==
  ASSUME PortInv, CommitRead, call' = None, UNCHANGED <<sequences, epoch, failed>>
  PROVE  PortInv'
<1>1. /\ Types /\ Bytes /\ Running /\ Stream /\ call \in Calls /\ call # None /\ call.op = "read"
      /\ Memory!Read(call.address, WordBytes) /\ Ledger!OperationReturns(reply')
      /\ pendingCommits' = pendingCommits /\ acknowledged' = acknowledged /\ committed' = committed
      /\ sequences' = sequences /\ epoch' = epoch /\ failed' = failed
  BY Zenon DEF PortInv, Types, CommitRead
<1>2. call.address \in Words
  BY <1>1 DEF Calls
<1>3. PICK place \in Memory!Resolve(call.address, WordBytes) :
        /\ Memory!Materialize(place, WordBytes)
        /\ reply' = [c \in Memory!Span(place, WordBytes) |-> bytes'[c].value]
  BY Zenon, <1>1 DEF Memory!Read
<1> DEFINE span == Memory!Span(place, WordBytes)
           missing == span \ Memory!Determined
           first == [c \in missing |-> InitialByte[<<generation, c>>]]
<1>4. span \subseteq Memory!Cells
  BY Zenon, <1>2, SpanCells
<1>5. bytes' = Memory!Fill(missing, first, Memory!NextVersion(place[1]), "FIRST_READ")
  BY Zenon, <1>3 DEF Memory!Materialize
<1>6. \A c \in missing : first[c] \in Values
  <2>1. InitialByte \in [(0..MaxGeneration) \X Memory!Cells -> Values] /\ generation \in 0..MaxGeneration
    BY Zenon, <1>1, PortConstants DEF Bytes, Memory!MemoryConstants
  <2>2. ASSUME NEW c \in missing PROVE first[c] \in Values
    <3>1. <<generation, c>> \in (0..MaxGeneration) \X Memory!Cells
      BY Zenon, <1>4, <2>1
    <3>2. InitialByte[<<generation, c>>] \in Values
      BY Zenon, <2>1, <3>1
    <3> QED BY Zenon, <3>2
  <2> QED BY Zenon, <2>2
<1>7. \A c \in span : bytes'[c].value \in Values
  <2> SUFFICES ASSUME NEW c \in span PROVE bytes'[c].value \in Values
    OBVIOUS
  <2>1. c \in Memory!Cells
    BY Zenon, <1>4
  <2>2. bytes'[c] = IF c \in missing THEN Memory!ByteCell(first[c], Memory!NextVersion(place[1]), "FIRST_READ") ELSE bytes[c]
    <3> HIDE DEF missing, first
    <3> QED BY Zenon, <1>5, <2>1 DEF Memory!Fill
  <2>3. CASE c \in missing
    <3>1. first[c] \in Values
      BY Zenon, <1>6, <2>3
    <3>2. bytes'[c].value = first[c]
      <4> HIDE DEF missing, first
      <4> QED BY <2>2, <2>3 DEF Memory!ByteCell
    <3> QED BY Zenon, <3>1, <3>2
  <2>4. CASE c \notin missing
    <3>1. bytes[c] # Undetermined
      BY Zenon, <2>1, <2>4 DEF Memory!Determined
    <3> QED BY Zenon, <1>1, <2>1, <2>2, <2>4, <3>1 DEF Bytes
  <2> QED BY Zenon, <2>3, <2>4
<1>8. reply' \in Data
  <2>1. reply' \in [span -> Values]
    BY Zenon, <1>3, <1>7
  <2> HIDE DEF span
  <2> QED BY Zenon, <1>4, <2>1 DEF Data
<1>9. Bytes'
  <2>1. \A c \in Memory!Cells : bytes'[c] = Undetermined \/ bytes'[c].value \in Values
    <3> HIDE DEF missing, first
    <3> QED BY Zenon, <1>1, <1>5, <1>6, FillKeeps
  <2>2. initialImages' = initialImages /\ generation' = generation
    BY Zenon, <1>1 DEF Memory!Read
  <2> QED BY Zenon, <1>1, <2>1, <2>2 DEF Bytes
<1> HIDE DEF span, missing, first
<1>10. reply' \in Data \cup {"written"}
  BY Zenon, <1>8
<1>11. /\ response' = [response EXCEPT ![call.key[1][1]] = [key |-> call.key, data |-> reply']]
       /\ waiting' = IF call.key[1][1] = "instr" THEN None ELSE waiting
  BY Zenon DEF CommitRead
<1>12. /\ entries' \in [Ledger!Keys -> Ledger!Entry \cup {None}] /\ nextChannelSequence' \in [Channels -> Nat]
       /\ response' \in [Ports -> Responses \cup {None}] /\ waiting' \in Fetches \cup {None}
       /\ Running' /\ Settled' /\ Issued' /\ Asked' /\ Frozen'
  BY Zenon, <1>1, <1>10, <1>11, CommitAnswers
<1>13. Types'
  BY Zenon, <1>1, <1>12 DEF Types
<1>14. Stream'
  <2>1. /\ entries'[call.key].digest = entries[call.key].digest
        /\ \A key \in Ledger!Keys : key # call.key => entries'[key] = entries[key]
    BY Zenon, <1>1, <1>10, OperationDone
  <2>2. entries[call.key].digest.op = "read" /\ "read" # "write"
    BY Zenon, <1>1 DEF Running
  <2>3. \A key \in Ledger!Keys : key \in Written' <=> key \in Written
    BY Zenon, <2>1, <2>2 DEF Written
  <2>4. Written' = Written
    BY Zenon, <2>3 DEF Written
  <2> QED BY Zenon, <1>1, <2>4 DEF Stream
<1> QED BY Zenon, <1>9, <1>12, <1>13, <1>14 DEF PortInv

\* A stream with one more key.
LEMMA StreamGrows ==
  ASSUME NEW s \in Seq(Ledger!Keys), NEW key \in Ledger!Keys, IsInjective(s), key \notin Range(s)
  PROVE  /\ Append(s, key) \in Seq(Ledger!Keys) /\ IsInjective(Append(s, key))
         /\ Range(Append(s, key)) = Range(s) \cup {key}
<1> DEFINE t == Append(s, key)
<1>1. /\ t \in Seq(Ledger!Keys) /\ DOMAIN t = 1..(Len(s) + 1) /\ DOMAIN s = 1..Len(s) /\ Len(s) \in Nat
      /\ t[Len(s) + 1] = key /\ \A i \in 1..Len(s) : t[i] = s[i]
  OBVIOUS
<1> HIDE DEF t
<1>2. \A i \in DOMAIN t : i = Len(s) + 1 \/ i \in DOMAIN s
  BY <1>1
<1>3. \A i \in DOMAIN s : i \in DOMAIN t /\ t[i] = s[i] /\ s[i] # key
  <2>1. \A i \in DOMAIN s : i \in DOMAIN t
    BY <1>1
  <2> QED BY Zenon, <1>1, <2>1 DEF Range
<1>4. IsInjective(t)
  BY Zenon, <1>1, <1>2, <1>3 DEF IsInjective
<1>5. Range(t) = Range(s) \cup {key}
  <2>1. Len(s) + 1 \in DOMAIN t
    BY <1>1
  <2>2. Range(t) \subseteq Range(s) \cup {key}
    BY Zenon, <1>1, <1>2, <1>3 DEF Range
  <2>3. Range(s) \cup {key} \subseteq Range(t)
    BY Zenon, <1>1, <1>3, <2>1 DEF Range
  <2> QED BY Zenon, <2>2, <2>3
<1> QED BY Zenon, <1>1, <1>4, <1>5 DEF t

\* The commit of a write, and its publication.
LEMMA CommitWriteKeeps ==
  ASSUME PortInv, CommitWrite, call' = None, UNCHANGED <<sequences, epoch, failed>>
  PROVE  PortInv'
<1>1. /\ Types /\ Bytes /\ Running /\ Stream /\ call \in Calls /\ call # None /\ call.op = "write"
      /\ Ledger!OperationReturns("written") /\ acknowledged' = acknowledged /\ waiting' = waiting
      /\ pendingCommits' = Append(pendingCommits, call.key) /\ committed' = Append(committed, call.key)
      /\ sequences' = sequences /\ epoch' = epoch /\ failed' = failed
  BY Zenon DEF PortInv, Types, CommitWrite
<1>2. /\ call.key[1][1] = "data" /\ Storable(call.address, call.enabled) /\ call.value \in [call.enabled -> Values]
      /\ entries[call.key].digest.op = "write" /\ entries[call.key].status = "target_inflight"
  BY Zenon, <1>1 DEF Running
<1>3. Bytes'
  <2>1. CASE call.enabled = {}
    BY Zenon, <1>1, <2>1, SameMemory DEF CommitWrite
  <2>2. CASE call.enabled # {}
    <3>1. Memory!Write(call.address, WordBytes, call.enabled, call.value)
      BY Zenon, <2>2 DEF CommitWrite
    <3>2. PICK version : bytes' = Memory!Fill(call.enabled, call.value, version, "STORE")
      BY Zenon, <3>1 DEF Memory!Write
    <3>3. \A c \in call.enabled : call.value[c] \in Values
      BY Zenon, <1>2
    <3>4. \A c \in Memory!Cells : bytes'[c] = Undetermined \/ bytes'[c].value \in Values
      BY Zenon, <1>1, <3>2, <3>3, FillKeeps
    <3>5. initialImages' = initialImages /\ generation' = generation
      BY Zenon, <3>1 DEF Memory!Write
    <3> QED BY Zenon, <1>1, <3>4, <3>5 DEF Bytes
  <2> QED BY Zenon, <2>1, <2>2
<1>4. "written" \in Data \cup {"written"} /\ "data" # "instr"
  OBVIOUS
<1>5. /\ response' = [response EXCEPT ![call.key[1][1]] = [key |-> call.key, data |-> "written"]]
      /\ waiting' = IF call.key[1][1] = "instr" THEN None ELSE waiting
  BY Zenon, <1>1, <1>2, <1>4 DEF CommitWrite
<1>6. /\ entries' \in [Ledger!Keys -> Ledger!Entry \cup {None}] /\ nextChannelSequence' \in [Channels -> Nat]
      /\ response' \in [Ports -> Responses \cup {None}] /\ waiting' \in Fetches \cup {None}
      /\ Running' /\ Settled' /\ Issued' /\ Asked' /\ Frozen'
  BY Zenon, <1>1, <1>4, <1>5, CommitAnswers
<1>7. /\ call.key \in Ledger!Keys /\ entries'[call.key] # None /\ entries'[call.key].status = "complete"
      /\ entries'[call.key].digest = entries[call.key].digest
      /\ \A key \in Ledger!Keys : key # call.key => entries'[key] = entries[key]
  BY Zenon, <1>1, <1>4, OperationDone
<1>8. pendingCommits \in Seq(Ledger!Keys) /\ acknowledged \in Seq(Ledger!Keys) /\ committed \in Seq(Ledger!Keys)
  BY Zenon, <1>1 DEF Types
<1>9. call.key \notin Written /\ Written' = Written \cup {call.key}
  <2>1. "target_inflight" # "complete"
    OBVIOUS
  <2>2. call.key \notin Written
    BY Zenon, <1>2, <2>1 DEF Written
  <2>3. call.key \in Written'
    BY Zenon, <1>2, <1>7 DEF Written
  <2>4. \A key \in Ledger!Keys : key # call.key => (key \in Written' <=> key \in Written)
    BY Zenon, <1>7 DEF Written
  <2>5. Written \subseteq Ledger!Keys /\ Written' \subseteq Ledger!Keys
    BY Zenon DEF Written
  <2> QED BY Zenon, <2>2, <2>3, <2>4, <2>5
<1>10. /\ committed' \in Seq(Ledger!Keys) /\ IsInjective(committed') /\ Range(committed') = Range(committed) \cup {call.key}
  <2>1. IsInjective(committed) /\ Range(committed) = Written
    BY Zenon, <1>1 DEF Stream
  <2> QED BY Zenon, <1>1, <1>7, <1>8, <1>9, <2>1, StreamGrows
<1>11. pendingCommits' \in Seq(Ledger!Keys) /\ Len(pendingCommits') <= Capacity
  <2>1. Len(pendingCommits) < Capacity /\ Capacity \in Nat
    BY <1>2, PortConstants DEF Storable
  <2> QED BY <1>1, <1>7, <1>8, <2>1
<1>12. acknowledged' \o pendingCommits' = committed'
  <2>1. acknowledged \o pendingCommits = committed
    BY Zenon, <1>1 DEF Stream
  <2>2. acknowledged \o Append(pendingCommits, call.key) = Append(acknowledged \o pendingCommits, call.key)
    BY <1>7, <1>8
  <2> QED BY Zenon, <1>1, <2>1, <2>2
<1>13. Stream'
  BY Zenon, <1>1, <1>9, <1>10, <1>11, <1>12 DEF Stream
<1>14. Types'
  BY Zenon, <1>1, <1>6, <1>8, <1>10, <1>11 DEF Types
<1> QED BY Zenon, <1>3, <1>6, <1>13, <1>14 DEF PortInv

-----------------------------------------------------------------------------

LEMMA PortInit == Init => PortInv
<1> SUFFICES ASSUME Init PROVE PortInv
  OBVIOUS
<1>1. /\ bytes = [c \in Memory!Cells |-> Undetermined] /\ initialImages = [c \in Memory!Cells |-> Undetermined]
      /\ generation = 0
      /\ entries = [k \in Ledger!Keys |-> None] /\ nextChannelSequence = [c \in Channels |-> 1] /\ stack = <<>>
      /\ call = None /\ pendingCommits = <<>> /\ acknowledged = <<>> /\ committed = <<>>
      /\ response = [p \in Ports |-> None] /\ waiting = None /\ sequences = [p \in Ports |-> 0] /\ epoch = 0
  BY Zenon DEF Init, Memory!Empty, Ledger!Init, Channels
<1>2. 0 \in 0..MaxEpoch /\ 0 \in 0..MaxSequence /\ 0 \in 0..MaxGeneration /\ 1 \in Nat /\ 0 + 1 = 1
  BY PortConstants DEF Memory!MemoryConstants
<1>3. <<>> \in Seq(Ledger!Keys) /\ <<>> \o <<>> = <<>> /\ Len(<<>>) <= Capacity /\ DOMAIN <<>> = {}
  BY PortConstants
<1>4. Types
  BY Zenon, <1>1, <1>2, <1>3 DEF Types
<1>5. Bytes /\ Running /\ Settled /\ Frozen
  BY Zenon, <1>1, <1>2 DEF Bytes, Running, Settled, Frozen
<1>6. \A p \in Ports, e \in 0..MaxEpoch : nextChannelSequence[<<p, e>>] = 1
  <2>1. \A p \in Ports, e \in 0..MaxEpoch : <<p, e>> \in Channels
    BY Zenon DEF Channels
  <2> QED BY Zenon, <1>1, <2>1
<1>7. Issued
  BY Zenon, <1>1, <1>6 DEF Issued
<1>8. Asked
  BY Zenon, <1>1, <1>2, <1>6 DEF Asked, Held
<1>9. Stream
  <2>1. Written = {} /\ Range(committed) = {}
    BY Zenon, <1>1, <1>3 DEF Written, Range
  <2>2. IsInjective(committed)
    BY Zenon, <1>1, <1>3 DEF IsInjective
  <2> QED BY Zenon, <1>1, <1>3, <2>1, <2>2 DEF Stream
<1> QED BY Zenon, <1>4, <1>5, <1>7, <1>8, <1>9 DEF PortInv

LEMMA PortStep == PortInv /\ [Next]_vars => PortInv'
<1> SUFFICES ASSUME PortInv, [Next]_vars PROVE PortInv'
  OBVIOUS
<1>1. CASE BeginStep \/ ResumeAccepted
  BY Zenon, <1>1, ResumeKeeps DEF BeginStep, ResumeAccepted
<1>2. CASE Commit
  <2>1. call' = None /\ UNCHANGED <<sequences, epoch, failed>>
    BY Zenon, <1>2 DEF Commit
  <2> QED BY Zenon, <1>2, <2>1, CommitReadKeeps, CommitWriteKeeps DEF Commit
<1>3. CASE \E port \in Ports : PortRests(port)
  BY Zenon, <1>3, PortRestsKeeps
<1>4. CASE \E port \in Ports : \E address \in Words : Load(port, address)
  BY Zenon, <1>4, LoadKeeps
<1>5. CASE \E port \in Ports : \E address \in Words : \E enabled \in SUBSET Lanes(address) : Refused(port, address, enabled)
  BY Zenon, <1>5, RefusedKeeps
<1>6. CASE \E address \in Words : \E value \in [Lanes(address) -> Values] : AcceptInstructions(address, value)
  BY Zenon, <1>6, AcceptKeeps
<1>7. CASE \E address \in Words : \E enabled \in SUBSET Lanes(address) : \E value \in [enabled -> Values] :
             Store(address, enabled, value)
  BY Zenon, <1>7, StoreKeeps
<1>8. CASE \E n \in 1..Len(pendingCommits) : Acknowledge(n)
  BY Zenon, <1>8, AcknowledgeKeeps
<1>9. CASE Reset
  BY Zenon, <1>9, ResetKeeps
<1>10. CASE UNCHANGED vars
  <2>1. UNCHANGED <<memoryVars, ledgerVars, serviceVars, sessionVars, failed>>
    BY Zenon, <1>10 DEF vars
  <2> QED BY Zenon, <2>1, RestKeeps
<1> QED BY Zenon, <1>1, <1>2, <1>3, <1>4, <1>5, <1>6, <1>7, <1>8, <1>9, <1>10 DEF Next

LEMMA PortAlways == Spec => []PortInv
BY PortInit, PortStep, PTL DEF Spec

\* The validations hold until the commit: validate_read and validate_write of memory.py and the capacity
\* check of MemoryService run before the ledger hears of the key, and nothing that happens before the
\* target operation can undo what they found, so no access is left with an uncertain effect.
THEOREM CommitsSucceed == Spec => []CommitCannotFail
<1>1. PortInv => CommitCannotFail
  <2> SUFFICES ASSUME PortInv PROVE CommitCannotFail
    OBVIOUS
  <2>1. Types /\ Running /\ Settled
    BY Zenon DEF PortInv
  <2>2. ASSUME call # None
        PROVE  IF call.op = "read" THEN Memory!Loadable(Place(call.address), WordBytes)
               ELSE Storable(call.address, call.enabled)
    <3>1. call.op = "read" \/ call.op = "write"
      BY <2>1, <2>2 DEF Types, Calls
    <3> QED BY Zenon, <2>1, <2>2, <3>1 DEF Running
  <2>3. ASSUME NEW key \in Ledger!Keys
        PROVE  Ledger!Status[key] \in {"absent", "complete"} \/ (call # None /\ call.key = key)
    BY Zenon, <2>1, StatusIs DEF Settled
  <2> QED BY Zenon, <2>2, <2>3 DEF CommitCannotFail
<1> QED BY <1>1, PortAlways, PTL

\* The commit stream: _pending_commits and what ack_commit_events released hold every committed write
\* once and in the order of the effects, within commit_stream_capacity, across resets and refusals.
THEOREM StreamStaysExact == Spec => []StreamIsExact
<1>1. PortInv => StreamIsExact
  BY Zenon, StreamIs DEF PortInv
<1> QED BY <1>1, PortAlways, PTL

\* What the CPU session holds between steps: _pending_instr and _pending_data are frozen receipts of this
\* epoch, and the key of _waiting_instr is the one the ledger expects next on its channel.
THEOREM PortsStayCurrent == Spec => []PortsAreCurrent
<1>1. PortInv => PortsAreCurrent
  <2> SUFFICES ASSUME PortInv PROVE PortsAreCurrent
    OBVIOUS
  <2>1. Types /\ Issued /\ Asked /\ Frozen
    BY Zenon DEF PortInv
  <2>2. ResponsesFrozen
    BY Zenon, <2>1, FrozenIs
  <2>3. ASSUME waiting # None, call = None
        PROVE  /\ Ledger!Status[waiting.key] = "absent"
               /\ waiting.key = <<<<"instr", epoch>>, sequences["instr"]>>
               /\ nextChannelSequence[waiting.key[1]] = waiting.key[2]
               /\ response["instr"] = None
    <3>1. waiting.key \in Ledger!Keys
      BY <2>1, <2>3 DEF Types, Fetches
    <3>2. /\ waiting.key = <<<<"instr", epoch>>, sequences["instr"]>> /\ response["instr"] = None
          /\ nextChannelSequence[<<"instr", epoch>>] = sequences["instr"]
      BY Zenon, <2>1, <2>3 DEF Asked, Held
    <3>3. nextChannelSequence[waiting.key[1]] = waiting.key[2]
      BY <3>2
    <3>4. ~(waiting.key[2] < nextChannelSequence[waiting.key[1]])
      <4>1. waiting.key[2] \in 1..MaxSequence /\ MaxSequence \in Nat
        BY Zenon, <3>1, KeyParts, PortConstants
      <4> QED BY <3>3, <4>1
    <3>5. Ledger!Status[waiting.key] = "absent"
      BY Zenon, <2>1, <3>1, <3>4, StatusIs DEF Issued
    <3> QED BY Zenon, <3>2, <3>3, <3>5
  <2> QED BY Zenon, <2>2, <2>3 DEF PortsAreCurrent, WaitingKeyIsFresh
<1> QED BY <1>1, PortAlways, PTL
==============================================================================
