------------------------------ MODULE StatCache ------------------------------
(***************************************************************************)
(* The lookup caches of layermerkle's resolvers and hasher: the map of     *)
(* OverlayResolver (resolver.go), which stops growing when it is full, the *)
(* ring of OverlayResolverWithRingCache (ringcache.go), which replaces the *)
(* entry under its hand, and the inode table of HardLinkAwareHasher        *)
(* (hardlink.go).  A lookup reads the cache under a lock, asks the disk    *)
(* without one and stores the answer under the lock again.                 *)
(***************************************************************************)
EXTENDS Naturals, FiniteSets

CONSTANTS
    StatFiles,     \* files: [layer, path]
    InodeOf,       \* file -> inode: hard links share one
    StatValues,    \* what the disk may answer
    StatCap,       \* capacity of the map and of the ring
    StatCallers,
    NoStat,        \* an empty slot, no lookup
    MaxChanges     \* bound: changes of the disk

ASSUME StatAssumption == StatCap \in Nat \ {0}

VARIABLES
    statKind,    \* "map", "ring" or "inode"
    statDisk,    \* key -> what the disk answers
    statSlots,   \* slot -> [key, val] or NoStat
    statHand,    \* the ring's hand
    statCall,    \* caller -> "idle", "read", "store" with its file and answer
    statDirty,   \* history: keys that changed and were not invalidated since
    statLate,    \* history: keys invalidated while a lookup of them was on the disk
    statChanges  \* number of changes
statVars == <<statKind, statDisk, statSlots, statHand, statCall, statDirty, statLate, statChanges>>

\* The key of a file: hard links share theirs.
StatKey(f) == IF statKind = "inode" THEN InodeOf[f] ELSE f
StatKeys == StatFiles \cup {InodeOf[f] : f \in StatFiles}
Slots == 1..(IF statKind = "inode" THEN Cardinality(StatKeys) ELSE StatCap)
Filled == {i \in Slots : statSlots[i] # NoStat}
SlotsOf(k) == {i \in Filled : statSlots[i].key = k}
Idle == [at |-> "idle", file |-> NoStat, val |-> NoStat]

LookupTypeOK ==
    /\ statHand \in Slots
    /\ \A i \in Filled : statSlots[i].key \in StatKeys /\ statSlots[i].val \in StatValues
    /\ \A k \in StatKeys : Cardinality(SlotsOf(k)) <= 1

StatInit ==
    /\ statKind \in {"map", "ring", "inode"}
    /\ \E v \in StatValues : statDisk = [k \in StatKeys |-> v]
    /\ statSlots = [i \in Slots |-> NoStat] /\ statHand = 1
    /\ statCall = [c \in StatCallers |-> Idle]
    /\ statDirty = {} /\ statLate = {} /\ statChanges = 0

\* statInLayer and Hash: a hit is returned and changes nothing, a miss asks the disk.
LookupMiss(c, f) ==
    /\ statCall[c].at = "idle" /\ SlotsOf(StatKey(f)) = {}
    /\ statCall' = [statCall EXCEPT ![c] = [at |-> "read", file |-> f, val |-> NoStat]]
    /\ UNCHANGED <<statKind, statDisk, statSlots, statHand, statDirty, statLate, statChanges>>

\* fsStat or the inner hasher, which may fail.
ReadDisk(c) ==
    /\ statCall[c].at = "read"
    /\ \/ statCall' = [statCall EXCEPT ![c].at = "store", ![c].val = statDisk[StatKey(statCall[c].file)]]
       \/ statKind = "inode" /\ statCall' = [statCall EXCEPT ![c] = Idle]
    /\ UNCHANGED <<statKind, statDisk, statSlots, statHand, statDirty, statLate, statChanges>>

\* Where Set puts a key: in its own slot, or in the one under the ring's hand, or in a
\* free one of the map: with none the answer is not kept.
SlotFor(k) ==
    IF SlotsOf(k) # {} THEN SlotsOf(k) ELSE IF statKind = "ring" THEN {statHand} ELSE Slots \ Filled

StoreStat(c) ==
    LET k == StatKey(statCall[c].file)
        to == SlotFor(k)
    IN
    /\ statCall[c].at = "store"
    /\ IF to = {} THEN UNCHANGED <<statSlots, statHand>>
       ELSE LET i == CHOOSE x \in to : TRUE IN
            /\ statSlots' = [statSlots EXCEPT ![i] = [key |-> k, val |-> statCall[c].val]]
            /\ statHand' = IF statKind = "ring" /\ SlotsOf(k) = {} THEN (statHand % StatCap) + 1 ELSE statHand
    /\ statCall' = [statCall EXCEPT ![c] = Idle]
    /\ UNCHANGED <<statKind, statDisk, statDirty, statLate, statChanges>>

\* InvalidateLayer and InvalidateAll: the slots of the given keys.
Dropped(ks) == {i \in Filled : statSlots[i].key \in ks}

Invalidate(ks) ==
    /\ statSlots' = [i \in Slots |-> IF i \in Dropped(ks) THEN NoStat ELSE statSlots[i]]
    /\ statDirty' = statDirty \ ks
    /\ statLate' = statLate \cup {StatKey(statCall[c].file) : c \in {x \in StatCallers :
                        statCall[x].at \in {"read", "store"} /\ StatKey(statCall[x].file) \in ks}}
    /\ UNCHANGED <<statKind, statDisk, statHand, statCall, statChanges>>
InvalidateLayer(l) == statKind # "inode" /\ Invalidate({f \in StatFiles : f.layer = l})
InvalidateAll == statKind = "inode" /\ Invalidate(StatKeys)

\* The layer's files change: its snapshot is replaced, or the file rewritten.
ChangeDisk(k, v) ==
    /\ statChanges < MaxChanges /\ statDisk[k] # v
    /\ statDisk' = [statDisk EXCEPT ![k] = v] /\ statChanges' = statChanges + 1
    /\ statDirty' = statDirty \cup {k}
    /\ UNCHANGED <<statKind, statSlots, statHand, statCall, statLate>>

StatNext ==
    \/ \E c \in StatCallers : ReadDisk(c) \/ StoreStat(c) \/ \E f \in StatFiles : LookupMiss(c, f)
    \/ \E l \in {f.layer : f \in StatFiles} : InvalidateLayer(l)
    \/ InvalidateAll
    \/ \E k \in {StatKey(f) : f \in StatFiles}, v \in StatValues : ChangeDisk(k, v)

-----------------------------------------------------------------------------
\* A cached answer is what the disk would say, however lookups, replacements of slots and
\* invalidations interleave, until the disk changes again (statInLayer, RingStatCache.Set,
\* InvalidateLayer, InvalidateAll).  A lookup that is on the disk while its key is
\* invalidated stores its old answer afterwards: those keys are not claimed.
HitIsCurrent ==
    \A i \in Filled : LET k == statSlots[i].key IN
        k \notin statDirty \cup statLate => statSlots[i].val = statDisk[k]
=============================================================================
