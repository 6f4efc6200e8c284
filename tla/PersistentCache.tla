--------------------------- MODULE PersistentCache ---------------------------
(***************************************************************************)
(* PersistentHashCache (src/pkg/layermerkle/persistent.go): a hash cache   *)
(* whose changes are appended to a log that the next process replays.  An  *)
(* entry is written in two writes and may stay incomplete ("torn") when    *)
(* the process dies or a write fails between them.                         *)
(***************************************************************************)
EXTENDS HashCache, FiniteSets

CONSTANTS
    WalKeys,     \* pairs of a layer and a path
    WalHashes,
    WalWriters,  \* goroutines that call Set, Delete and DeleteLayer
    WalCap,      \* capacity of the cache
    CompactAt,   \* compactionThreshold
    MaxLog,      \* bound: entries of the log
    Deleted,     \* history: the key was deleted
    Unknown,     \* history: nothing is claimed about the key
    NoJob

ASSUME WalAssumption == WalCap \in Nat \ {0} /\ CompactAt \in Nat \ {0}

VARIABLES
    walMem,    \* the cache
    walLog,    \* the log: [key, hash, del, torn]
    walCount,  \* walCount
    walState,  \* "open", "closed" or "down"
    walJob,    \* writer -> the entry it is about to append
    walLast,   \* history: key -> what the last finished operation left
    walClash   \* history: keys that two operations changed at the same time
walVars == <<walMem, walLog, walCount, walState, walJob, walLast, walClash>>

LogEntry(k, h, d, t) == [key |-> k, hash |-> h, del |-> d, torn |-> t]
WalTypeOK ==
    /\ Len(walMem) <= WalCap /\ walState \in {"open", "closed", "down"}
    /\ walCount \in 0..MaxLog /\ Len(walLog) <= MaxLog
    /\ walLast \in [WalKeys -> WalHashes \cup {Deleted, Unknown}] /\ walClash \subseteq WalKeys

WalInit ==
    /\ walMem = <<>> /\ walLog = <<>> /\ walCount = 0 /\ walState = "open"
    /\ walJob = [w \in WalWriters |-> NoJob]
    /\ walLast = [k \in WalKeys |-> Deleted] /\ walClash = {}

\* Set and Delete change the cache first ...
Change(w, k, h, d) ==
    /\ walState # "down" /\ walJob[w] = NoJob
    /\ walMem' = IF d THEN Without(walMem, k[1], k[2]) ELSE Put(walMem, WalCap, k[1], k[2], h)
    /\ walJob' = [walJob EXCEPT ![w] = LogEntry(k, h, d, FALSE)]
    /\ walLast' = [walLast EXCEPT ![k] = Unknown]
    /\ walClash' = walClash \cup {x \in {k} : \E v \in WalWriters : walJob[v] # NoJob /\ walJob[v].key = k}
    /\ UNCHANGED <<walLog, walCount, walState>>

\* maybeCompactLocked: compact creates and removes a file and sets the counter to zero,
\* unless the file cannot be created; the log keeps all its entries.
Counts(n) == IF n < CompactAt THEN {n} ELSE {0, n}

\* ... and append the entry under the lock.  A failed write (always, once the file is
\* closed) leaves the log as it was or with an incomplete entry, and is ignored.
AppendWAL(w) ==
    LET e == walJob[w] IN
    /\ e # NoJob /\ walState # "down" /\ Len(walLog) < MaxLog
    /\ \/ /\ walState = "open" /\ walLog' = Append(walLog, e) /\ walCount' \in Counts(walCount + 1)
          /\ walLast' = [walLast EXCEPT ![e.key] = IF e.del THEN Deleted ELSE e.hash]
       \/ walState = "open" /\ walLog' = Append(walLog, [e EXCEPT !.torn = TRUE]) /\ UNCHANGED <<walCount, walLast>>
       \/ UNCHANGED <<walLog, walCount, walLast>>
    /\ walJob' = [walJob EXCEPT ![w] = NoJob]
    /\ UNCHANGED <<walMem, walState, walClash>>

\* Get of a cached key.
CacheGet(k) ==
    /\ walState # "down" /\ EntriesOf(walMem, k[1], k[2]) # {}
    /\ walMem' = Put(walMem, WalCap, k[1], k[2], walMem[CHOOSE i \in EntriesOf(walMem, k[1], k[2]) : TRUE].hash)
    /\ UNCHANGED <<walLog, walCount, walState, walJob, walLast, walClash>>

\* DeleteLayer changes the cache only: the log keeps the layer's entries, and the next
\* process sees them again.
DeleteLayer(l) ==
    /\ walState # "down"
    /\ walMem' = WithoutLayer(walMem, l)
    /\ walCount' \in Counts(walCount)
    /\ walLast' = [k \in WalKeys |-> IF k[1] = l THEN Unknown ELSE walLast[k]]
    /\ UNCHANGED <<walLog, walState, walJob, walClash>>

Close ==
    /\ walState = "open" /\ walState' = "closed"
    /\ UNCHANGED <<walMem, walLog, walCount, walJob, walLast, walClash>>

\* The process ends, perhaps in the middle of an append.
Crash ==
    /\ walState # "down" /\ walState' = "down"
    /\ \/ UNCHANGED walLog
       \/ \E w \in WalWriters : /\ walState = "open" /\ walJob[w] # NoJob /\ Len(walLog) < MaxLog
                                /\ walLog' = Append(walLog, [walJob[w] EXCEPT !.torn = TRUE])
    /\ walMem' = <<>> /\ walCount' = 0 /\ walJob' = [w \in WalWriters |-> NoJob]
    /\ UNCHANGED <<walLast, walClash>>

\* readWAL stops at the first entry it cannot read.
ReadWAL(log) ==
    LET torn == {i \in 1..Len(log) : log[i].torn}
    IN  SubSeq(log, 1, IF torn = {} THEN Len(log) ELSE (CHOOSE i \in torn : \A j \in torn : i <= j) - 1)

\* Variant: the replay goes from the last entry to the first.
ReplayBackwards(log) ==
    FoldLeft(LAMBDA c, e : IF e.del THEN Without(c, e.key[1], e.key[2])
                           ELSE Put(c, WalCap, e.key[1], e.key[2], e.hash), <<>>, Reverse(ReadWAL(log)))

\* openAndReplay: the entries in order, through the cache.
Replay(log) ==
    FoldLeft(LAMBDA c, e : IF e.del THEN Without(c, e.key[1], e.key[2])
                           ELSE Put(c, WalCap, e.key[1], e.key[2], e.hash), <<>>, ReadWAL(log))

\* The next process: it appends after whatever the file holds, a torn entry included.
Open ==
    /\ walState = "down" /\ walState' = "open"
    /\ walMem' = Replay(walLog) /\ walCount' = Len(ReadWAL(walLog))
    /\ UNCHANGED <<walLog, walJob, walLast, walClash>>

WalNext ==
    \/ \E w \in WalWriters : AppendWAL(w) \/ \E k \in WalKeys, h \in WalHashes, d \in BOOLEAN : Change(w, k, h, d)
    \/ \E k \in WalKeys : CacheGet(k)
    \/ \E l \in {k[1] : k \in WalKeys} : DeleteLayer(l)
    \/ Close \/ Crash \/ Open

-----------------------------------------------------------------------------
\* Whatever was set, deleted, evicted, replayed or torn off, the cache answers with the
\* hash of the last finished operation on the key or not at all, before and after a restart
\* (openAndReplay, readWAL, appendWAL).  Not claimed: keys two goroutines changed at the
\* same time (the cache and the log may disagree on the order), keys of a layer removed by
\* DeleteLayer, and a log in which entries follow a torn one, which hides them.
RestartKeepsLast ==
    walState # "down" /\ (\A i \in 1..Len(walLog) : walLog[i].torn => i = Len(walLog)) =>
        \A k \in WalKeys \ walClash : walLast[k] # Unknown =>
            \A i \in EntriesOf(walMem, k[1], k[2]) : walMem[i].hash = walLast[k]
=============================================================================
