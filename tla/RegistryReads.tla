--------------------------- MODULE RegistryReads -----------------------------
(***************************************************************************)
(* The reading side of the registry store (src/core/content/store/registry *)
(* store.go, cache.go, reader.go): Info with its cache in front of the     *)
(* local store and the registry, Update, Delete, commits and Close, which  *)
(* invalidate the cache, and a reader that copies what it streams from the *)
(* registry into the local store.                                          *)
(*                                                                         *)
(* One digest.  Its metadata are a version: 0 when the local store does    *)
(* not have it; Remote is what the registry answers.                       *)
(***************************************************************************)
EXTENDS Naturals, FiniteSets

CONSTANTS
    Askers,     \* goroutines that call Info
    Remote,     \* the registry's metadata, no version
    MaxVersion, \* bound on the versions
    Ttl,        \* life of a cache entry, in ticks
    RetryMax,   \* Store.retryMax
    BlobSize    \* chunks of the blob

ASSUME ReadsAssumption == MaxVersion \in Nat /\ Ttl \in Nat /\ BlobSize \in Nat

VARIABLES
    rrLocal,    \* the local store's version
    rrLast,     \* the last version there was
    rrCache,    \* [ver, left, since]: ticks left, 0 when there is no entry; what there has been since its lookup
    rrAsk,      \* where each Info is: "idle", "local", "remote", "set", "done", "failed"
    rrGot,      \* what it has looked up, and will put into the cache
    rrTry,      \* its attempts at the registry
    rrSeen,     \* what there has been since each lookup began
    rrChange,   \* Update, Delete or Commit is between the local store and the cache
    rdPc,       \* the reader: "new", "fetch", "read", "drain", "commit", "closed", "failed", "hit"
    rdTry,
    rdFast,     \* the stream is an io.ReaderAt
    rdWriter,   \* there is a local writer
    rdPos,      \* chunks taken from the stream
    rdTee,      \* chunks the local writer has
    rdBroken    \* the stream or the local writer has failed

rrVars == <<rrLocal, rrLast, rrCache, rrAsk, rrGot, rrTry, rrSeen, rrChange>>
rdVars == <<rdPc, rdTry, rdFast, rdWriter, rdPos, rdTee, rdBroken>>

\* What a lookup finds.
Truth == IF rrLocal # 0 THEN rrLocal ELSE Remote

NoEntry == [ver |-> 0, left |-> 0, since |-> {}]
RrInit ==
    /\ rrLocal \in {0, 1} /\ rrLast = 1 /\ rrCache = NoEntry /\ rrAsk = [a \in Askers |-> "idle"]
    /\ rrGot = [a \in Askers |-> 0] /\ rrTry = [a \in Askers |-> 0] /\ rrSeen = [a \in Askers |-> {}] /\ rrChange = FALSE
    /\ rdPc = "new" /\ rdTry = 0 /\ rdFast \in BOOLEAN /\ rdWriter = FALSE /\ rdPos = 0 /\ rdTee = 0
    /\ rdBroken = FALSE

-----------------------------------------------------------------------------
\* Info: the cache first.
Cached == rrCache.left > 0
InfoCached(a) ==
    /\ rrAsk[a] = "idle"
    /\ rrAsk' = [rrAsk EXCEPT ![a] = IF Cached THEN "done" ELSE "local"]
    /\ UNCHANGED <<rrLocal, rrLast, rrCache, rrGot, rrTry, rrSeen, rrChange, rdVars>>

\* The local store; any error of it sends the call to the registry.
InfoLocal(a) ==
    /\ rrAsk[a] = "local"
    /\ \/ /\ rrLocal # 0 /\ rrAsk' = [rrAsk EXCEPT ![a] = "set"] /\ rrGot' = [rrGot EXCEPT ![a] = rrLocal]
          /\ rrSeen' = [rrSeen EXCEPT ![a] = {rrLocal}]
       \/ /\ rrAsk' = [rrAsk EXCEPT ![a] = "remote"] /\ UNCHANGED rrGot
          /\ rrSeen' = [rrSeen EXCEPT ![a] = {Truth, Remote}]
    /\ UNCHANGED <<rrLocal, rrLast, rrCache, rrTry, rrChange, rdVars>>

\* fetchRemoteInfoWithRetry; a cancelled sleep ends it too.
InfoRemote(a) ==
    /\ rrAsk[a] = "remote"
    /\ \/ rrAsk' = [rrAsk EXCEPT ![a] = "set"] /\ rrGot' = [rrGot EXCEPT ![a] = Remote] /\ UNCHANGED rrTry
       \/ /\ rrTry[a] + 1 < RetryMax /\ rrTry' = [rrTry EXCEPT ![a] = @ + 1] /\ UNCHANGED <<rrAsk, rrGot>>
       \/ /\ rrTry[a] + 1 = RetryMax /\ rrAsk' = [rrAsk EXCEPT ![a] = "failed"] /\ UNCHANGED <<rrGot, rrTry>>
       \/ rrTry[a] > 0 /\ rrAsk' = [rrAsk EXCEPT ![a] = "failed"] /\ UNCHANGED <<rrGot, rrTry>>
    /\ UNCHANGED <<rrLocal, rrLast, rrCache, rrSeen, rrChange, rdVars>>

InfoSet(a) ==
    /\ rrAsk[a] = "set" /\ rrAsk' = [rrAsk EXCEPT ![a] = "done"]
    /\ rrCache' = [ver |-> rrGot[a], left |-> Ttl, since |-> rrSeen[a]]
    /\ rrGot' = [rrGot EXCEPT ![a] = 0] /\ rrTry' = [rrTry EXCEPT ![a] = 0] /\ rrSeen' = [rrSeen EXCEPT ![a] = {}]
    /\ UNCHANGED <<rrLocal, rrLast, rrChange, rdVars>>

RrTick ==
    /\ Cached /\ rrCache' = IF rrCache.left = 1 THEN NoEntry ELSE [rrCache EXCEPT !.left = @ - 1]
    /\ UNCHANGED <<rrLocal, rrLast, rrAsk, rrGot, rrTry, rrSeen, rrChange, rdVars>>

-----------------------------------------------------------------------------
\* A change of the local store.  Lookups under way may have either version; an entry may keep
\* the old one, unless the change is one that goes on to invalidate it.
Change(v, announced) ==
    /\ rrLocal' = v
    /\ rrSeen' = [a \in Askers |-> IF rrAsk[a] \in {"remote", "set"} THEN rrSeen[a] \cup {Truth'} ELSE rrSeen[a]]
    /\ rrCache' = [rrCache EXCEPT !.since = CASE ~Cached -> {} [] announced -> {Truth'} [] OTHER -> @ \cup {Truth'}]
    /\ rrChange' = (rrChange \/ announced)
    /\ UNCHANGED <<rrAsk, rrGot, rrTry>>

\* Update and Delete: the local store first, then the cache.  The commit of an ingestion does
\* so too when it is told the digest, and else leaves the cache alone.
RrUpdate == ~rrChange /\ rrLocal # 0 /\ rrLast < MaxVersion /\ rrLast' = rrLast + 1 /\ Change(rrLast + 1, TRUE) /\ UNCHANGED rdVars
RrDelete == ~rrChange /\ rrLocal # 0 /\ Change(0, TRUE) /\ UNCHANGED <<rrLast, rdVars>>
RrIngested ==
    /\ ~rrChange /\ rrLocal = 0 /\ rrLast < MaxVersion /\ rrLast' = rrLast + 1
    /\ \E expected \in BOOLEAN : Change(rrLast + 1, expected)
    /\ UNCHANGED rdVars

\* Variant: the entry is left to expire.
InvalidateNot == rrChange /\ rrChange' = FALSE /\ UNCHANGED <<rrLocal, rrLast, rrCache, rrAsk, rrGot, rrTry, rrSeen, rdVars>>

Invalidate ==
    /\ rrChange /\ rrChange' = FALSE /\ rrCache' = NoEntry
    /\ UNCHANGED <<rrLocal, rrLast, rrAsk, rrGot, rrTry, rrSeen, rdVars>>

\* Close flushes the cache; nothing stops a later Info.
RrClose ==
    /\ Cached /\ rrCache' = NoEntry
    /\ UNCHANGED <<rrLocal, rrLast, rrAsk, rrGot, rrTry, rrSeen, rrChange, rdVars>>

-----------------------------------------------------------------------------
\* ReaderAt: the local store, or the registry, with a local writer if there can be one.
ReaderAtOpen ==
    /\ rdPc = "new"
    /\ rdPc' = IF rrLocal # 0 THEN "hit" ELSE "fetch"
    /\ UNCHANGED <<rrVars, rdTry, rdFast, rdWriter, rdPos, rdTee, rdBroken>>
ReaderFetch ==
    /\ rdPc = "fetch"
    /\ \/ rdPc' = "read" /\ rdWriter' \in BOOLEAN /\ UNCHANGED rdTry
       \/ rdTry + 1 < RetryMax /\ rdTry' = rdTry + 1 /\ UNCHANGED <<rdPc, rdWriter>>
       \/ (rdTry + 1 = RetryMax \/ rdTry > 0) /\ rdPc' = "failed" /\ UNCHANGED <<rdTry, rdWriter>>
    /\ UNCHANGED <<rrVars, rdFast, rdPos, rdTee, rdBroken>>

\* One read: at its offset on the fast path, else the next chunk, which the tee hands to
\* the local writer first; the tee fails with it.
TeeRead ==
    \/ /\ rdPos < BlobSize /\ rdPos' = rdPos + 1 /\ UNCHANGED rdBroken
       /\ rdTee' = IF rdWriter THEN rdTee + 1 ELSE rdTee
    \/ rdPos < BlobSize /\ rdWriter /\ rdPos' = rdPos + 1 /\ rdBroken' = TRUE /\ UNCHANGED rdTee
    \/ rdPos < BlobSize /\ rdBroken' = TRUE /\ UNCHANGED <<rdPos, rdTee>>
ReadAt ==
    /\ rdPc = "read" /\ ~rdFast /\ ~rdBroken /\ TeeRead
    /\ UNCHANGED <<rrVars, rdPc, rdTry, rdFast, rdWriter>>

\* Close: drain the tee, commit the local writer, close the stream.
ReaderClose ==
    /\ rdPc = "read" /\ rdPc' = IF rdFast THEN "commit" ELSE "drain"
    /\ UNCHANGED <<rrVars, rdTry, rdFast, rdWriter, rdPos, rdTee, rdBroken>>
DrainTee ==
    /\ rdPc = "drain"
    /\ \/ ~rdBroken /\ TeeRead /\ UNCHANGED rdPc
       \/ (rdBroken \/ rdPos = BlobSize) /\ rdPc' = "commit" /\ UNCHANGED <<rdPos, rdTee, rdBroken>>
    /\ UNCHANGED <<rrVars, rdTry, rdFast, rdWriter>>

\* The version without labels that a reader's commit makes.
Teed == MaxVersion + 1

\* The local store's Commit refuses another size.  A blob it takes is not announced to the
\* cache, whose entry keeps the registry's metadata.
ReaderCommit ==
    /\ rdPc = "commit" /\ rdPc' = "closed"
    /\ IF rdWriter /\ rdTee = BlobSize
       THEN IF rrLocal # 0 THEN UNCHANGED rrVars ELSE Change(Teed, FALSE) /\ UNCHANGED rrLast
       ELSE UNCHANGED rrVars
    /\ UNCHANGED <<rdTry, rdFast, rdWriter, rdPos, rdTee, rdBroken>>

RrAskStep == \E a \in Askers : InfoCached(a) \/ InfoLocal(a) \/ InfoRemote(a) \/ InfoSet(a)
RdStep == ReaderAtOpen \/ ReaderFetch \/ ReaderClose \/ DrainTee \/ ReaderCommit
RrNext == RrAskStep \/ RrTick \/ RrUpdate \/ RrDelete \/ RrIngested \/ Invalidate \/ RrClose \/ RdStep \/ ReadAt
RrSpec == RrInit /\ [][RrNext]_<<rrVars, rdVars>>
RrProgress == RrAskStep \/ Invalidate \/ RdStep \/ RrTick

-----------------------------------------------------------------------------
\* Once a change has come back to its caller, the cache holds what there has been since the
\* entry's lookup began, or since the last change that was announced when that came later.
\* So nothing gets old but what was looked up while it changed (store.go:137) or what a
\* commit without a digest (writer.go:148) or a reader's commit replaced.
CacheIsRegular == Cached /\ ~rrChange => rrCache.ver \in rrCache.since

\* What got old in this way does not last: when changes stop, the cache is right for good,
\* up to an error of the local store, after which the registry's answer counts.
StaleEntriesExpire == <>[](Cached => rrCache.ver \in {Truth, Remote})

\* A reader that was closed after a sound stream has left the whole blob in the local store.
TeeCaches ==
    rdPc = "closed" /\ ~rdFast /\ rdWriter /\ ~rdBroken => rdTee = BlobSize

-----------------------------------------------------------------------------
(* The connection pool of the OCI backend (registry/backend_oci.go): one   *)
(* connection per registry host, made on first use under the entry's lock, *)
(* and evicted when it has been idle.  One host; entries are numbered.     *)
CONSTANTS
    Getters,     \* goroutines that Resolve, Fetch or Push
    MaxEntries,  \* bound on the entries made
    MaxGets      \* bound on the calls of each

VARIABLES
    cpMap,     \* the entry of the host, 0 when there is none
    cpMade,    \* entries made so far
    cpReg,     \* entries whose reg is set
    cpUsed,    \* entries whose lastUsed is not long ago
    cpLock,    \* entry -> who holds its lock, None0 when nobody does
    cpPc,      \* "idle", "store", "lock", "dial"
    cpAt,      \* the entry each getter works on
    cpRet,     \* what its last get returned: "none", "reg", "nil", "err"
    cpGets,    \* calls made
    cpDials,   \* connections made for each entry
    cpClosed
cpVars == <<cpMap, cpMade, cpReg, cpUsed, cpLock, cpPc, cpAt, cpRet, cpGets, cpDials, cpClosed>>

CONSTANT None0  \* nobody

ASSUME PoolAssumption == MaxEntries \in Nat /\ None0 \notin Getters

CpInit ==
    /\ cpMap = 0 /\ cpMade = 0 /\ cpReg = {} /\ cpUsed = {} /\ cpLock = [e \in 1..MaxEntries |-> None0]
    /\ cpPc = [g \in Getters |-> "idle"] /\ cpAt = [g \in Getters |-> 0] /\ cpRet = [g \in Getters |-> "none"]
    /\ cpGets = [g \in Getters |-> 0] /\ cpDials = [e \in 1..MaxEntries |-> 0] /\ cpClosed = FALSE

CpGo(g, pc) == cpPc' = [cpPc EXCEPT ![g] = pc]
CpReturn(g, r) == CpGo(g, "idle") /\ cpRet' = [cpRet EXCEPT ![g] = r]

\* The load without a lock: whatever reg is at that moment, although it is set under the lock.
CpLoad(g) ==
    /\ cpPc[g] = "idle" /\ cpGets[g] < MaxGets /\ cpGets' = [cpGets EXCEPT ![g] = @ + 1]
    /\ IF cpMap # 0
       THEN /\ cpUsed' = cpUsed \cup {cpMap} /\ CpReturn(g, IF cpMap \in cpReg THEN "reg" ELSE "nil")
       ELSE CpGo(g, "store") /\ UNCHANGED <<cpUsed, cpRet>>
    /\ UNCHANGED <<cpMap, cpMade, cpReg, cpLock, cpAt, cpDials, cpClosed>>

\* LoadOrStore of an empty entry.
CpLoadOrStore(g) ==
    /\ cpPc[g] = "store" /\ CpGo(g, "lock")
    /\ IF cpMap # 0 THEN cpAt' = [cpAt EXCEPT ![g] = cpMap] /\ UNCHANGED <<cpMap, cpMade>>
       ELSE cpMade < MaxEntries /\ cpMade' = cpMade + 1 /\ cpMap' = cpMade + 1 /\ cpAt' = [cpAt EXCEPT ![g] = cpMade + 1]
    /\ UNCHANGED <<cpReg, cpUsed, cpLock, cpRet, cpGets, cpDials, cpClosed>>

CpTakeLock(g) ==
    /\ cpPc[g] = "lock" /\ cpLock[cpAt[g]] = None0
    /\ IF cpAt[g] \in cpReg THEN CpReturn(g, "reg") /\ cpUsed' = cpUsed \cup {cpAt[g]} /\ UNCHANGED cpLock
       ELSE CpGo(g, "dial") /\ cpLock' = [cpLock EXCEPT ![cpAt[g]] = g] /\ UNCHANGED <<cpRet, cpUsed>>
    /\ UNCHANGED <<cpMap, cpMade, cpReg, cpAt, cpGets, cpDials, cpClosed>>

\* Variant: a failed dial leaves its entry in the map.
CpForgetNot == UNCHANGED cpMap

CpForget == cpMap' = 0

\* A failure deletes the host's entry, whichever it is.
CpDial(g) ==
    /\ cpPc[g] = "dial" /\ cpLock' = [cpLock EXCEPT ![cpAt[g]] = None0]
    /\ \/ /\ cpReg' = cpReg \cup {cpAt[g]} /\ cpUsed' = cpUsed \cup {cpAt[g]} /\ CpReturn(g, "reg")
          /\ cpDials' = [cpDials EXCEPT ![cpAt[g]] = @ + 1] /\ UNCHANGED cpMap
       \/ CpReturn(g, "err") /\ CpForget /\ UNCHANGED <<cpReg, cpUsed, cpDials>>
    /\ UNCHANGED <<cpMade, cpAt, cpGets, cpClosed>>

\* Time passes, and the goroutine that evicts what was not used: also an entry that is being made.
CpIdle ==
    /\ ~cpClosed /\ cpUsed # {} /\ cpUsed' = {}
    /\ UNCHANGED <<cpMap, cpMade, cpReg, cpLock, cpPc, cpAt, cpRet, cpGets, cpDials, cpClosed>>
CpEvict ==
    /\ ~cpClosed /\ cpMap # 0 /\ cpMap \notin cpUsed /\ cpMap' = 0
    /\ UNCHANGED <<cpMade, cpReg, cpUsed, cpLock, cpPc, cpAt, cpRet, cpGets, cpDials, cpClosed>>
CpClose ==
    /\ ~cpClosed /\ cpClosed' = TRUE
    /\ UNCHANGED <<cpMap, cpMade, cpReg, cpUsed, cpLock, cpPc, cpAt, cpRet, cpGets, cpDials>>

CpStep == \E g \in Getters : CpLoad(g) \/ CpLoadOrStore(g) \/ CpTakeLock(g) \/ CpDial(g)
CpNext == CpStep \/ CpIdle \/ CpEvict \/ CpClose
CpSpec == CpInit /\ [][CpNext]_cpVars

-----------------------------------------------------------------------------
\* An entry is dialled once at most, although many find it empty at the same time.
OneDialPerEntry == \A e \in 1..MaxEntries : cpDials[e] <= 1

\* An entry in the map is connected, or somebody is about to connect it.  So a get is given no
\* registry ("nil", backend_oci.go:106) while somebody dials, and only then: no failure leaves
\* an entry behind that every later get would find without a connection.
NoDeadEntry ==
    cpMap # 0 => cpMap \in cpReg \/ \E g \in Getters : cpPc[g] \in {"lock", "dial"} /\ cpAt[g] = cpMap
=============================================================================
