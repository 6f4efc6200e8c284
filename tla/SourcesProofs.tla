--------------------------- MODULE SourcesProofs ---------------------------
(***************************************************************************)
(* Proofs that the two sources of snapshot content are sound.  HTTP, for   *)
(* any callers, bodies, archives, redirects and chain of appliers          *)
(* (HttpSound of HTTPSource): the snapshot holds the verified archive,     *)
(* credentials stay with the origin.  Git, for any callers, remotes,       *)
(* commits, tags and specs (GitSound of GitSource): the tree is the one    *)
(* reported, pinned and signed for, and one call works on a remote.  A     *)
(* call that ended has left nothing behind in either.                      *)
(***************************************************************************)
EXTENDS GitSource, HTTPSource, TLAPS, FiniteSetTheorems

Amounts == {"all", "part"}
Kinds == {"file", "dir", "symlink"}
Names == STRING \cup {"none"}
File == [names : SUBSET Names, kind : Kinds, to : Names, from : HttpBodies, holds : Amounts]
Places == {"idle", "acquire", "temp", "request", "send", "read", "verify", "unpack", "return", "done"}
Outcomes == HttpBodies \cup {"none", "error"}

HttpRecords ==
    /\ httpPc \in [HttpCallers -> Places]
    /\ httpDesc \in HttpCalls
    /\ httpLink \in [HttpCallers -> 1..HttpLinks] /\ httpSlots \in [1..HttpLinks -> SUBSET HttpCallers]
    /\ httpHost \in [HttpCallers -> HttpHosts] /\ httpHops \in [HttpCallers -> 0..MaxHops]
    /\ httpSent \in [HttpCallers -> SUBSET HttpHosts]
    /\ httpTmp \in [HttpCallers -> BOOLEAN] /\ httpAuth \in [HttpCallers -> BOOLEAN]
    /\ httpErr \in [HttpCallers -> BOOLEAN]
    /\ httpBody \in [HttpCallers -> HttpBodies \cup {NoBody}]
    /\ httpGot \in [HttpCallers -> 0..MaxBodyChunks] /\ httpDone \in [HttpCallers -> Nat]
    /\ httpDst \in [HttpCallers -> SUBSET File]
    /\ httpOut \in [HttpCallers -> Outcomes]

(* A slot is held by a call at work on the applier the slot belongs to. *)
SlotsHeld ==
    \A i \in 1..HttpLinks :
        /\ IsFiniteSet(httpSlots[i]) /\ Cardinality(httpSlots[i]) <= MaxFetches
        /\ \A c \in httpSlots[i] : i = httpLink[c] /\ httpPc[c] \notin {"idle", "done"}
TmpRemoved == \A c \in HttpCallers : httpPc[c] = "done" => ~httpTmp[c]

(* The header is on a request to the origin only. *)
AuthAtOrigin == \A c \in HttpCallers : httpAuth[c] => httpHost[c] = Origin

(* An error ends the applier at work at once; a body is read to its end    *)
(* and compared before anything is unpacked.                               *)
ErrorReturns == \A c \in HttpCallers : httpErr[c] => httpPc[c] = "return"
BodyRead ==
    \A c \in HttpCallers :
        /\ httpPc[c] \in {"read", "verify", "unpack"} => httpBody[c] \in HttpBodies
        /\ httpPc[c] = "read" => httpGot[c] <= HttpSize[httpBody[c]]
        /\ httpPc[c] = "verify" => httpGot[c] = HttpSize[httpBody[c]]

(* The entries that are not skipped; a file with some of the names that    *)
(* an archive gives it; a directory that holds only such files.            *)
Named(b) == {i \in DOMAIN HttpEntries[b] : ~Skipped(HttpEntries[b][i])}
PartOf(b, x, i) ==
    LET e == HttpEntries[b][i] IN
    /\ e.kind # "hardlink" /\ x.names \subseteq FileOf(b, e).names /\ x.names # {}
    /\ x.kind = FileOf(b, e).kind /\ x.to = FileOf(b, e).to /\ (x.kind # "file" => x.holds = "all")
Fits(b, dst) ==
    /\ \A x \in dst : x.from = b /\ \E i \in Named(b) : PartOf(b, x, i)
    /\ \A x, y \in dst : x.names \cap y.names # {} => x = y

(* The first n entries of an archive are there, whole and linked. *)
IsThere(b, i, dst) ==
    LET e == HttpEntries[b][i] IN
    \E x \in dst : e.name \in x.names /\ x.holds = "all" /\ (e.kind = "hardlink" => e.link \in x.names)
UpTo(b, n, dst) == \A i \in Named(b) : i <= n => IsThere(b, i, dst)
Unpacks(d, b, n, dst) == d.pinned # NoBody /\ Tidy(b) => UpTo(b, n, dst)
UnpacksAll(d, b, dst) == Unpacks(d, b, Len(HttpEntries[b]), dst)

(* The archive that is unpacked is the verified one, and what was unpacked *)
(* of it so far is there.                                                  *)
Unpacking ==
    \A c \in HttpCallers :
        /\ httpPc[c] = "unpack" =>
              /\ DigestOK(c) /\ HttpSize[httpBody[c]] <= MaxBodyChunks
              /\ httpDone[c] <= Len(HttpEntries[httpBody[c]])
              /\ Unpacks(httpDesc[c], httpBody[c], httpDone[c], httpDst[c])
        /\ httpPc[c] = "return" /\ ~httpErr[c] =>
              /\ httpBody[c] \in HttpBodies /\ DigestOK(c)
              /\ httpDesc[c].mounts => UnpacksAll(httpDesc[c], httpBody[c], httpDst[c])

(* Files come from archives that matched, also those an applier that       *)
(* failed has left; those of a tidy one are in the way of no other.        *)
FilesVerified ==
    \A c \in HttpCallers :
        /\ \A x \in httpDst[c] :
              httpDesc[c].pinned \in {NoBody, x.from} /\ HttpSize[x.from] <= MaxBodyChunks
        /\ httpDesc[c].pinned # NoBody /\ Tidy(httpDesc[c].pinned) => Fits(httpDesc[c].pinned, httpDst[c])

(* A call has a result when it has ended, and what it reports is there. *)
Reported ==
    \A c \in HttpCallers :
        /\ httpPc[c] = "done" <=> httpOut[c] # "none"
        /\ httpPc[c] = "done" /\ httpOut[c] \in HttpBodies =>
              /\ httpDesc[c].pinned \in {NoBody, httpOut[c]}
              /\ httpDesc[c].mounts => UnpacksAll(httpDesc[c], httpOut[c], httpDst[c])

Ended == {c \in HttpCallers : httpPc[c] = "done"}
Failed == {c \in HttpCallers : httpOut[c] = "error"}
Counted ==
    /\ IsFiniteSet(Ended) /\ IsFiniteSet(Failed)
    /\ httpMetrics.applied = Cardinality(Ended) /\ httpMetrics.errors = Cardinality(Failed)

HttpInv ==
    /\ HttpRecords /\ SlotsHeld /\ TmpRemoved /\ AuthAtOrigin /\ AuthOnlyToOrigin /\ ErrorReturns
    /\ BodyRead /\ Unpacking /\ FilesVerified /\ Reported /\ Counted

-----------------------------------------------------------------------------
LEMMA ConstantFacts ==
    /\ HttpLinks \in Nat \ {0} /\ MaxBodyChunks \in Nat \ {0} /\ MaxFetches \in Nat \ {0} /\ MaxHops \in Nat
    /\ Origin \in HttpHosts /\ NoBody \notin HttpBodies /\ "none" \notin HttpBodies /\ "error" \notin HttpBodies
    /\ HttpSize \in [HttpBodies -> Nat]
    /\ \A b \in HttpBodies : Len(HttpEntries[b]) \in Nat /\ DOMAIN HttpEntries[b] = 1..Len(HttpEntries[b])
    /\ \A b \in HttpBodies : \A i \in DOMAIN HttpEntries[b] :
          HttpEntries[b][i].name \in STRING /\ HttpEntries[b][i].link \in STRING
<1>1. ASSUME NEW b \in HttpBodies
      PROVE  /\ Len(HttpEntries[b]) \in Nat /\ DOMAIN HttpEntries[b] = 1..Len(HttpEntries[b])
             /\ \A i \in DOMAIN HttpEntries[b] :
                   HttpEntries[b][i].name \in STRING /\ HttpEntries[b][i].link \in STRING
  <2>1. HttpEntries[b] \in Seq(Entry)
    BY HttpAssumption
  <2>2. \A x \in Entry : x.name \in STRING /\ x.link \in STRING
    BY DEF Entry
  <2>. QED  BY <2>1, <2>2
<1>. QED  BY <1>1, HttpAssumption

LEMMA DescFacts ==
    ASSUME HttpRecords, NEW c \in HttpCallers
    PROVE  /\ httpDesc[c].urls \in BOOLEAN /\ httpDesc[c].mounts \in BOOLEAN /\ httpDesc[c].secret \in BOOLEAN
           /\ httpDesc[c].pinned \in HttpBodies \cup {NoBody}
BY HttpAssumption DEF HttpRecords

LEMMA EntryFacts ==
    ASSUME NEW b \in HttpBodies, NEW i \in Named(b)
    PROVE  /\ i \in Nat /\ i >= 1 /\ i <= Len(HttpEntries[b]) /\ i \in DOMAIN HttpEntries[b]
           /\ HttpEntries[b][i].name \in Names /\ HttpEntries[b][i].link \in Names
           /\ HttpEntries[b][i].kind \in {"file", "dir", "symlink", "hardlink"}
<1>1. i \in DOMAIN HttpEntries[b] /\ HttpEntries[b][i].kind \in {"file", "dir", "symlink", "hardlink"}
  BY DEF Named, Skipped
<1>2. DOMAIN HttpEntries[b] = 1..Len(HttpEntries[b]) /\ Len(HttpEntries[b]) \in Nat
  BY ConstantFacts
<1>3. HttpEntries[b][i].name \in Names /\ HttpEntries[b][i].link \in Names
  BY <1>1, ConstantFacts DEF Names
<1>. QED  BY <1>1, <1>2, <1>3

(* In a tidy archive an entry is a name of one file only: its own, or that *)
(* of the file entry before it which it is a hard link to.                 *)
LEMMA TidyFacts ==
    ASSUME NEW b \in HttpBodies, Tidy(b), NEW i \in Named(b)
    PROVE  /\ \A j \in Named(b) : HttpEntries[b][j].name = HttpEntries[b][i].name => j = i
           /\ HttpEntries[b][i].kind = "hardlink" =>
                 \E j \in Named(b) : j < i /\ HttpEntries[b][j].kind = "file" /\ HttpEntries[b][j].name = HttpEntries[b][i].link
           /\ \A j \in Named(b) :
                 /\ HttpEntries[b][j].kind # "hardlink"
                 /\ HttpEntries[b][i].name \in FileOf(b, HttpEntries[b][j]).names
                 => IF HttpEntries[b][i].kind = "hardlink"
                    THEN j < i /\ HttpEntries[b][j].kind = "file" /\ HttpEntries[b][j].name = HttpEntries[b][i].link
                    ELSE j = i
<1> DEFINE es == HttpEntries[b]
<1>1. \A j, k \in Named(b) : es[j].name = es[k].name => j = k
  BY DEF Tidy, Named
<1>2. \A k \in Named(b) : es[k].kind = "hardlink" =>
          \E j \in Named(b) : j < k /\ es[j].kind = "file" /\ es[j].name = es[k].link
  BY DEF Tidy, Named
<1>3. ASSUME NEW j \in Named(b), es[j].kind # "hardlink", es[i].name \in FileOf(b, es[j]).names
      PROVE  IF es[i].kind = "hardlink" THEN j < i /\ es[j].kind = "file" /\ es[j].name = es[i].link ELSE j = i
  <2>1. FileOf(b, es[j]).names = {es[j].name} \cup (IF es[j].kind = "file" THEN LinksTo(b, es[j].name) ELSE {})
    BY DEF FileOf
  <2>2. CASE es[i].name = es[j].name
    BY <1>1, <1>3, <2>2
  <2>3. CASE es[i].name # es[j].name
    <3>1. es[j].kind = "file" /\ es[i].name \in LinksTo(b, es[j].name)
      BY <1>3, <2>1, <2>3
    <3>2. PICK k \in DOMAIN es : es[k].kind = "hardlink" /\ es[k].link = es[j].name /\ es[k].name = es[i].name
      BY <3>1 DEF LinksTo
    <3>3. k \in Named(b) /\ k = i
      BY <1>1, <3>2 DEF Named, Skipped
    <3>4. PICK h \in Named(b) : h < i /\ es[h].kind = "file" /\ es[h].name = es[i].link
      BY <1>2, <3>2, <3>3
    <3>5. h = j
      BY <1>1, <3>2, <3>3, <3>4
    <3>. QED  BY <3>1, <3>2, <3>3, <3>4, <3>5
  <2>. QED  BY <2>2, <2>3
<1>. QED  BY <1>1, <1>2, <1>3

(* What is at an entry's name is a part of the archive at the same place.  *)
LEMMA FitAt ==
    ASSUME NEW b \in HttpBodies, Tidy(b), NEW dst, Fits(b, dst), NEW i \in Named(b), NEW x \in dst,
           HttpEntries[b][i].name \in x.names, HttpEntries[b][i].kind # "hardlink"
    PROVE  PartOf(b, x, i)
<1>1. PICK j \in Named(b) : PartOf(b, x, j)
  BY DEF Fits
<1>2. HttpEntries[b][i].name \in FileOf(b, HttpEntries[b][j]).names /\ HttpEntries[b][j].kind # "hardlink"
  BY <1>1 DEF PartOf
<1>3. j = i
  BY <1>2, TidyFacts
<1>. QED  BY <1>1, <1>3

(* Writing into a directory: names stay strings, and content is the old or *)
(* that of the body.                                                       *)
LEMMA UnlinkedFacts ==
    ASSUME NEW dst \in SUBSET File, NEW n
    PROVE  /\ Unlinked(dst, n) \in SUBSET File
           /\ \A x \in Unlinked(dst, n) : \E y \in dst :
                 /\ x.names = y.names \ {n} /\ x.names # {}
                 /\ x.kind = y.kind /\ x.to = y.to /\ x.from = y.from /\ x.holds = y.holds
           /\ \A y \in dst : y.names \ {n} # {} => \E x \in Unlinked(dst, n) :
                 /\ x.names = y.names \ {n}
                 /\ x.kind = y.kind /\ x.to = y.to /\ x.from = y.from /\ x.holds = y.holds
           /\ \A x, y \in Unlinked(dst, n) :
                 (\A u, v \in dst : u.names \cap v.names # {} => u = v) => (x.names \cap y.names # {} => x = y)
<1> DEFINE cut(y) == [y EXCEPT !.names = @ \ {n}]
<1>1. ASSUME NEW y \in dst
      PROVE  /\ cut(y) \in File /\ cut(y).names = y.names \ {n}
             /\ cut(y).kind = y.kind /\ cut(y).to = y.to /\ cut(y).from = y.from /\ cut(y).holds = y.holds
  BY DEF File
<1>2. Unlinked(dst, n) = {x \in {cut(y) : y \in dst} : x.names # {}}
  BY DEF Unlinked
<1> HIDE DEF cut
<1>3. \A x \in Unlinked(dst, n) : \E y \in dst : x = cut(y) /\ x.names # {}
  BY <1>2
<1>4. \A y \in dst : cut(y).names # {} => cut(y) \in Unlinked(dst, n)
  BY <1>2
<1>5. ASSUME NEW x \in Unlinked(dst, n), NEW y \in Unlinked(dst, n), x.names \cap y.names # {},
             \A u, v \in dst : u.names \cap v.names # {} => u = v
      PROVE  x = y
  <2>1. PICK u \in dst : x = cut(u)
    BY <1>3
  <2>2. PICK v \in dst : y = cut(v)
    BY <1>3
  <2>3. u.names \cap v.names # {}
    BY <1>1, <1>5, <2>1, <2>2
  <2>. QED  BY <1>5, <2>1, <2>2, <2>3
<1>. QED  BY <1>1, <1>3, <1>4, <1>5

LEMMA UnlinkedFiles ==
    ASSUME NEW dst \in SUBSET File, NEW n
    PROVE  Unlinked(dst, n) \in SUBSET File /\ \A x \in Unlinked(dst, n) : \E y \in dst : x.from = y.from
<1>1. Unlinked(dst, n) \in SUBSET File
  BY UnlinkedFacts
<1>2. \A x \in Unlinked(dst, n) : \E y \in dst : x.from = y.from
  BY UnlinkedFacts
<1>. QED  BY <1>1, <1>2

LEMMA NewFileIn ==
    ASSUME NEW b \in HttpBodies, NEW n \in Names, NEW k \in Kinds, NEW t \in Names, NEW w \in Amounts
    PROVE  NewFile(n, k, t, b, w) \in File
BY DEF NewFile, File

LEMMA AmountFacts ==
    /\ "all" \in Amounts /\ "part" \in Amounts /\ "none" \in Names
    /\ "file" \in Kinds /\ "dir" \in Kinds /\ "symlink" \in Kinds
BY DEF Amounts, Names, Kinds

(* A file that is stored where nothing was, and one stored over a file. *)
IsNew(f, n, b, w) == f.names = {n} /\ f.kind = "file" /\ f.to = "none" /\ f.from = b /\ f.holds = w

LEMMA StoredNew ==
    ASSUME NEW b \in HttpBodies, NEW dst \in SUBSET File, NEW n \in Names, NEW w \in Amounts,
           FileAt(dst, n) = {}
    PROVE  \E f \in File : Stored(dst, n, b, w) = dst \cup {f} /\ IsNew(f, n, b, w)
<1> DEFINE f == NewFile(n, "file", "none", b, w)
<1>1. Stored(dst, n, b, w) = dst \cup {f}
  BY DEF Stored
<1>2. f \in File
  <2>1. "file" \in Kinds /\ "none" \in Names
    BY AmountFacts
  <2>. QED  BY <2>1, NewFileIn
<1>3. IsNew(f, n, b, w)
  BY DEF NewFile, IsNew
<1> HIDE DEF f
<1>. QED  BY <1>1, <1>2, <1>3

LEMMA StoredPut ==
    ASSUME NEW b \in HttpBodies, NEW dst \in SUBSET File, NEW n, NEW w \in Amounts, FileAt(dst, n) # {}
    PROVE  /\ \A x \in Stored(dst, n, b, w) : \E y \in dst :
                 /\ x \in File /\ x.names = y.names /\ x.kind = y.kind /\ x.to = y.to
                 /\ (n \in y.names => x.from = b /\ x.holds = w) /\ (n \notin y.names => x = y)
           /\ \A y \in dst : \E x \in Stored(dst, n, b, w) :
                 /\ x.names = y.names /\ x.kind = y.kind /\ x.to = y.to
                 /\ (n \in y.names => x.from = b /\ x.holds = w) /\ (n \notin y.names => x = y)
<1> DEFINE put(y) == IF n \in y.names THEN [y EXCEPT !.from = b, !.holds = w] ELSE y
<1>1. ASSUME NEW y \in dst
      PROVE  /\ put(y) \in File /\ put(y).names = y.names /\ put(y).kind = y.kind /\ put(y).to = y.to
             /\ (n \in y.names => put(y).from = b /\ put(y).holds = w) /\ (n \notin y.names => put(y) = y)
  BY DEF File
<1>2. Stored(dst, n, b, w) = {put(y) : y \in dst}
  BY DEF Stored
<1> HIDE DEF put
<1>3. \A x \in Stored(dst, n, b, w) : \E y \in dst : x = put(y)
  BY <1>2
<1>4. \A y \in dst : put(y) \in Stored(dst, n, b, w)
  BY <1>2
<1>. QED  BY <1>1, <1>3, <1>4

LEMMA StoredFrom ==
    ASSUME NEW b \in HttpBodies, NEW dst \in SUBSET File, NEW n, NEW w \in Amounts, FileAt(dst, n) # {},
           NEW x \in Stored(dst, n, b, w)
    PROVE  \E y \in dst :
               /\ x \in File /\ x.names = y.names /\ x.kind = y.kind /\ x.to = y.to
               /\ (n \in y.names => x.from = b /\ x.holds = w) /\ (n \notin y.names => x = y)
BY StoredPut

LEMMA StoredAs ==
    ASSUME NEW b \in HttpBodies, NEW dst \in SUBSET File, NEW n, NEW w \in Amounts, FileAt(dst, n) # {},
           NEW y \in dst
    PROVE  \E x \in Stored(dst, n, b, w) :
               /\ x.names = y.names /\ (n \in y.names => x.from = b /\ x.holds = w) /\ (n \notin y.names => x = y)
BY StoredPut

LEMMA StoredApart ==
    ASSUME NEW b \in HttpBodies, NEW dst \in SUBSET File, NEW n, NEW w \in Amounts, FileAt(dst, n) # {},
           \A u, v \in dst : u.names \cap v.names # {} => u = v,
           NEW x \in Stored(dst, n, b, w), NEW y \in Stored(dst, n, b, w), x.names \cap y.names # {}
    PROVE  x = y
<1> DEFINE put(z) == IF n \in z.names THEN [z EXCEPT !.from = b, !.holds = w] ELSE z
<1>1. Stored(dst, n, b, w) = {put(z) : z \in dst}
  BY DEF Stored
<1>2. \A z \in dst : put(z).names = z.names
  BY DEF File
<1> HIDE DEF put
<1>3. PICK u \in dst : x = put(u)
  BY <1>1
<1>4. PICK v \in dst : y = put(v)
  BY <1>1
<1>5. u.names \cap v.names # {}
  BY <1>2, <1>3, <1>4
<1>. QED  BY <1>3, <1>4, <1>5

LEMMA StoredFiles ==
    ASSUME NEW b \in HttpBodies, NEW dst \in SUBSET File, NEW n \in Names, NEW w \in Amounts
    PROVE  \A x \in Stored(dst, n, b, w) : x \in File /\ (x.from = b \/ \E y \in dst : x.from = y.from)
<1> SUFFICES ASSUME NEW x \in Stored(dst, n, b, w) PROVE x \in File /\ (x.from = b \/ \E y \in dst : x.from = y.from)
  OBVIOUS
<1>1. CASE FileAt(dst, n) = {}
  <2>1. PICK f \in File : Stored(dst, n, b, w) = dst \cup {f} /\ IsNew(f, n, b, w)
    BY <1>1, StoredNew
  <2>. QED  BY <2>1 DEF IsNew
<1>2. CASE FileAt(dst, n) # {}
  <2>1. PICK y \in dst : /\ x \in File /\ x.names = y.names /\ x.kind = y.kind /\ x.to = y.to
                         /\ (n \in y.names => x.from = b /\ x.holds = w) /\ (n \notin y.names => x = y)
    BY <1>2, StoredFrom
  <2>. QED  BY <2>1
<1>. QED  BY <1>1, <1>2

LEMMA OpenedFacts ==
    ASSUME NEW dst \in SUBSET File, NEW n \in Names, NEW m \in Opened(dst, n)
    PROVE  m \in Names /\ (SymlinkAt(dst, n) = {} => m = n)
<1>1. NamesOf(dst) \subseteq Names
  BY DEF NamesOf, File
<1>2. SymlinkAt(dst, n) = {} => Closed(dst, {n})
  BY DEF Closed
<1>3. m \in {n} \cup NamesOf(dst) /\ \A S \in SUBSET ({n} \cup NamesOf(dst)) : n \in S /\ Closed(dst, S) => m \in S
  BY DEF Opened
<1>4. {n} \in SUBSET ({n} \cup NamesOf(dst))
  OBVIOUS
<1>. QED  BY <1>1, <1>2, <1>3, <1>4

(* A file entry that is written, whole or not. *)
LEMMA RegularKeeps ==
    ASSUME NEW b \in HttpBodies, NEW i \in Named(b), HttpEntries[b][i].kind = "file", NEW w \in Amounts,
           NEW dst \in SUBSET File, NEW new \in WriteRegular(dst, HttpEntries[b][i], b, w)
    PROVE  /\ new \in SUBSET File /\ \A x \in new : x.from = b \/ \E y \in dst : x.from = y.from
           /\ Tidy(b) /\ Fits(b, dst) => Fits(b, new)
           /\ Tidy(b) /\ Fits(b, dst) /\ w = "all" => IsThere(b, i, new)
           /\ Tidy(b) /\ Fits(b, dst) /\ w = "all" => \A j \in Named(b) : IsThere(b, j, dst) => IsThere(b, j, new)
<1> DEFINE n == HttpEntries[b][i].name
<1>1. PICK m \in Opened(dst, n) : new = Stored(dst, m, b, w)
  BY DEF WriteRegular
<1>2. n \in Names /\ m \in Names
  BY EntryFacts, OpenedFacts
<1>3. new \in SUBSET File /\ \A x \in new : x.from = b \/ \E y \in dst : x.from = y.from
  BY <1>1, <1>2, StoredFiles
<1>4. ASSUME Tidy(b), Fits(b, dst)
      PROVE  /\ Fits(b, new)
             /\ w = "all" => IsThere(b, i, new) /\ \A j \in Named(b) : IsThere(b, j, dst) => IsThere(b, j, new)
  <2>1. \A x \in dst : n \in x.names => PartOf(b, x, i)
    BY <1>4, FitAt
  <2>2. /\ FileOf(b, HttpEntries[b][i]).kind = "file" /\ FileOf(b, HttpEntries[b][i]).to = "none"
        /\ n \in FileOf(b, HttpEntries[b][i]).names
    BY DEF FileOf
  <2>3. \A x \in dst : n \in x.names => x.kind = "file"
    BY <2>1, <2>2 DEF PartOf
  <2>4. m = n
    BY <1>2, <2>3, OpenedFacts DEF SymlinkAt, FileAt
  <2>5. /\ \A x \in dst : x.from = b /\ \E j \in Named(b) : PartOf(b, x, j)
        /\ \A x, y \in dst : x.names \cap y.names # {} => x = y
    BY <1>4 DEF Fits
  <2>6. new = Stored(dst, m, b, w)
    BY <1>1
  <2>7. CASE FileAt(dst, m) = {}
    <3>1. PICK f \in File : Stored(dst, m, b, w) = dst \cup {f} /\ IsNew(f, m, b, w)
      BY <1>2, <2>7, StoredNew
    <3>2. /\ new = dst \cup {f} /\ f.names = {m} /\ f.kind = "file"
          /\ f.to = "none" /\ f.from = b /\ f.holds = w
      BY <2>6, <3>1 DEF IsNew
    <3>3. PartOf(b, f, i)
      BY <2>2, <2>4, <3>2 DEF PartOf
    <3>4. \A x \in dst : m \notin x.names
      BY <2>7 DEF FileAt
    <3>5. Fits(b, new)
      <4>1. \A x \in new : x.from = b /\ \E j \in Named(b) : PartOf(b, x, j)
        BY <2>5, <3>2, <3>3
      <4>2. \A x \in dst : x.names \cap f.names = {}
        BY <3>2, <3>4
      <4>3. \A x, y \in new : x.names \cap y.names # {} => x = y
        BY <2>5, <3>2, <4>2
      <4>. QED  BY <4>1, <4>3 DEF Fits
    <3>6. w = "all" => IsThere(b, i, new)
      BY <2>4, <3>2 DEF IsThere
    <3>7. \A j \in Named(b) : IsThere(b, j, dst) => IsThere(b, j, new)
      BY <3>2 DEF IsThere
    <3>. QED  BY <3>5, <3>6, <3>7
  <2>8. CASE FileAt(dst, m) # {}
    <3>1. ASSUME NEW x \in new PROVE x.from = b /\ \E j \in Named(b) : PartOf(b, x, j)
      <4>1. x \in Stored(dst, m, b, w)
        BY <2>6
      <4>2. PICK y \in dst : /\ x \in File /\ x.names = y.names /\ x.kind = y.kind /\ x.to = y.to
                             /\ (m \in y.names => x.from = b /\ x.holds = w) /\ (m \notin y.names => x = y)
        BY <2>8, <4>1, StoredFrom
      <4>3. CASE m \in y.names
        <5>1. PartOf(b, y, i) /\ y.kind = "file"
          BY <2>1, <2>3, <2>4, <4>3
        <5>. QED  BY <4>2, <4>3, <5>1 DEF PartOf
      <4>4. CASE m \notin y.names
        BY <2>5, <4>2, <4>4
      <4>. QED  BY <4>3, <4>4
    <3>2. \A x, y \in new : x.names \cap y.names # {} => x = y
      <4> SUFFICES ASSUME NEW x \in Stored(dst, m, b, w), NEW y \in Stored(dst, m, b, w), x.names \cap y.names # {}
                   PROVE  x = y
        BY <2>6
      <4>1. \A u, v \in dst : u.names \cap v.names # {} => u = v
        BY <2>5
      <4>. QED  BY <2>8, <4>1, StoredApart
    <3>3. Fits(b, new)
      BY <3>1, <3>2 DEF Fits
    <3>4. ASSUME w = "all", NEW y \in dst, y.holds = "all" \/ m \in y.names PROVE \E x \in new : x.names = y.names /\ x.holds = "all"
      <4>1. PICK x \in Stored(dst, m, b, w) :
                /\ x.names = y.names /\ (m \in y.names => x.from = b /\ x.holds = w) /\ (m \notin y.names => x = y)
        BY <2>8, StoredAs
      <4>. QED  BY <2>6, <3>4, <4>1
    <3>5. PICK y \in dst : m \in y.names
      BY <2>8 DEF FileAt
    <3>6. w = "all" => IsThere(b, i, new)
      BY <2>4, <3>4, <3>5 DEF IsThere
    <3>7. ASSUME w = "all", NEW j \in Named(b), IsThere(b, j, dst) PROVE IsThere(b, j, new)
      BY <3>4, <3>7 DEF IsThere
    <3>. QED  BY <3>3, <3>6, <3>7
  <2>. QED  BY <2>7, <2>8
<1>. QED  BY <1>3, <1>4

(* A name that is removed: all else stays. *)
LEMMA UnlinkedKeeps ==
    ASSUME NEW b \in HttpBodies, Tidy(b), NEW i \in Named(b), HttpEntries[b][i].kind \in {"symlink", "hardlink"},
           NEW dst \in SUBSET File, Fits(b, dst)
    PROVE  /\ Fits(b, Unlinked(dst, HttpEntries[b][i].name))
           /\ \A x \in Unlinked(dst, HttpEntries[b][i].name) : HttpEntries[b][i].name \notin x.names
           /\ \A j \in Named(b) : j < i /\ IsThere(b, j, dst) => IsThere(b, j, Unlinked(dst, HttpEntries[b][i].name))
<1> DEFINE n == HttpEntries[b][i].name
           rest == Unlinked(dst, n)
<1>1. /\ \A x \in rest : \E y \in dst :
            /\ x.names = y.names \ {n} /\ x.names # {}
            /\ x.kind = y.kind /\ x.to = y.to /\ x.from = y.from /\ x.holds = y.holds
      /\ \A y \in dst : y.names \ {n} # {} => \E x \in rest :
            /\ x.names = y.names \ {n}
            /\ x.kind = y.kind /\ x.to = y.to /\ x.from = y.from /\ x.holds = y.holds
      /\ \A x, y \in rest :
            (\A u, v \in dst : u.names \cap v.names # {} => u = v) => (x.names \cap y.names # {} => x = y)
  BY UnlinkedFacts
<1>2. /\ \A x \in dst : x.from = b /\ \E j \in Named(b) : PartOf(b, x, j)
      /\ \A x, y \in dst : x.names \cap y.names # {} => x = y
  BY DEF Fits
<1> HIDE DEF rest
<1>3. ASSUME NEW x \in rest PROVE x.from = b /\ n \notin x.names /\ \E j \in Named(b) : PartOf(b, x, j)
  <2>1. PICK y \in dst : /\ x.names = y.names \ {n} /\ x.names # {}
                         /\ x.kind = y.kind /\ x.to = y.to /\ x.from = y.from /\ x.holds = y.holds
    BY <1>1
  <2>2. PICK j \in Named(b) : PartOf(b, y, j)
    BY <1>2
  <2>. QED  BY <1>2, <2>1, <2>2 DEF PartOf
<1>4. Fits(b, rest)
  BY <1>1, <1>2, <1>3 DEF Fits
<1>5. ASSUME NEW j \in Named(b), j < i, IsThere(b, j, dst) PROVE IsThere(b, j, rest)
  <2> DEFINE d == HttpEntries[b][j]
  <2>1. PICK y \in dst : d.name \in y.names /\ y.holds = "all" /\ (d.kind = "hardlink" => d.link \in y.names)
    BY <1>5 DEF IsThere
  <2>2. i \in Nat /\ j \in Nat /\ j # i
    BY <1>5, EntryFacts
  <2>3. d.name # n
    BY <2>2, TidyFacts
  <2>4. d.kind = "hardlink" => d.link # n
    <3> SUFFICES ASSUME d.kind = "hardlink", d.link = n PROVE FALSE
      OBVIOUS
    <3>1. PICK k \in Named(b) : k < j /\ HttpEntries[b][k].name = n
      BY TidyFacts
    <3>2. k = i
      BY <3>1, TidyFacts
    <3>. QED  BY <1>5, <2>2, <3>1, <3>2
  <2>5. PICK x \in rest : x.names = y.names \ {n} /\ x.holds = y.holds
    BY <1>1, <2>1, <2>3
  <2>. QED  BY <2>1, <2>3, <2>4, <2>5 DEF IsThere
<1>. QED  BY <1>3, <1>4, <1>5 DEF rest

LEMMA SymlinkKeeps ==
    ASSUME NEW b \in HttpBodies, NEW i \in Named(b), HttpEntries[b][i].kind = "symlink",
           NEW dst \in SUBSET File, NEW new \in WriteSymlink(dst, HttpEntries[b][i], b)
    PROVE  /\ new \in SUBSET File /\ \A x \in new : x.from = b \/ \E y \in dst : x.from = y.from
           /\ Tidy(b) /\ Fits(b, dst) =>
                 Fits(b, new) /\ IsThere(b, i, new) /\ \A j \in Named(b) : j < i /\ IsThere(b, j, dst) => IsThere(b, j, new)
<1> DEFINE e == HttpEntries[b][i]
           rest == Unlinked(dst, e.name)
           f == NewFile(e.name, "symlink", e.link, b, "all")
<1>0. e.name \in Names /\ e.link \in Names
  BY EntryFacts
<1>1. /\ f \in File /\ f.names = {e.name} /\ f.kind = "symlink" /\ f.to = e.link /\ f.from = b /\ f.holds = "all"
  <2> HIDE DEF e
  <2>0. "symlink" \in Kinds /\ e.link \in Names /\ "all" \in Amounts
    BY <1>0, AmountFacts
  <2>1. f \in File
    BY <1>0, <2>0, NewFileIn
  <2>2. f.names = {e.name} /\ f.kind = "symlink" /\ f.to = e.link /\ f.from = b /\ f.holds = "all"
    BY DEF NewFile
  <2>. QED  BY <2>1, <2>2
<1>2. new = rest \cup {f}
  BY DEF WriteSymlink
<1>3. /\ rest \in SUBSET File /\ \A x \in rest : \E y \in dst : x.from = y.from
  BY UnlinkedFiles
<1>4. ASSUME Tidy(b), Fits(b, dst)
      PROVE  Fits(b, new) /\ IsThere(b, i, new) /\ \A j \in Named(b) : j < i /\ IsThere(b, j, dst) => IsThere(b, j, new)
  <2>1. /\ Fits(b, rest) /\ \A x \in rest : e.name \notin x.names
        /\ \A j \in Named(b) : j < i /\ IsThere(b, j, dst) => IsThere(b, j, rest)
    BY <1>4, UnlinkedKeeps
  <2> HIDE DEF rest, f
  <2>2. PartOf(b, f, i)
    BY <1>1 DEF PartOf, FileOf
  <2>3. \A x \in new : x.from = b /\ \E j \in Named(b) : PartOf(b, x, j)
    BY <1>1, <1>2, <2>1, <2>2 DEF Fits
  <2>4. \A x, y \in new : x.names \cap y.names # {} => x = y
    BY <1>1, <1>2, <2>1 DEF Fits
  <2>5. IsThere(b, i, new)
    BY <1>1, <1>2 DEF IsThere
  <2>6. \A j \in Named(b) : IsThere(b, j, rest) => IsThere(b, j, new)
    BY <1>2 DEF IsThere
  <2>. QED  BY <2>1, <2>3, <2>4, <2>5, <2>6 DEF Fits
<1> HIDE DEF rest, f
<1>. QED  BY <1>1, <1>2, <1>3, <1>4

LEMMA HardlinkKeeps ==
    ASSUME NEW b \in HttpBodies, NEW i \in Named(b), HttpEntries[b][i].kind = "hardlink",
           NEW dst \in SUBSET File, NEW new \in WriteHardlink(dst, HttpEntries[b][i])
    PROVE  /\ new \in SUBSET File /\ \A x \in new : \E y \in dst : x.from = y.from
           /\ Tidy(b) /\ Fits(b, dst) => Fits(b, new)
           /\ Tidy(b) /\ Fits(b, dst) /\ UpTo(b, i - 1, dst) =>
                 IsThere(b, i, new) /\ \A j \in Named(b) : j < i /\ IsThere(b, j, dst) => IsThere(b, j, new)
<1> DEFINE e == HttpEntries[b][i]
           rest == Unlinked(dst, e.name)
           put(x) == IF e.link \in x.names THEN [x EXCEPT !.names = @ \cup {e.name}] ELSE x
<1>1. new = {put(x) : x \in rest} /\ \E t \in rest : e.link \in t.names
  BY DEF WriteHardlink, FileAt
<1>2. /\ rest \in SUBSET File /\ \A x \in rest : \E y \in dst : x.from = y.from
  BY UnlinkedFiles
<1>3. e.name \in Names /\ e.link \in Names
  BY EntryFacts
<1>4. ASSUME NEW x \in rest
      PROVE  /\ put(x) \in File /\ put(x).from = x.from /\ put(x).kind = x.kind /\ put(x).to = x.to /\ put(x).holds = x.holds
             /\ put(x).names = IF e.link \in x.names THEN x.names \cup {e.name} ELSE x.names
  BY <1>2, <1>3 DEF File
<1> HIDE DEF e, rest, put
<1>5. \A x \in new : \E y \in rest : x = put(y)
  BY <1>1
<1>6. \A y \in rest : put(y) \in new
  BY <1>1
<1>7. ASSUME Tidy(b), Fits(b, dst) PROVE Fits(b, new)
  <2>1. Fits(b, rest) /\ \A x \in rest : e.name \notin x.names
    BY <1>7, UnlinkedKeeps DEF rest, e
  <2>2. PICK h \in Named(b) : HttpEntries[b][h].kind = "file" /\ HttpEntries[b][h].name = e.link
    BY <1>7, TidyFacts DEF e
  <2>3. e.name \in FileOf(b, HttpEntries[b][h]).names
    <3>1. i \in DOMAIN HttpEntries[b] /\ HttpEntries[b][i].kind = "hardlink" /\ HttpEntries[b][i].link = HttpEntries[b][h].name
      BY <2>2, EntryFacts DEF e
    <3>2. e.name \in LinksTo(b, HttpEntries[b][h].name)
      BY <3>1 DEF LinksTo, e
    <3>. QED  BY <2>2, <3>2 DEF FileOf
  <2>4. ASSUME NEW x \in new PROVE x.from = b /\ \E j \in Named(b) : PartOf(b, x, j)
    <3>1. PICK y \in rest : x = put(y)
      BY <1>5
    <3>2. CASE e.link \in y.names
      <4>1. PartOf(b, y, h)
        BY <1>7, <2>1, <2>2, <3>2, FitAt
      <4>a. y.names \subseteq FileOf(b, HttpEntries[b][h]).names
        BY <4>1 DEF PartOf
      <4>b. x.names = y.names \cup {e.name}
        BY <1>4, <3>1, <3>2
      <4>2. x.names \subseteq FileOf(b, HttpEntries[b][h]).names /\ x.names # {}
        BY <2>3, <4>a, <4>b
      <4>3. PartOf(b, x, h)
        BY <1>4, <3>1, <4>1, <4>2 DEF PartOf
      <4>. QED  BY <1>4, <2>1, <3>1, <4>3 DEF Fits
    <3>3. CASE e.link \notin y.names
      <4>1. x = y
        BY <3>1, <3>3 DEF put
      <4>. QED  BY <2>1, <4>1 DEF Fits
    <3>. QED  BY <3>2, <3>3
  <2>5. ASSUME NEW x \in new, NEW y \in new, x.names \cap y.names # {} PROVE x = y
    <3>1. PICK u \in rest : x = put(u)
      BY <1>5
    <3>2. PICK v \in rest : y = put(v)
      BY <1>5
    <3>3. \A p, q \in rest : p.names \cap q.names # {} => p = q
      BY <2>1 DEF Fits
    <3>4. e.name \notin u.names /\ e.name \notin v.names
      BY <2>1
    <3>5. u = v
      <4>1. CASE u.names \cap v.names # {}
        BY <3>3, <4>1
      <4>2. CASE u.names \cap v.names = {}
        <5>1. e.link \in u.names /\ e.link \in v.names
          BY <1>4, <2>5, <3>1, <3>2, <3>4, <4>2
        <5>. QED  BY <4>2, <5>1
      <4>. QED  BY <4>1, <4>2
    <3>. QED  BY <3>1, <3>2, <3>5
  <2>. QED  BY <2>4, <2>5 DEF Fits
<1>8. ASSUME Tidy(b), Fits(b, dst), UpTo(b, i - 1, dst)
      PROVE  IsThere(b, i, new) /\ \A j \in Named(b) : j < i /\ IsThere(b, j, dst) => IsThere(b, j, new)
  <2>1. \A j \in Named(b) : j < i /\ IsThere(b, j, dst) => IsThere(b, j, rest)
    BY <1>8, UnlinkedKeeps DEF rest, e
  <2>2. \A y \in rest : \E x \in new : y.names \subseteq x.names /\ x.holds = y.holds /\ (e.link \in y.names => e.name \in x.names)
    BY <1>4, <1>6
  <2>3. PICK h \in Named(b) : h < i /\ HttpEntries[b][h].name = e.link
    BY <1>8, TidyFacts DEF e
  <2>4. IsThere(b, h, rest)
    <3>1. h \in Nat /\ i \in Nat /\ h <= i - 1
      BY <2>3, EntryFacts
    <3>. QED  BY <1>8, <2>1, <2>3, <3>1 DEF UpTo
  <2>5. PICK y \in rest : e.link \in y.names /\ y.holds = "all"
    BY <2>3, <2>4 DEF IsThere
  <2>6. IsThere(b, i, new)
    BY <2>2, <2>5 DEF IsThere, e
  <2>7. ASSUME NEW j \in Named(b), IsThere(b, j, rest) PROVE IsThere(b, j, new)
    <3>1. PICK z \in rest : /\ HttpEntries[b][j].name \in z.names /\ z.holds = "all"
                            /\ (HttpEntries[b][j].kind = "hardlink" => HttpEntries[b][j].link \in z.names)
      BY <2>7 DEF IsThere
    <3>2. PICK x \in new : z.names \subseteq x.names /\ x.holds = z.holds
      BY <2>2
    <3>. QED  BY <3>1, <3>2 DEF IsThere
  <2>. QED  BY <2>1, <2>6, <2>7
<1>9. new \in SUBSET File /\ \A x \in new : \E y \in dst : x.from = y.from
  <2> SUFFICES ASSUME NEW x \in new PROVE x \in File /\ \E y \in dst : x.from = y.from
    OBVIOUS
  <2>1. PICK z \in rest : x = put(z)
    BY <1>5
  <2>2. x \in File /\ x.from = z.from
    BY <1>4, <2>1
  <2>. QED  BY <1>2, <2>2
<1>. QED  BY <1>7, <1>8, <1>9

LEMMA DirKeeps ==
    ASSUME NEW b \in HttpBodies, NEW i \in Named(b), HttpEntries[b][i].kind = "dir",
           NEW dst \in SUBSET File, NEW new \in WriteDir(dst, HttpEntries[b][i], b)
    PROVE  /\ new \in SUBSET File /\ \A x \in new : x.from = b \/ \E y \in dst : x.from = y.from
           /\ Tidy(b) /\ Fits(b, dst) =>
                 Fits(b, new) /\ IsThere(b, i, new) /\ \A j \in Named(b) : IsThere(b, j, dst) => IsThere(b, j, new)
<1> DEFINE e == HttpEntries[b][i]
           f == NewFile(e.name, "dir", "none", b, "all")
<1>0. e.name \in Names /\ e.link \in Names
  BY EntryFacts
<1>1. /\ f \in File /\ f.names = {e.name} /\ f.kind = "dir" /\ f.to = "none" /\ f.from = b /\ f.holds = "all"
  <2> HIDE DEF e
  <2>0. "dir" \in Kinds /\ "none" \in Names /\ "all" \in Amounts
    BY <1>0, AmountFacts
  <2>1. f \in File
    BY <1>0, <2>0, NewFileIn
  <2>2. f.names = {e.name} /\ f.kind = "dir" /\ f.to = "none" /\ f.from = b /\ f.holds = "all"
    BY DEF NewFile
  <2>. QED  BY <2>1, <2>2
<1>2. IF FileAt(dst, e.name) = {} THEN new = dst \cup {f} ELSE new = dst
  BY DEF WriteDir
<1>3. FileOf(b, e).kind = "dir" /\ FileOf(b, e).to = "none" /\ e.name \in FileOf(b, e).names
  BY DEF FileOf
<1> HIDE DEF f
<1>4. CASE FileAt(dst, e.name) = {}
  <2>1. \A x \in dst : e.name \notin x.names
    BY <1>4 DEF FileAt
  <2>2. PartOf(b, f, i)
    BY <1>1, <1>3 DEF PartOf
  <2>3. ASSUME Fits(b, dst) PROVE Fits(b, new)
    <3>a. /\ \A x \in dst : x.from = b /\ \E j \in Named(b) : PartOf(b, x, j)
          /\ \A x, y \in dst : x.names \cap y.names # {} => x = y
      BY <2>3 DEF Fits
    <3>b. new = dst \cup {f} /\ \A x \in dst : x.names \cap f.names = {}
      BY <1>1, <1>2, <1>4, <2>1
    <3>1. \A x \in new : x.from = b /\ \E j \in Named(b) : PartOf(b, x, j)
      BY <1>1, <2>2, <3>a, <3>b
    <3>2. \A x, y \in new : x.names \cap y.names # {} => x = y
      BY <3>a, <3>b
    <3>. QED  BY <3>1, <3>2 DEF Fits
  <2>4. IsThere(b, i, new) /\ \A j \in Named(b) : IsThere(b, j, dst) => IsThere(b, j, new)
    BY <1>1, <1>2, <1>4 DEF IsThere
  <2>. QED  BY <1>1, <1>2, <1>4, <2>3, <2>4
<1>5. CASE FileAt(dst, e.name) # {}
  <2>1. PICK x \in dst : e.name \in x.names
    BY <1>5 DEF FileAt
  <2>2. Tidy(b) /\ Fits(b, dst) => x.holds = "all"
    BY <1>3, <2>1, FitAt DEF PartOf
  <2>. QED  BY <1>2, <1>5, <2>1, <2>2 DEF IsThere
<1>. QED  BY <1>4, <1>5

(* One more entry: what was there stays, and the entry is there too. *)
LEMMA WrittenKeeps ==
    ASSUME NEW b \in HttpBodies, NEW n \in Nat, n + 1 <= Len(HttpEntries[b]),
           NEW dst \in SUBSET File, NEW new \in Written(dst, HttpEntries[b][n + 1], b)
    PROVE  /\ new \in SUBSET File /\ \A x \in new : x.from = b \/ \E y \in dst : x.from = y.from
           /\ Tidy(b) /\ Fits(b, dst) => Fits(b, new)
           /\ Tidy(b) /\ Fits(b, dst) /\ UpTo(b, n, dst) => UpTo(b, n + 1, new)
<1> DEFINE i == n + 1
           e == HttpEntries[b][i]
<1>1. i \in DOMAIN HttpEntries[b] /\ i - 1 = n
  BY ConstantFacts
<1>2. CASE Skipped(e)
  <2>1. new = dst
    BY <1>2 DEF Written, Skipped
  <2>2. \A j \in Named(b) : j <= n + 1 => j <= n
    <3> SUFFICES ASSUME NEW j \in Named(b), j <= n + 1 PROVE j <= n
      OBVIOUS
    <3>1. j # n + 1
      BY <1>2 DEF Named
    <3>. QED  BY <3>1, EntryFacts
  <2>. QED  BY <2>1, <2>2 DEF UpTo
<1>3. CASE ~Skipped(e)
  <2>1. i \in Named(b)
    BY <1>1, <1>3 DEF Named
  <2>2. \/ e.kind = "file" /\ new \in WriteRegular(dst, e, b, "all")
        \/ e.kind = "dir" /\ new \in WriteDir(dst, e, b)
        \/ e.kind = "symlink" /\ new \in WriteSymlink(dst, e, b)
        \/ e.kind = "hardlink" /\ new \in WriteHardlink(dst, e)
    BY <1>3 DEF Written, Skipped
  <2>c. Tidy(b) /\ Fits(b, dst) /\ UpTo(b, n, dst) => UpTo(b, i - 1, dst)
    BY <1>1
  <2> DEFINE Kept == /\ new \in SUBSET File /\ \A x \in new : x.from = b \/ \E y \in dst : x.from = y.from
                     /\ Tidy(b) /\ Fits(b, dst) => Fits(b, new)
                     /\ Tidy(b) /\ Fits(b, dst) /\ UpTo(b, i - 1, dst) =>
                           IsThere(b, i, new) /\ \A j \in Named(b) : j < i /\ IsThere(b, j, dst) => IsThere(b, j, new)
  <2>d. e.kind = "file" /\ new \in WriteRegular(dst, e, b, "all") => Kept
    <3> SUFFICES ASSUME e.kind = "file", new \in WriteRegular(dst, e, b, "all") PROVE Kept
      OBVIOUS
    <3>1. PICK w \in Amounts : w = "all"
      BY AmountFacts
    <3>2. new \in WriteRegular(dst, e, b, w)
      BY <3>1
    <3>3. /\ new \in SUBSET File /\ \A x \in new : x.from = b \/ \E y \in dst : x.from = y.from
          /\ Tidy(b) /\ Fits(b, dst) => Fits(b, new)
          /\ Tidy(b) /\ Fits(b, dst) /\ w = "all" => IsThere(b, i, new)
          /\ Tidy(b) /\ Fits(b, dst) /\ w = "all" => \A j \in Named(b) : IsThere(b, j, dst) => IsThere(b, j, new)
      BY <2>1, <3>2, RegularKeeps
    <3>. QED  BY <3>1, <3>3
  <2>e. e.kind = "dir" /\ new \in WriteDir(dst, e, b) => Kept
    BY <2>1, DirKeeps
  <2>f. e.kind = "symlink" /\ new \in WriteSymlink(dst, e, b) => Kept
    BY <2>1, SymlinkKeeps
  <2>g. e.kind = "hardlink" /\ new \in WriteHardlink(dst, e) => Kept
    BY <2>1, HardlinkKeeps
  <2>h. Kept
    <3> HIDE DEF Kept
    <3>. QED  BY <2>2, <2>d, <2>e, <2>f, <2>g
  <2>3. /\ new \in SUBSET File /\ \A x \in new : x.from = b \/ \E y \in dst : x.from = y.from
        /\ Tidy(b) /\ Fits(b, dst) => Fits(b, new)
    BY <2>h
  <2>4. Tidy(b) /\ Fits(b, dst) /\ UpTo(b, n, dst) =>
            IsThere(b, i, new) /\ \A j \in Named(b) : j < i /\ IsThere(b, j, dst) => IsThere(b, j, new)
    BY <2>c, <2>h
  <2> HIDE DEF e
  <2>5. \A j \in Named(b) : j <= n + 1 => j = i \/ (j < i /\ j <= n)
    BY EntryFacts
  <2>. QED  BY <2>3, <2>4, <2>5 DEF UpTo
<1>. QED  BY <1>2, <1>3

LEMMA BrokenKeeps ==
    ASSUME NEW b \in HttpBodies, NEW n \in Nat, n + 1 <= Len(HttpEntries[b]),
           NEW dst \in SUBSET File, NEW new \in Broken(dst, HttpEntries[b][n + 1], b)
    PROVE  /\ new \in SUBSET File /\ \A x \in new : x.from = b \/ \E y \in dst : x.from = y.from
           /\ Tidy(b) /\ Fits(b, dst) => Fits(b, new)
<1> DEFINE i == n + 1
           e == HttpEntries[b][i]
<1>1. i \in DOMAIN HttpEntries[b]
  BY ConstantFacts
<1>2. \/ new = dst
      \/ e.kind = "file" /\ new \in WriteRegular(dst, e, b, "part")
      \/ e.kind \in {"symlink", "hardlink"} /\ new = Unlinked(dst, e.name)
  BY DEF Broken
<1>3. CASE new = dst
  BY <1>3
<1>4. CASE e.kind = "file" /\ new \in WriteRegular(dst, e, b, "part")
  <2>1. i \in Named(b)
    BY <1>1, <1>4 DEF Named, Skipped
  <2>2. PICK w \in Amounts : w = "part"
    BY AmountFacts
  <2>3. new \in WriteRegular(dst, e, b, w)
    BY <1>4, <2>2
  <2>4. /\ new \in SUBSET File /\ \A x \in new : x.from = b \/ \E y \in dst : x.from = y.from
        /\ Tidy(b) /\ Fits(b, dst) => Fits(b, new)
    BY <1>4, <2>1, <2>3, RegularKeeps
  <2>. QED  BY <2>4
<1>5. CASE e.kind \in {"symlink", "hardlink"} /\ new = Unlinked(dst, e.name)
  <2>1. i \in Named(b)
    BY <1>1, <1>5 DEF Named, Skipped
  <2>2. new \in SUBSET File /\ \A x \in new : \E y \in dst : x.from = y.from
    BY <1>5, UnlinkedFiles
  <2>. QED  BY <1>5, <2>1, <2>2, UnlinkedKeeps
<1>. QED  BY <1>2, <1>3, <1>4, <1>5

(* All entries there and nothing else: that is the archive. *)
LEMMA AllThere ==
    ASSUME NEW b \in HttpBodies, Tidy(b), NEW dst \in SUBSET File, Fits(b, dst), UpTo(b, Len(HttpEntries[b]), dst)
    PROVE  dst = Archive(b)
<1> DEFINE es == HttpEntries[b]
<1>1. \A i \in Named(b) : IsThere(b, i, dst)
  BY EntryFacts DEF UpTo
<1>2. /\ \A x \in dst : x.from = b /\ \E i \in Named(b) : PartOf(b, x, i)
      /\ \A x, y \in dst : x.names \cap y.names # {} => x = y
  BY DEF Fits
<1>3. ASSUME NEW x \in dst, NEW i \in Named(b), PartOf(b, x, i) PROVE x = FileOf(b, es[i])
  <2>1. /\ es[i].kind # "hardlink" /\ x.names \subseteq FileOf(b, es[i]).names /\ x.names # {}
        /\ x.kind = FileOf(b, es[i]).kind /\ x.to = FileOf(b, es[i]).to
    BY <1>3 DEF PartOf
  <2>2. FileOf(b, es[i]).names = {es[i].name} \cup (IF es[i].kind = "file" THEN LinksTo(b, es[i].name) ELSE {})
    BY DEF FileOf
  <2>3. ASSUME NEW k \in DOMAIN es, es[k].kind = "hardlink", es[k].link = es[i].name
        PROVE  \E z \in dst : es[k].name \in z.names /\ es[i].name \in z.names
    <3>1. k \in Named(b)
      BY <2>3 DEF Named, Skipped
    <3>. QED  BY <1>1, <2>3, <3>1 DEF IsThere
  <2>4. es[i].name \in x.names
    <3>1. PICK m \in x.names : m \in FileOf(b, es[i]).names
      BY <2>1
    <3>2. CASE m = es[i].name
      BY <3>1, <3>2
    <3>3. CASE m \in LinksTo(b, es[i].name)
      <4>1. PICK k \in DOMAIN es : es[k].kind = "hardlink" /\ es[k].link = es[i].name /\ es[k].name = m
        BY <3>3 DEF LinksTo
      <4>2. PICK z \in dst : m \in z.names /\ es[i].name \in z.names
        BY <2>3, <4>1
      <4>. QED  BY <1>2, <3>1, <4>2
    <3>. QED  BY <2>2, <3>1, <3>2, <3>3
  <2>5. x.holds = "all"
    <3>1. PICK y \in dst : es[i].name \in y.names /\ y.holds = "all"
      BY <1>1 DEF IsThere
    <3>. QED  BY <1>2, <2>4, <3>1
  <2>6. FileOf(b, es[i]).names \subseteq x.names
    <3> SUFFICES ASSUME NEW m \in LinksTo(b, es[i].name) PROVE m \in x.names
      BY <2>2, <2>4
    <3>1. PICK k \in DOMAIN es : es[k].kind = "hardlink" /\ es[k].link = es[i].name /\ es[k].name = m
      BY DEF LinksTo
    <3>2. PICK z \in dst : m \in z.names /\ es[i].name \in z.names
      BY <2>3, <3>1
    <3>. QED  BY <1>2, <2>4, <3>2
  <2>7. x.names = FileOf(b, es[i]).names /\ x.from = b /\ x \in File
    BY <1>2, <2>1, <2>6
  <2> DEFINE f == FileOf(b, es[i])
  <2>9. f = [names |-> f.names, kind |-> f.kind, to |-> f.to, from |-> b, holds |-> "all"]
    BY DEF FileOf
  <2> HIDE DEF f
  <2>10. x = [names |-> x.names, kind |-> x.kind, to |-> x.to, from |-> x.from, holds |-> x.holds]
    BY <2>7 DEF File
  <2>. QED  BY <2>1, <2>5, <2>7, <2>9, <2>10 DEF f
<1>4. ASSUME NEW x \in dst PROVE x \in Archive(b)
  <2>1. PICK i \in Named(b) : PartOf(b, x, i)
    BY <1>2
  <2>2. x = FileOf(b, es[i]) /\ es[i].kind \in {"file", "dir", "symlink"} /\ i \in DOMAIN es
    BY <1>3, <2>1, EntryFacts DEF PartOf
  <2>. QED  BY <2>2 DEF Archive
<1>5. ASSUME NEW x \in Archive(b) PROVE x \in dst
  <2>1. PICK i \in DOMAIN es : x = FileOf(b, es[i]) /\ es[i].kind \in {"file", "dir", "symlink"}
    BY DEF Archive
  <2>2. i \in Named(b)
    BY <2>1 DEF Named, Skipped
  <2>3. PICK y \in dst : es[i].name \in y.names
    BY <1>1, <2>2 DEF IsThere
  <2>4. PartOf(b, y, i)
    BY <2>1, <2>2, <2>3, FitAt
  <2>. QED  BY <1>3, <2>1, <2>2, <2>4
<1>. QED  BY <1>4, <1>5

-----------------------------------------------------------------------------
LEMMA HttpInitial == HttpInit => HttpInv
<1> SUFFICES ASSUME HttpInit PROVE HttpInv
  OBVIOUS
<1>1. HttpRecords
  <2>1. 1 \in 1..HttpLinks /\ 0 \in 0..MaxHops /\ 0 \in 0..MaxBodyChunks
    BY ConstantFacts
  <2>. QED  BY <2>1, ConstantFacts DEF HttpInit, HttpRecords, Places, Outcomes, File
<1>2. SlotsHeld
  BY FS_EmptySet, ConstantFacts DEF HttpInit, SlotsHeld
<1>3. TmpRemoved /\ AuthAtOrigin /\ AuthOnlyToOrigin /\ ErrorReturns
  BY DEF HttpInit, TmpRemoved, AuthAtOrigin, AuthOnlyToOrigin, ErrorReturns
<1>4. BodyRead /\ Unpacking /\ FilesVerified /\ Reported
  <2>1. \A b : Fits(b, {})
    BY DEF Fits
  <2>. QED  BY <2>1 DEF HttpInit, BodyRead, Unpacking, FilesVerified, Reported
<1>5. Counted
  <2>1. Ended = {} /\ Failed = {}
    BY DEF HttpInit, Ended, Failed
  <2>. QED  BY <2>1, FS_EmptySet DEF HttpInit, Counted
<1>. QED  BY <1>1, <1>2, <1>3, <1>4, <1>5 DEF HttpInv

-----------------------------------------------------------------------------
(* A step that ends no call keeps the metrics right. *)
LEMMA CountedKept ==
    ASSUME Counted, UNCHANGED <<httpOut, httpMetrics>>, \A c \in HttpCallers : httpPc'[c] = "done" <=> httpPc[c] = "done"
    PROVE  Counted'
<1>1. Ended' = Ended /\ Failed' = Failed
  BY DEF Ended, Failed
<1>. QED  BY <1>1 DEF Counted

LEMMA ApplyHolds ==
    ASSUME HttpInv, NEW c \in HttpCallers, HttpApply(c)
    PROVE  HttpInv'
<1>1. HttpRecords'
  <2>1. httpPc' \in [HttpCallers -> Places] /\ httpErr' \in [HttpCallers -> BOOLEAN]
    BY DEF HttpInv, HttpRecords, Places, HttpApply, HttpAt, HttpFail, HttpOk, RequestSame, BodySame, OuterSame
  <2>. QED  BY <2>1 DEF HttpInv, HttpRecords, HttpApply, HttpAt, HttpFail, HttpOk, RequestSame, BodySame, OuterSame
<1>2. TmpRemoved'
  BY DEF HttpInv, HttpRecords, TmpRemoved, HttpApply, HttpAt, HttpFail, HttpOk, RequestSame, BodySame, OuterSame
<1>3. SlotsHeld'
  BY DEF HttpInv, HttpRecords, SlotsHeld, HttpApply, HttpAt, HttpFail, HttpOk, RequestSame, BodySame, OuterSame
<1>4. AuthAtOrigin' /\ AuthOnlyToOrigin'
  BY DEF HttpInv, HttpRecords, AuthAtOrigin, AuthOnlyToOrigin, HttpApply, HttpAt, HttpFail, HttpOk, RequestSame, BodySame, OuterSame
<1>5. ErrorReturns'
  BY DEF HttpInv, HttpRecords, ErrorReturns, HttpApply, HttpAt, HttpFail, HttpOk, RequestSame, BodySame, OuterSame
<1>6. BodyRead'
  BY DEF HttpInv, HttpRecords, BodyRead, HttpApply, HttpAt, HttpFail, HttpOk, RequestSame, BodySame, OuterSame
<1>7. Unpacking'
  BY DEF HttpInv, HttpRecords, Unpacking, DigestOK, HttpApply, HttpAt, HttpFail, HttpOk, RequestSame, BodySame, OuterSame
<1>8. FilesVerified'
  BY DEF HttpInv, HttpRecords, FilesVerified, HttpApply, HttpAt, HttpFail, HttpOk, RequestSame, BodySame, OuterSame
<1>9. Reported'
  BY DEF HttpInv, HttpRecords, Reported, HttpApply, HttpAt, HttpFail, HttpOk, RequestSame, BodySame, OuterSame
<1>10. Counted'
  BY CountedKept DEF HttpInv, HttpRecords, HttpApply, HttpAt, HttpFail, HttpOk, RequestSame, BodySame, OuterSame
<1>. QED  BY <1>1, <1>2, <1>3, <1>4, <1>5, <1>6, <1>7, <1>8, <1>9, <1>10 DEF HttpInv

LEMMA AcquireHolds ==
    ASSUME HttpInv, NEW c \in HttpCallers, HttpAcquire(c)
    PROVE  HttpInv'
<1>a. /\ httpPc[c] = "acquire" /\ httpPc' \in {[httpPc EXCEPT ![c] = "temp"], [httpPc EXCEPT ![c] = "return"]}
      /\ httpErr' \in {httpErr, [httpErr EXCEPT ![c] = TRUE]}
  BY DEF HttpAcquire, HttpAt, HttpFail, HttpOk
<1>b. \/ httpSlots' = httpSlots
      \/ /\ httpSlots' = [httpSlots EXCEPT ![httpLink[c]] = @ \cup {c}] /\ Cardinality(httpSlots[httpLink[c]]) < MaxFetches
         /\ httpPc' = [httpPc EXCEPT ![c] = "temp"]
  BY DEF HttpAcquire, HttpAt
<1>c. /\ httpLink[c] \in 1..HttpLinks /\ httpSlots \in [1..HttpLinks -> SUBSET HttpCallers]
      /\ httpPc \in [HttpCallers -> Places] /\ httpErr \in [HttpCallers -> BOOLEAN]
  BY DEF HttpInv, HttpRecords
<1>1. HttpRecords'
  <2>1. httpPc' \in [HttpCallers -> Places] /\ httpErr' \in [HttpCallers -> BOOLEAN]
    BY <1>a, <1>c DEF Places
  <2>2. httpSlots' \in [1..HttpLinks -> SUBSET HttpCallers]
    BY <1>b, <1>c
  <2>. QED  BY <2>1, <2>2 DEF HttpInv, HttpRecords, HttpAcquire, RequestSame, BodySame, OuterSame
<1>2. TmpRemoved'
  BY DEF HttpInv, HttpRecords, TmpRemoved, HttpAcquire, HttpAt, HttpFail, HttpOk, RequestSame, BodySame, OuterSame
<1>3. SlotsHeld'
  <2>1. SlotsHeld /\ UNCHANGED httpLink
    BY DEF HttpInv, HttpAcquire, OuterSame
  <2>2. CASE httpSlots' = httpSlots
    BY <1>a, <1>c, <2>1, <2>2 DEF SlotsHeld
  <2>3. CASE httpSlots' # httpSlots
    <3> DEFINE old == httpSlots[httpLink[c]]
    <3>1. IsFiniteSet(old) /\ Cardinality(old) < MaxFetches /\ Cardinality(old) \in Nat
      BY <1>b, <1>c, <2>1, <2>3, FS_CardinalityType DEF SlotsHeld
    <3>2. /\ IsFiniteSet(old \cup {c})
          /\ Cardinality(old \cup {c}) = IF c \in old THEN Cardinality(old) ELSE Cardinality(old) + 1
      BY <3>1, FS_AddElement, Zenon
    <3>3. Cardinality(old \cup {c}) <= MaxFetches /\ IsFiniteSet(old \cup {c})
      <4>1. Cardinality(old \cup {c}) \in Nat
        BY <3>2, FS_CardinalityType
      <4> DEFINE n == Cardinality(old)
                 m == Cardinality(old \cup {c})
      <4>2. n \in Nat /\ m \in Nat /\ m <= n + 1 /\ n < MaxFetches /\ MaxFetches \in Nat
        BY <3>1, <3>2, <4>1, ConstantFacts
      <4> HIDE DEF n, m
      <4>3. m <= MaxFetches
        BY <4>2
      <4>. QED  BY <3>2, <4>3 DEF m
    <3>4. httpSlots' = [httpSlots EXCEPT ![httpLink[c]] = old \cup {c}]
      BY <1>b, <2>3
    <3> HIDE DEF old
    <3>5. \A i \in 1..HttpLinks : httpSlots'[i] = IF i = httpLink[c] THEN old \cup {c} ELSE httpSlots[i]
      BY <1>c, <3>4
    <3>6. \A q \in HttpCallers : httpPc[q] \notin {"idle", "done"} => httpPc'[q] \notin {"idle", "done"}
      BY <1>a, <1>c
    <3>7. httpPc'[c] = "temp"
      BY <1>b, <1>c, <2>3
    <3> SUFFICES ASSUME NEW i \in 1..HttpLinks
                 PROVE  /\ IsFiniteSet(httpSlots'[i]) /\ Cardinality(httpSlots'[i]) <= MaxFetches
                        /\ \A q \in httpSlots'[i] : i = httpLink[q] /\ httpPc'[q] \notin {"idle", "done"}
      BY <2>1 DEF SlotsHeld
    <3>8. IsFiniteSet(httpSlots'[i]) /\ Cardinality(httpSlots'[i]) <= MaxFetches
      BY <2>1, <3>3, <3>5 DEF SlotsHeld
    <3>9. ASSUME NEW q \in httpSlots'[i] PROVE i = httpLink[q] /\ httpPc'[q] \notin {"idle", "done"}
      <4>1. q \in httpSlots[i] \/ (q = c /\ i = httpLink[c])
        BY <3>5, <3>9 DEF old
      <4>2. q \in httpSlots[i] => i = httpLink[q] /\ httpPc[q] \notin {"idle", "done"} /\ q \in HttpCallers
        BY <1>c, <2>1 DEF SlotsHeld
      <4>. QED  BY <3>6, <3>7, <4>1, <4>2
    <3>. QED  BY <3>8, <3>9
  <2>. QED  BY <2>2, <2>3
<1>4. AuthAtOrigin' /\ AuthOnlyToOrigin'
  BY DEF HttpInv, HttpRecords, AuthAtOrigin, AuthOnlyToOrigin, HttpAcquire, HttpAt, HttpFail, HttpOk, RequestSame, BodySame, OuterSame
<1>5. ErrorReturns'
  BY DEF HttpInv, HttpRecords, ErrorReturns, HttpAcquire, HttpAt, HttpFail, HttpOk, RequestSame, BodySame, OuterSame
<1>6. BodyRead'
  BY DEF HttpInv, HttpRecords, BodyRead, HttpAcquire, HttpAt, HttpFail, HttpOk, RequestSame, BodySame, OuterSame
<1>7. Unpacking'
  BY DEF HttpInv, HttpRecords, Unpacking, DigestOK, HttpAcquire, HttpAt, HttpFail, HttpOk, RequestSame, BodySame, OuterSame
<1>8. FilesVerified'
  BY DEF HttpInv, HttpRecords, FilesVerified, HttpAcquire, HttpAt, HttpFail, HttpOk, RequestSame, BodySame, OuterSame
<1>9. Reported'
  BY DEF HttpInv, HttpRecords, Reported, HttpAcquire, HttpAt, HttpFail, HttpOk, RequestSame, BodySame, OuterSame
<1>10. Counted'
  BY CountedKept DEF HttpInv, HttpRecords, HttpAcquire, HttpAt, HttpFail, HttpOk, RequestSame, BodySame, OuterSame
<1>. QED  BY <1>1, <1>2, <1>3, <1>4, <1>5, <1>6, <1>7, <1>8, <1>9, <1>10 DEF HttpInv

LEMMA CreateTempHolds ==
    ASSUME HttpInv, NEW c \in HttpCallers, HttpCreateTemp(c)
    PROVE  HttpInv'
<1>1. HttpRecords'
  <2>1. httpPc' \in [HttpCallers -> Places] /\ httpErr' \in [HttpCallers -> BOOLEAN]
    BY DEF HttpInv, HttpRecords, Places, HttpCreateTemp, HttpAt, HttpFail, HttpOk, RequestSame, BodySame, OuterSame
  <2>2. httpTmp' \in [HttpCallers -> BOOLEAN]
    BY DEF HttpInv, HttpRecords, HttpCreateTemp, HttpAt, HttpFail, HttpOk, RequestSame, BodySame, OuterSame
  <2>. QED  BY <2>1, <2>2 DEF HttpInv, HttpRecords, HttpCreateTemp, HttpAt, HttpFail, HttpOk, RequestSame, BodySame, OuterSame
<1>2. TmpRemoved'
  <2>1. httpPc[c] = "temp" /\ httpPc' \in {[httpPc EXCEPT ![c] = "request"], [httpPc EXCEPT ![c] = "return"]}
    BY DEF HttpCreateTemp, HttpAt
  <2>2. \A q \in HttpCallers : httpPc'[q] = "done" => q # c /\ httpPc[q] = "done"
    BY <2>1 DEF HttpInv, HttpRecords
  <2>3. \A q \in HttpCallers : q # c => httpTmp'[q] = httpTmp[q]
    BY DEF HttpInv, HttpRecords, HttpCreateTemp, HttpAt, HttpFail, HttpOk, RequestSame, BodySame, OuterSame
  <2>. QED  BY <2>2, <2>3 DEF HttpInv, TmpRemoved
<1>3. SlotsHeld'
  BY DEF HttpInv, HttpRecords, SlotsHeld, HttpCreateTemp, HttpAt, HttpFail, HttpOk, RequestSame, BodySame, OuterSame
<1>4. AuthAtOrigin' /\ AuthOnlyToOrigin'
  BY DEF HttpInv, HttpRecords, AuthAtOrigin, AuthOnlyToOrigin, HttpCreateTemp, HttpAt, HttpFail, HttpOk, RequestSame, BodySame, OuterSame
<1>5. ErrorReturns'
  BY DEF HttpInv, HttpRecords, ErrorReturns, HttpCreateTemp, HttpAt, HttpFail, HttpOk, RequestSame, BodySame, OuterSame
<1>6. BodyRead'
  BY DEF HttpInv, HttpRecords, BodyRead, HttpCreateTemp, HttpAt, HttpFail, HttpOk, RequestSame, BodySame, OuterSame
<1>7. Unpacking'
  BY DEF HttpInv, HttpRecords, Unpacking, DigestOK, HttpCreateTemp, HttpAt, HttpFail, HttpOk, RequestSame, BodySame, OuterSame
<1>8. FilesVerified'
  BY DEF HttpInv, HttpRecords, FilesVerified, HttpCreateTemp, HttpAt, HttpFail, HttpOk, RequestSame, BodySame, OuterSame
<1>9. Reported'
  BY DEF HttpInv, HttpRecords, Reported, HttpCreateTemp, HttpAt, HttpFail, HttpOk, RequestSame, BodySame, OuterSame
<1>10. Counted'
  BY CountedKept DEF HttpInv, HttpRecords, HttpCreateTemp, HttpAt, HttpFail, HttpOk, RequestSame, BodySame, OuterSame
<1>. QED  BY <1>1, <1>2, <1>3, <1>4, <1>5, <1>6, <1>7, <1>8, <1>9, <1>10 DEF HttpInv

LEMMA RequestHolds ==
    ASSUME HttpInv, NEW c \in HttpCallers, HttpRequest(c)
    PROVE  HttpInv'
<1>1. HttpRecords'
  <2>1. httpPc' \in [HttpCallers -> Places] /\ httpErr' \in [HttpCallers -> BOOLEAN]
    BY DEF HttpInv, HttpRecords, Places, HttpRequest, HttpAt, HttpFail, HttpOk, RequestSame, BodySame, OuterSame
  <2>2. httpHost' \in [HttpCallers -> HttpHosts] /\ httpHops' \in [HttpCallers -> 0..MaxHops]
    BY ConstantFacts DEF HttpInv, HttpRecords, HttpRequest, HttpAt, HttpFail, HttpOk, RequestSame, BodySame, OuterSame
  <2>3. httpAuth' \in [HttpCallers -> BOOLEAN]
    BY DescFacts DEF HttpInv, HttpRecords, HasSecret, HttpRequest, HttpAt, HttpFail, HttpOk, RequestSame, BodySame, OuterSame
  <2>. QED  BY <2>1, <2>2, <2>3 DEF HttpInv, HttpRecords, HttpRequest, HttpAt, HttpFail, HttpOk, RequestSame, BodySame, OuterSame
<1>2. TmpRemoved'
  BY DEF HttpInv, HttpRecords, TmpRemoved, HttpRequest, HttpAt, HttpFail, HttpOk, RequestSame, BodySame, OuterSame
<1>3. SlotsHeld'
  BY DEF HttpInv, HttpRecords, SlotsHeld, HttpRequest, HttpAt, HttpFail, HttpOk, RequestSame, BodySame, OuterSame
<1>4. AuthAtOrigin' /\ AuthOnlyToOrigin'
  BY DEF HttpInv, HttpRecords, AuthAtOrigin, AuthOnlyToOrigin, HttpRequest, HttpAt, HttpFail, HttpOk, RequestSame, BodySame, OuterSame
<1>5. ErrorReturns'
  BY DEF HttpInv, HttpRecords, ErrorReturns, HttpRequest, HttpAt, HttpFail, HttpOk, RequestSame, BodySame, OuterSame
<1>6. BodyRead'
  BY DEF HttpInv, HttpRecords, BodyRead, HttpRequest, HttpAt, HttpFail, HttpOk, RequestSame, BodySame, OuterSame
<1>7. Unpacking'
  BY DEF HttpInv, HttpRecords, Unpacking, DigestOK, HttpRequest, HttpAt, HttpFail, HttpOk, RequestSame, BodySame, OuterSame
<1>8. FilesVerified'
  BY DEF HttpInv, HttpRecords, FilesVerified, HttpRequest, HttpAt, HttpFail, HttpOk, RequestSame, BodySame, OuterSame
<1>9. Reported'
  BY DEF HttpInv, HttpRecords, Reported, HttpRequest, HttpAt, HttpFail, HttpOk, RequestSame, BodySame, OuterSame
<1>10. Counted'
  BY CountedKept DEF HttpInv, HttpRecords, HttpRequest, HttpAt, HttpFail, HttpOk, RequestSame, BodySame, OuterSame
<1>. QED  BY <1>1, <1>2, <1>3, <1>4, <1>5, <1>6, <1>7, <1>8, <1>9, <1>10 DEF HttpInv

LEMMA SendHolds ==
    ASSUME HttpInv, NEW c \in HttpCallers, HttpSend(c)
    PROVE  HttpInv'
<1>a. /\ httpPc[c] = "send"
      /\ httpSent' = [httpSent EXCEPT ![c] = IF httpAuth[c] THEN @ \cup {httpHost[c]} ELSE @]
      /\ UNCHANGED <<httpDesc, httpLink, httpCtx, httpOut, httpMetrics, httpSlots, httpTmp, httpDone, httpDst>>
  BY DEF HttpSend, OuterSame
<1>b. \/ /\ httpPc' = [httpPc EXCEPT ![c] = "read"] /\ httpErr' = httpErr
         /\ \E b \in HttpBodies : httpBody' = [httpBody EXCEPT ![c] = b]
         /\ httpGot' = [httpGot EXCEPT ![c] = 0] /\ UNCHANGED <<httpHost, httpHops, httpAuth>>
      \/ /\ httpPc' = [httpPc EXCEPT ![c] = "return"] /\ httpErr' = [httpErr EXCEPT ![c] = TRUE]
         /\ UNCHANGED <<httpHost, httpHops, httpAuth, httpBody, httpGot>>
      \/ /\ httpHops[c] + 1 < MaxHops /\ httpHops' = [httpHops EXCEPT ![c] = @ + 1]
         /\ \E host \in HttpHosts : /\ httpHost' = [httpHost EXCEPT ![c] = host]
                                    /\ httpAuth' = [httpAuth EXCEPT ![c] = AuthAfterRedirect(c, host)]
         /\ UNCHANGED <<httpPc, httpErr, httpBody, httpGot>>
  BY DEF HttpSend, HttpAt, HttpFail, HttpOk, RedirectAllowed
<1>c. HttpRecords /\ AuthAtOrigin /\ AuthOnlyToOrigin /\ ErrorReturns /\ BodyRead
  BY DEF HttpInv
<1>d. \A host \in HttpHosts : AuthAfterRedirect(c, host) \in BOOLEAN /\ (AuthAfterRedirect(c, host) => host = Origin)
  BY <1>c, DescFacts DEF AuthAfterRedirect
<1>1. HttpRecords'
  <2>1. httpPc' \in [HttpCallers -> Places] /\ httpErr' \in [HttpCallers -> BOOLEAN]
    <3>1. httpPc \in [HttpCallers -> Places] /\ httpErr \in [HttpCallers -> BOOLEAN]
      BY <1>c DEF HttpRecords
    <3>2. httpPc' \in {httpPc, [httpPc EXCEPT ![c] = "read"], [httpPc EXCEPT ![c] = "return"]}
      BY <1>b
    <3>3. httpErr' \in {httpErr, [httpErr EXCEPT ![c] = TRUE]}
      BY <1>b
    <3>. QED  BY <3>1, <3>2, <3>3 DEF Places
  <2>2. httpSent' \in [HttpCallers -> SUBSET HttpHosts]
    BY <1>a, <1>c DEF HttpRecords
  <2>3. httpHost' \in [HttpCallers -> HttpHosts]
    BY <1>b, <1>c DEF HttpRecords
  <2>4. httpHops' \in [HttpCallers -> 0..MaxHops]
    <3>1. httpHops[c] + 1 < MaxHops => httpHops[c] + 1 \in 0..MaxHops
      BY <1>c, ConstantFacts DEF HttpRecords
    <3>. QED  BY <1>b, <1>c, <3>1 DEF HttpRecords
  <2>5. httpAuth' \in [HttpCallers -> BOOLEAN]
    BY <1>b, <1>c, <1>d DEF HttpRecords
  <2>6. httpBody' \in [HttpCallers -> HttpBodies \cup {NoBody}]
    BY <1>b, <1>c DEF HttpRecords
  <2>7. httpGot' \in [HttpCallers -> 0..MaxBodyChunks]
    <3>1. 0 \in 0..MaxBodyChunks
      BY ConstantFacts
    <3>. QED  BY <1>b, <1>c, <3>1 DEF HttpRecords
  <2>. QED  BY <1>a, <1>c, <2>1, <2>2, <2>3, <2>4, <2>5, <2>6, <2>7 DEF HttpRecords
<1>2. TmpRemoved'
  BY DEF HttpInv, HttpRecords, TmpRemoved, HttpSend, HttpAt, HttpFail, HttpOk, RequestSame, BodySame, OuterSame
<1>3. SlotsHeld'
  BY DEF HttpInv, HttpRecords, SlotsHeld, HttpSend, HttpAt, HttpFail, HttpOk, RequestSame, BodySame, OuterSame
<1>4. AuthAtOrigin' /\ AuthOnlyToOrigin'
  <2>1. AuthAtOrigin'
    <3>1. CASE UNCHANGED <<httpHost, httpAuth>>
      BY <1>c, <3>1 DEF AuthAtOrigin
    <3>2. ASSUME NEW host \in HttpHosts, httpHost' = [httpHost EXCEPT ![c] = host],
                 httpAuth' = [httpAuth EXCEPT ![c] = AuthAfterRedirect(c, host)]
          PROVE  AuthAtOrigin'
      BY <1>c, <1>d, <3>2 DEF AuthAtOrigin, HttpRecords
    <3>. QED  BY <1>b, <3>1, <3>2
  <2>2. AuthOnlyToOrigin'
    <3>1. httpAuth[c] => httpHost[c] = Origin
      BY <1>c DEF AuthAtOrigin
    <3>. QED  BY <1>a, <1>c, <3>1 DEF AuthOnlyToOrigin, HttpRecords
  <2>. QED  BY <2>1, <2>2
<1>5. ErrorReturns'
  BY DEF HttpInv, HttpRecords, ErrorReturns, HttpSend, HttpAt, HttpFail, HttpOk, RequestSame, BodySame, OuterSame
<1>6. BodyRead'
  <2>1. CASE httpPc' = [httpPc EXCEPT ![c] = "read"]
    <3>1. PICK b \in HttpBodies : httpBody' = [httpBody EXCEPT ![c] = b] /\ httpGot' = [httpGot EXCEPT ![c] = 0]
      BY <1>a, <1>b, <1>c, <2>1 DEF HttpRecords
    <3>2. 0 <= HttpSize[b]
      BY ConstantFacts
    <3>. QED  BY <1>c, <2>1, <3>1, <3>2 DEF HttpRecords, BodyRead
  <2>2. CASE httpPc' = [httpPc EXCEPT ![c] = "return"] \/ UNCHANGED httpPc
    <3>1. UNCHANGED <<httpBody, httpGot>>
      BY <1>a, <1>b, <1>c, <2>2 DEF HttpRecords
    <3>. QED  BY <1>c, <2>2, <3>1 DEF HttpRecords, BodyRead
  <2>. QED  BY <1>b, <2>1, <2>2
<1>7. Unpacking'
  BY DEF HttpInv, HttpRecords, Unpacking, DigestOK, HttpSend, HttpAt, HttpFail, HttpOk, RequestSame, BodySame, OuterSame
<1>8. FilesVerified'
  BY DEF HttpInv, HttpRecords, FilesVerified, HttpSend, HttpAt, HttpFail, HttpOk, RequestSame, BodySame, OuterSame
<1>9. Reported'
  BY DEF HttpInv, HttpRecords, Reported, HttpSend, HttpAt, HttpFail, HttpOk, RequestSame, BodySame, OuterSame
<1>10. Counted'
  BY CountedKept DEF HttpInv, HttpRecords, HttpSend, HttpAt, HttpFail, HttpOk, RequestSame, BodySame, OuterSame
<1>. QED  BY <1>1, <1>2, <1>3, <1>4, <1>5, <1>6, <1>7, <1>8, <1>9, <1>10 DEF HttpInv

LEMMA ReadHolds ==
    ASSUME HttpInv, NEW c \in HttpCallers, HttpRead(c)
    PROVE  HttpInv'
<1>a. /\ httpPc[c] = "read"
      /\ UNCHANGED <<httpDesc, httpLink, httpCtx, httpOut, httpMetrics, httpSlots, httpTmp, httpHost, httpHops,
                     httpAuth, httpSent, httpBody, httpDone, httpDst>>
  BY DEF HttpRead, OuterSame, RequestSame
<1>b. \/ /\ httpGot[c] < MaxBodyChunks /\ HttpSize[httpBody[c]] - httpGot[c] > 0
         /\ httpGot' = [httpGot EXCEPT ![c] = @ + 1] /\ httpErr' = httpErr
         /\ \/ UNCHANGED httpPc
            \/ HttpSize[httpBody[c]] - httpGot[c] = 1 /\ httpPc' = [httpPc EXCEPT ![c] = "verify"]
      \/ /\ HttpSize[httpBody[c]] - httpGot[c] = 0 /\ httpPc' = [httpPc EXCEPT ![c] = "verify"]
         /\ UNCHANGED <<httpErr, httpGot>>
      \/ httpPc' = [httpPc EXCEPT ![c] = "return"] /\ httpErr' = [httpErr EXCEPT ![c] = TRUE] /\ UNCHANGED httpGot
  BY DEF HttpRead, MayRead, HttpAt, HttpFail, HttpOk
<1>c. HttpRecords /\ BodyRead
  BY DEF HttpInv
<1>d. /\ httpPc \in [HttpCallers -> Places] /\ httpErr \in [HttpCallers -> BOOLEAN]
      /\ httpGot \in [HttpCallers -> 0..MaxBodyChunks]
  BY <1>c DEF HttpRecords
<1>e. /\ httpBody[c] \in HttpBodies /\ httpGot[c] \in Nat /\ httpGot[c] <= HttpSize[httpBody[c]]
      /\ HttpSize[httpBody[c]] \in Nat
  BY <1>a, <1>c, <1>d, ConstantFacts DEF BodyRead
<1>1. HttpRecords'
  <2>1. httpPc' \in {httpPc, [httpPc EXCEPT ![c] = "verify"], [httpPc EXCEPT ![c] = "return"]}
    BY <1>b
  <2>2. httpErr' \in {httpErr, [httpErr EXCEPT ![c] = TRUE]}
    BY <1>b
  <2>3. httpPc' \in [HttpCallers -> Places] /\ httpErr' \in [HttpCallers -> BOOLEAN]
    BY <1>d, <2>1, <2>2 DEF Places
  <2>4. httpGot' \in [HttpCallers -> 0..MaxBodyChunks]
    <3>1. httpGot[c] < MaxBodyChunks => httpGot[c] + 1 \in 0..MaxBodyChunks
      BY <1>e, ConstantFacts
    <3>2. httpGot' = httpGot \/ (httpGot[c] < MaxBodyChunks /\ httpGot' = [httpGot EXCEPT ![c] = @ + 1])
      BY <1>b
    <3>. QED  BY <1>d, <3>1, <3>2
  <2>. QED  BY <1>a, <1>c, <2>3, <2>4 DEF HttpRecords
<1>2. TmpRemoved'
  BY DEF HttpInv, HttpRecords, TmpRemoved, HttpRead, HttpAt, HttpFail, HttpOk, RequestSame, BodySame, OuterSame
<1>3. SlotsHeld'
  BY DEF HttpInv, HttpRecords, SlotsHeld, HttpRead, HttpAt, HttpFail, HttpOk, RequestSame, BodySame, OuterSame
<1>4. AuthAtOrigin' /\ AuthOnlyToOrigin'
  BY DEF HttpInv, HttpRecords, AuthAtOrigin, AuthOnlyToOrigin, HttpRead, HttpAt, HttpFail, HttpOk, RequestSame, BodySame, OuterSame
<1>5. ErrorReturns'
  BY DEF HttpInv, HttpRecords, ErrorReturns, HttpRead, HttpAt, HttpFail, HttpOk, RequestSame, BodySame, OuterSame
<1>6. BodyRead'
  <2>1. \A q \in HttpCallers : q # c => httpPc'[q] = httpPc[q] /\ httpGot'[q] = httpGot[q]
    BY <1>b, <1>d
  <2>2. httpPc'[c] = "read" => httpGot'[c] <= HttpSize[httpBody[c]]
    BY <1>a, <1>b, <1>d, <1>e
  <2>3. httpPc'[c] = "verify" => httpGot'[c] = HttpSize[httpBody[c]]
    BY <1>a, <1>b, <1>d, <1>e
  <2>. QED  BY <1>a, <1>c, <1>e, <2>1, <2>2, <2>3 DEF BodyRead
<1>7. Unpacking'
  BY DEF HttpInv, HttpRecords, Unpacking, DigestOK, HttpRead, HttpAt, HttpFail, HttpOk, RequestSame, BodySame, OuterSame
<1>8. FilesVerified'
  BY DEF HttpInv, HttpRecords, FilesVerified, HttpRead, HttpAt, HttpFail, HttpOk, RequestSame, BodySame, OuterSame
<1>9. Reported'
  BY DEF HttpInv, HttpRecords, Reported, HttpRead, HttpAt, HttpFail, HttpOk, RequestSame, BodySame, OuterSame
<1>10. Counted'
  BY CountedKept DEF HttpInv, HttpRecords, HttpRead, HttpAt, HttpFail, HttpOk, RequestSame, BodySame, OuterSame
<1>. QED  BY <1>1, <1>2, <1>3, <1>4, <1>5, <1>6, <1>7, <1>8, <1>9, <1>10 DEF HttpInv

LEMMA VerifyHolds ==
    ASSUME HttpInv, NEW c \in HttpCallers, HttpVerify(c)
    PROVE  HttpInv'
<1>a. /\ httpPc[c] = "verify" /\ httpDone' = [httpDone EXCEPT ![c] = 0]
      /\ UNCHANGED <<httpDesc, httpBody, httpGot, httpDst>>
  BY DEF HttpVerify, HttpAt, OuterSame
<1>b. \/ /\ DigestOK(c) /\ httpErr' = httpErr
         /\ httpPc' = [httpPc EXCEPT ![c] = IF httpDesc[c].mounts THEN "unpack" ELSE "return"]
      \/ httpErr' = [httpErr EXCEPT ![c] = TRUE] /\ httpPc' = [httpPc EXCEPT ![c] = "return"]
  BY DEF HttpVerify, HttpAt, HttpFail, HttpOk
<1>c. HttpRecords /\ BodyRead /\ Unpacking /\ ErrorReturns
  BY DEF HttpInv
<1>1. HttpRecords'
  <2>1. httpPc' \in [HttpCallers -> Places] /\ httpErr' \in [HttpCallers -> BOOLEAN]
    BY DEF HttpInv, HttpRecords, Places, HttpVerify, HttpAt, HttpFail, HttpOk, RequestSame, BodySame, OuterSame
  <2>2. httpDone' \in [HttpCallers -> Nat]
    BY DEF HttpInv, HttpRecords, HttpVerify, HttpAt, HttpFail, HttpOk, RequestSame, BodySame, OuterSame
  <2>. QED  BY <2>1, <2>2 DEF HttpInv, HttpRecords, HttpVerify, HttpAt, HttpFail, HttpOk, RequestSame, BodySame, OuterSame
<1>2. TmpRemoved'
  BY DEF HttpInv, HttpRecords, TmpRemoved, HttpVerify, HttpAt, HttpFail, HttpOk, RequestSame, BodySame, OuterSame
<1>3. SlotsHeld'
  BY DEF HttpInv, HttpRecords, SlotsHeld, HttpVerify, HttpAt, HttpFail, HttpOk, RequestSame, BodySame, OuterSame
<1>4. AuthAtOrigin' /\ AuthOnlyToOrigin'
  BY DEF HttpInv, HttpRecords, AuthAtOrigin, AuthOnlyToOrigin, HttpVerify, HttpAt, HttpFail, HttpOk, RequestSame, BodySame, OuterSame
<1>5. ErrorReturns'
  BY DEF HttpInv, HttpRecords, ErrorReturns, HttpVerify, HttpAt, HttpFail, HttpOk, RequestSame, BodySame, OuterSame
<1>6. BodyRead'
  BY DEF HttpInv, HttpRecords, BodyRead, HttpVerify, HttpAt, HttpFail, HttpOk, RequestSame, BodySame, OuterSame
<1>7. Unpacking'
  <2>1. httpBody[c] \in HttpBodies /\ httpGot[c] = HttpSize[httpBody[c]] /\ httpGot[c] \in 0..MaxBodyChunks
    BY <1>a, <1>c DEF HttpRecords, BodyRead
  <2>2. HttpSize[httpBody[c]] <= MaxBodyChunks
    BY <2>1, ConstantFacts
  <2>3. /\ 0 <= Len(HttpEntries[httpBody[c]])
        /\ Unpacks(httpDesc[c], httpBody[c], 0, httpDst[c])
    BY <2>1, ConstantFacts DEF Unpacks, UpTo, Named
  <2>4. httpDone'[c] = 0 /\ \A q \in HttpCallers : q # c => httpDone'[q] = httpDone[q]
    BY <1>a, <1>c DEF HttpRecords
  <2>5. \A q \in HttpCallers : q # c => httpPc'[q] = httpPc[q] /\ httpErr'[q] = httpErr[q]
    BY <1>b, <1>c DEF HttpRecords
  <2>6. httpPc'[c] = "unpack" => DigestOK(c)
    BY <1>b, <1>c DEF HttpRecords
  <2>7. httpPc'[c] = "return" /\ ~httpErr'[c] => DigestOK(c) /\ ~httpDesc[c].mounts
    BY <1>a, <1>b, <1>c DEF HttpRecords
  <2>8. \A q \in HttpCallers : DigestOK(q)' = DigestOK(q)
    BY <1>a DEF DigestOK
  <2>9. ASSUME NEW q \in HttpCallers, q # c
        PROVE  /\ httpPc'[q] = "unpack" =>
                    /\ DigestOK(q)' /\ HttpSize[httpBody[q]] <= MaxBodyChunks
                    /\ httpDone'[q] <= Len(HttpEntries[httpBody[q]])
                    /\ Unpacks(httpDesc[q], httpBody[q], httpDone'[q], httpDst[q])
               /\ httpPc'[q] = "return" /\ ~httpErr'[q] =>
                    /\ httpBody[q] \in HttpBodies /\ DigestOK(q)'
                    /\ httpDesc[q].mounts => UnpacksAll(httpDesc[q], httpBody[q], httpDst[q])
    BY <1>c, <2>4, <2>5, <2>8, <2>9 DEF Unpacking
  <2>. QED  BY <1>a, <2>1, <2>2, <2>3, <2>4, <2>6, <2>7, <2>8, <2>9 DEF Unpacking
<1>8. FilesVerified'
  BY DEF HttpInv, HttpRecords, FilesVerified, HttpVerify, HttpAt, HttpFail, HttpOk, RequestSame, BodySame, OuterSame
<1>9. Reported'
  BY DEF HttpInv, HttpRecords, Reported, HttpVerify, HttpAt, HttpFail, HttpOk, RequestSame, BodySame, OuterSame
<1>10. Counted'
  BY CountedKept DEF HttpInv, HttpRecords, HttpVerify, HttpAt, HttpFail, HttpOk, RequestSame, BodySame, OuterSame
<1>. QED  BY <1>1, <1>2, <1>3, <1>4, <1>5, <1>6, <1>7, <1>8, <1>9, <1>10 DEF HttpInv

(* What an unpack leaves of a directory, whether it goes on, ends or fails. *)
LEMMA UnpackStep ==
    ASSUME HttpInv, NEW c \in HttpCallers, httpPc[c] = "unpack",
           UNCHANGED <<httpDesc, httpLink, httpCtx, httpOut, httpMetrics, httpSlots, httpTmp, httpHost, httpHops,
                       httpAuth, httpSent, httpBody, httpGot>>,
           NEW D \in SUBSET File, httpDst' = [httpDst EXCEPT ![c] = D],
           NEW m \in Nat, httpDone' = [httpDone EXCEPT ![c] = m],
           NEW pc \in {"unpack", "return"}, httpPc' = [httpPc EXCEPT ![c] = pc],
           NEW err \in BOOLEAN, httpErr' = [httpErr EXCEPT ![c] = err],
           \A x \in D : x.from = httpBody[c] \/ \E y \in httpDst[c] : x.from = y.from,
           Tidy(httpBody[c]) /\ Fits(httpBody[c], httpDst[c]) => Fits(httpBody[c], D),
           pc = "unpack" => m <= Len(HttpEntries[httpBody[c]]) /\ Unpacks(httpDesc[c], httpBody[c], m, D),
           pc = "return" /\ ~err => UnpacksAll(httpDesc[c], httpBody[c], D)
    PROVE  HttpRecords' /\ Unpacking' /\ FilesVerified' /\ Reported'
<1>1. HttpRecords /\ BodyRead /\ Unpacking /\ FilesVerified /\ Reported
  BY DEF HttpInv
<1>2. /\ httpBody[c] \in HttpBodies /\ DigestOK(c) /\ HttpSize[httpBody[c]] <= MaxBodyChunks
  BY <1>1 DEF BodyRead, Unpacking
<1>3. /\ httpPc \in [HttpCallers -> Places] /\ httpErr \in [HttpCallers -> BOOLEAN]
      /\ httpDone \in [HttpCallers -> Nat] /\ httpDst \in [HttpCallers -> SUBSET File]
  BY <1>1 DEF HttpRecords
<1>4. /\ httpPc'[c] = pc /\ httpErr'[c] = err /\ httpDone'[c] = m /\ httpDst'[c] = D
      /\ \A q \in HttpCallers : q # c =>
            httpPc'[q] = httpPc[q] /\ httpErr'[q] = httpErr[q] /\ httpDone'[q] = httpDone[q] /\ httpDst'[q] = httpDst[q]
  BY <1>3
<1>5. HttpRecords'
  <2>1. /\ httpPc' \in [HttpCallers -> Places] /\ httpErr' \in [HttpCallers -> BOOLEAN]
        /\ httpDone' \in [HttpCallers -> Nat] /\ httpDst' \in [HttpCallers -> SUBSET File]
    BY <1>3 DEF Places
  <2>. QED  BY <1>1, <2>1 DEF HttpRecords
<1>6. \A q \in HttpCallers : DigestOK(q)' = DigestOK(q)
  BY DEF DigestOK
<1>7. Unpacking'
  <2>1. ASSUME NEW q \in HttpCallers, q # c
        PROVE  /\ httpPc'[q] = "unpack" =>
                    /\ DigestOK(q)' /\ HttpSize[httpBody'[q]] <= MaxBodyChunks
                    /\ httpDone'[q] <= Len(HttpEntries[httpBody'[q]])
                    /\ Unpacks(httpDesc'[q], httpBody'[q], httpDone'[q], httpDst'[q])
               /\ httpPc'[q] = "return" /\ ~httpErr'[q] =>
                    /\ httpBody'[q] \in HttpBodies /\ DigestOK(q)'
                    /\ httpDesc'[q].mounts => UnpacksAll(httpDesc'[q], httpBody'[q], httpDst'[q])
    BY <1>1, <1>4, <1>6, <2>1 DEF Unpacking
  <2>2. /\ httpPc'[c] = "unpack" =>
             /\ DigestOK(c)' /\ HttpSize[httpBody'[c]] <= MaxBodyChunks
             /\ httpDone'[c] <= Len(HttpEntries[httpBody'[c]])
             /\ Unpacks(httpDesc'[c], httpBody'[c], httpDone'[c], httpDst'[c])
        /\ httpPc'[c] = "return" /\ ~httpErr'[c] =>
             /\ httpBody'[c] \in HttpBodies /\ DigestOK(c)'
             /\ httpDesc'[c].mounts => UnpacksAll(httpDesc'[c], httpBody'[c], httpDst'[c])
    BY <1>2, <1>4, <1>6
  <2>. QED  BY <2>1, <2>2 DEF Unpacking
<1>8. FilesVerified'
  <2>1. httpDesc[c].pinned \in {NoBody, httpBody[c]}
    BY <1>2 DEF DigestOK
  <2>2. \A x \in D : httpDesc[c].pinned \in {NoBody, x.from} /\ HttpSize[x.from] <= MaxBodyChunks
    BY <1>1, <1>2, <2>1 DEF FilesVerified
  <2>3. httpDesc[c].pinned # NoBody /\ Tidy(httpDesc[c].pinned) => Fits(httpDesc[c].pinned, D)
    BY <1>1, <2>1 DEF FilesVerified
  <2>. QED  BY <1>1, <1>4, <2>2, <2>3 DEF FilesVerified
<1>9. Reported'
  <2> SUFFICES ASSUME NEW q \in HttpCallers
               PROVE  /\ httpPc'[q] = "done" <=> httpOut'[q] # "none"
                      /\ httpPc'[q] = "done" /\ httpOut'[q] \in HttpBodies =>
                            /\ httpDesc'[q].pinned \in {NoBody, httpOut'[q]}
                            /\ httpDesc'[q].mounts => UnpacksAll(httpDesc'[q], httpOut'[q], httpDst'[q])
    BY DEF Reported
  <2>1. /\ httpPc[q] = "done" <=> httpOut[q] # "none"
        /\ httpPc[q] = "done" /\ httpOut[q] \in HttpBodies =>
              /\ httpDesc[q].pinned \in {NoBody, httpOut[q]}
              /\ httpDesc[q].mounts => UnpacksAll(httpDesc[q], httpOut[q], httpDst[q])
    BY <1>1 DEF Reported
  <2>2. CASE q = c
    BY <1>4, <2>1, <2>2
  <2>3. CASE q # c
    BY <1>4, <2>1, <2>3
  <2>. QED  BY <2>2, <2>3
<1>. QED  BY <1>5, <1>7, <1>8, <1>9

LEMMA UnpackHolds ==
    ASSUME HttpInv, NEW c \in HttpCallers, HttpUnpack(c)
    PROVE  HttpInv'
<1>a. /\ httpPc[c] = "unpack"
      /\ UNCHANGED <<httpDesc, httpLink, httpCtx, httpOut, httpMetrics, httpSlots, httpTmp, httpHost, httpHops,
                     httpAuth, httpSent, httpBody, httpGot>>
  BY DEF HttpUnpack, OuterSame, RequestSame
<1> DEFINE b == httpBody[c]
           n == httpDone[c]
           e == HttpEntries[b][n + 1]
<1>b. \/ /\ n + 1 <= Len(HttpEntries[b]) /\ httpDone' = [httpDone EXCEPT ![c] = n + 1]
         /\ \E dst \in Written(httpDst[c], e, b) : httpDst' = [httpDst EXCEPT ![c] = dst]
         /\ UNCHANGED <<httpPc, httpErr>>
      \/ /\ n + 1 = Len(HttpEntries[b]) + 1 /\ httpPc' = [httpPc EXCEPT ![c] = "return"]
         /\ UNCHANGED <<httpErr, httpDone, httpDst>>
      \/ /\ httpPc' = [httpPc EXCEPT ![c] = "return"] /\ httpErr' = [httpErr EXCEPT ![c] = TRUE]
         /\ UNCHANGED <<httpDone, httpDst>>
      \/ /\ n + 1 <= Len(HttpEntries[b])
         /\ httpPc' = [httpPc EXCEPT ![c] = "return"] /\ httpErr' = [httpErr EXCEPT ![c] = TRUE]
         /\ \E dst \in Broken(httpDst[c], e, b) : httpDst' = [httpDst EXCEPT ![c] = dst]
         /\ UNCHANGED httpDone
  BY DEF HttpUnpack, HttpAt, HttpFail, HttpOk
<1>c. HttpRecords /\ BodyRead /\ Unpacking /\ FilesVerified /\ ErrorReturns
  BY DEF HttpInv
<1>d. /\ b \in HttpBodies /\ n \in Nat /\ httpDst[c] \in SUBSET File /\ DigestOK(c)
      /\ n <= Len(HttpEntries[b]) /\ Unpacks(httpDesc[c], b, n, httpDst[c])
  BY <1>a, <1>c DEF HttpRecords, BodyRead, Unpacking
<1>e. /\ httpPc \in [HttpCallers -> Places] /\ httpErr \in [HttpCallers -> BOOLEAN]
      /\ httpDone \in [HttpCallers -> Nat] /\ httpDst \in [HttpCallers -> SUBSET File]
  BY <1>c DEF HttpRecords
<1>f. /\ httpPc = [httpPc EXCEPT ![c] = "unpack"] /\ httpErr = [httpErr EXCEPT ![c] = FALSE]
      /\ httpDone = [httpDone EXCEPT ![c] = n] /\ httpDst = [httpDst EXCEPT ![c] = httpDst[c]]
  BY <1>a, <1>c, <1>e DEF ErrorReturns
<1>g. Tidy(b) /\ httpDesc[c].pinned # NoBody => Fits(b, httpDst[c])
  BY <1>c, <1>d DEF FilesVerified, DigestOK
<1>h. HttpRecords' /\ Unpacking' /\ FilesVerified' /\ Reported'
  <2> HIDE DEF n, e
  <2>1. ASSUME n + 1 <= Len(HttpEntries[b]), httpDone' = [httpDone EXCEPT ![c] = n + 1], UNCHANGED <<httpPc, httpErr>>,
               NEW dst \in Written(httpDst[c], e, b), httpDst' = [httpDst EXCEPT ![c] = dst]
        PROVE  HttpRecords' /\ Unpacking' /\ FilesVerified' /\ Reported'
    <3>1. /\ dst \in SUBSET File /\ \A x \in dst : x.from = b \/ \E y \in httpDst[c] : x.from = y.from
          /\ Tidy(b) /\ Fits(b, httpDst[c]) => Fits(b, dst)
          /\ Tidy(b) /\ Fits(b, httpDst[c]) /\ UpTo(b, n, httpDst[c]) => UpTo(b, n + 1, dst)
      BY <1>d, <2>1, WrittenKeeps DEF e
    <3>2. Unpacks(httpDesc[c], b, n + 1, dst)
      BY <1>d, <1>g, <3>1 DEF Unpacks
    <3>3. httpPc' = [httpPc EXCEPT ![c] = "unpack"] /\ httpErr' = [httpErr EXCEPT ![c] = FALSE] /\ n + 1 \in Nat
      BY <1>d, <1>f, <2>1
    <3>. QED  BY <1>a, <2>1, <3>1, <3>2, <3>3, UnpackStep
  <2>2. ASSUME n + 1 = Len(HttpEntries[b]) + 1, httpPc' = [httpPc EXCEPT ![c] = "return"], UNCHANGED <<httpErr, httpDone, httpDst>>
        PROVE  HttpRecords' /\ Unpacking' /\ FilesVerified' /\ Reported'
    <3>1. n = Len(HttpEntries[b])
      BY <1>d, <2>2, ConstantFacts
    <3>2. UnpacksAll(httpDesc[c], b, httpDst[c])
      BY <1>d, <3>1 DEF UnpacksAll
    <3>3. /\ httpErr' = [httpErr EXCEPT ![c] = FALSE] /\ httpDone' = [httpDone EXCEPT ![c] = n]
          /\ httpDst' = [httpDst EXCEPT ![c] = httpDst[c]]
      BY <1>f, <2>2
    <3>. QED  BY <1>a, <1>d, <2>2, <3>2, <3>3, UnpackStep
  <2>3. ASSUME httpPc' = [httpPc EXCEPT ![c] = "return"], httpErr' = [httpErr EXCEPT ![c] = TRUE], UNCHANGED <<httpDone, httpDst>>
        PROVE  HttpRecords' /\ Unpacking' /\ FilesVerified' /\ Reported'
    <3>1. httpDone' = [httpDone EXCEPT ![c] = n] /\ httpDst' = [httpDst EXCEPT ![c] = httpDst[c]]
      BY <1>f, <2>3
    <3>. QED  BY <1>a, <1>d, <2>3, <3>1, UnpackStep
  <2>4. ASSUME n + 1 <= Len(HttpEntries[b]), httpPc' = [httpPc EXCEPT ![c] = "return"], httpErr' = [httpErr EXCEPT ![c] = TRUE],
               UNCHANGED httpDone, NEW dst \in Broken(httpDst[c], e, b), httpDst' = [httpDst EXCEPT ![c] = dst]
        PROVE  HttpRecords' /\ Unpacking' /\ FilesVerified' /\ Reported'
    <3>1. /\ dst \in SUBSET File /\ \A x \in dst : x.from = b \/ \E y \in httpDst[c] : x.from = y.from
          /\ Tidy(b) /\ Fits(b, httpDst[c]) => Fits(b, dst)
      BY <1>d, <2>4, BrokenKeeps DEF e
    <3>2. httpDone' = [httpDone EXCEPT ![c] = n]
      BY <1>f, <2>4
    <3>3. /\ httpPc' = [httpPc EXCEPT ![c] = "return"] /\ httpErr' = [httpErr EXCEPT ![c] = TRUE]
          /\ httpDst' = [httpDst EXCEPT ![c] = dst]
      BY <2>4
    <3> HIDE DEF b
    <3>4. "return" \in {"unpack", "return"} /\ TRUE \in BOOLEAN /\ "return" # "unpack"
      OBVIOUS
    <3> USE DEF b
    <3>. QED  BY <1>a, <1>d, <3>1, <3>2, <3>3, <3>4, UnpackStep
  <2>. QED  BY <1>b, <2>1, <2>2, <2>3, <2>4
<1>1. HttpRecords'
  BY <1>h
<1>2. TmpRemoved'
  BY DEF HttpInv, HttpRecords, TmpRemoved, HttpUnpack, HttpAt, HttpFail, HttpOk, RequestSame, BodySame, OuterSame
<1>3. SlotsHeld'
  BY DEF HttpInv, HttpRecords, SlotsHeld, HttpUnpack, HttpAt, HttpFail, HttpOk, RequestSame, BodySame, OuterSame
<1>4. AuthAtOrigin' /\ AuthOnlyToOrigin'
  BY DEF HttpInv, HttpRecords, AuthAtOrigin, AuthOnlyToOrigin, HttpUnpack, HttpAt, HttpFail, HttpOk, RequestSame, BodySame, OuterSame
<1>5. ErrorReturns'
  BY DEF HttpInv, HttpRecords, ErrorReturns, HttpUnpack, HttpAt, HttpFail, HttpOk, RequestSame, BodySame, OuterSame
<1>6. BodyRead'
  BY DEF HttpInv, HttpRecords, BodyRead, HttpUnpack, HttpAt, HttpFail, HttpOk, RequestSame, BodySame, OuterSame
<1>10. Counted'
  BY CountedKept DEF HttpInv, HttpRecords, HttpUnpack, HttpAt, HttpFail, HttpOk, RequestSame, BodySame, OuterSame
<1>. QED  BY <1>1, <1>2, <1>3, <1>4, <1>5, <1>6, <1>h, <1>10 DEF HttpInv

LEMMA ReturnHolds ==
    ASSUME HttpInv, NEW c \in HttpCallers, HttpReturn(c)
    PROVE  HttpInv'
<1>a. /\ httpPc[c] = "return" /\ httpSlots' = [httpSlots EXCEPT ![httpLink[c]] = @ \ {c}]
      /\ httpTmp' = [httpTmp EXCEPT ![c] = FALSE] /\ httpErr' = [httpErr EXCEPT ![c] = FALSE]
      /\ UNCHANGED <<httpDesc, httpCtx, httpHost, httpHops, httpAuth, httpSent, httpBody, httpGot, httpDone, httpDst>>
  BY DEF HttpReturn, HttpAt, RequestSame, BodySame
<1>b. \/ /\ httpErr[c] /\ httpLink[c] < HttpLinks /\ httpPc' = [httpPc EXCEPT ![c] = "idle"]
         /\ httpLink' = [httpLink EXCEPT ![c] = @ + 1] /\ UNCHANGED <<httpOut, httpMetrics>>
      \/ /\ httpPc' = [httpPc EXCEPT ![c] = "done"] /\ UNCHANGED httpLink
         /\ httpOut' = [httpOut EXCEPT ![c] = IF httpErr[c] THEN "error" ELSE httpBody[c]]
         /\ httpMetrics' = [applied |-> httpMetrics.applied + 1,
                            errors |-> httpMetrics.errors + IF httpErr[c] THEN 1 ELSE 0]
  BY DEF HttpReturn, HttpAt, TryNext
<1>c. HttpRecords /\ Unpacking /\ SlotsHeld /\ Reported /\ Counted
  BY DEF HttpInv
<1>d. /\ httpPc \in [HttpCallers -> Places] /\ httpErr \in [HttpCallers -> BOOLEAN]
      /\ httpLink \in [HttpCallers -> 1..HttpLinks] /\ httpSlots \in [1..HttpLinks -> SUBSET HttpCallers]
      /\ httpTmp \in [HttpCallers -> BOOLEAN] /\ httpOut \in [HttpCallers -> Outcomes]
  BY <1>c DEF HttpRecords
<1>e. ~httpErr[c] =>
        /\ httpBody[c] \in HttpBodies /\ httpDesc[c].pinned \in {NoBody, httpBody[c]}
        /\ httpDesc[c].mounts => UnpacksAll(httpDesc[c], httpBody[c], httpDst[c])
  BY <1>a, <1>c DEF Unpacking, DigestOK
<1>f. \A q \in HttpCallers : q # c => httpPc'[q] = httpPc[q] /\ httpLink'[q] = httpLink[q] /\ httpOut'[q] = httpOut[q]
  BY <1>b, <1>d
<1>1. HttpRecords'
  <2>1. httpPc' \in [HttpCallers -> Places] /\ httpErr' \in [HttpCallers -> BOOLEAN] /\ httpTmp' \in [HttpCallers -> BOOLEAN]
    <3>1. httpPc' \in {[httpPc EXCEPT ![c] = "idle"], [httpPc EXCEPT ![c] = "done"]}
      BY <1>b
    <3>. QED  BY <1>a, <1>d, <3>1 DEF Places
  <2>2. httpLink' \in [HttpCallers -> 1..HttpLinks]
    <3>1. httpLink[c] < HttpLinks => httpLink[c] + 1 \in 1..HttpLinks
      BY <1>d, ConstantFacts
    <3>. QED  BY <1>b, <1>d, <3>1
  <2>3. httpSlots' \in [1..HttpLinks -> SUBSET HttpCallers]
    BY <1>a, <1>d
  <2>4. httpOut' \in [HttpCallers -> Outcomes]
    <3>1. (IF httpErr[c] THEN "error" ELSE httpBody[c]) \in Outcomes
      BY <1>e DEF Outcomes
    <3>. QED  BY <1>b, <1>d, <3>1
  <2>. QED  BY <1>a, <1>c, <2>1, <2>2, <2>3, <2>4 DEF HttpRecords
<1>2. TmpRemoved'
  <2>1. TmpRemoved
    BY DEF HttpInv
  <2>. QED  BY <1>a, <1>d, <1>f, <2>1 DEF TmpRemoved
<1>3. SlotsHeld'
  <2> SUFFICES ASSUME NEW i \in 1..HttpLinks
               PROVE  /\ IsFiniteSet(httpSlots'[i]) /\ Cardinality(httpSlots'[i]) <= MaxFetches
                      /\ \A q \in httpSlots'[i] : i = httpLink'[q] /\ httpPc'[q] \notin {"idle", "done"}
    BY DEF SlotsHeld
  <2>1. /\ IsFiniteSet(httpSlots[i]) /\ Cardinality(httpSlots[i]) <= MaxFetches /\ httpSlots[i] \subseteq HttpCallers
        /\ \A q \in httpSlots[i] : i = httpLink[q] /\ httpPc[q] \notin {"idle", "done"}
    BY <1>c, <1>d DEF SlotsHeld
  <2>2. httpSlots'[i] \subseteq httpSlots[i] /\ c \notin httpSlots'[i]
    BY <1>a, <1>d, <2>1
  <2>3. IsFiniteSet(httpSlots'[i]) /\ Cardinality(httpSlots'[i]) <= Cardinality(httpSlots[i])
    BY <2>1, <2>2, FS_Subset
  <2>4. Cardinality(httpSlots'[i]) <= MaxFetches
    <3>1. Cardinality(httpSlots'[i]) \in Nat /\ Cardinality(httpSlots[i]) \in Nat
      BY <2>1, <2>3, FS_CardinalityType
    <3> DEFINE m == Cardinality(httpSlots'[i])
               k == Cardinality(httpSlots[i])
    <3>2. m \in Nat /\ k \in Nat /\ MaxFetches \in Nat /\ m <= k /\ k <= MaxFetches
      BY <2>1, <2>3, <3>1, ConstantFacts
    <3> HIDE DEF m, k
    <3>3. m <= MaxFetches
      BY <3>2
    <3>. QED  BY <3>3 DEF m
  <2>. QED  BY <1>f, <2>1, <2>2, <2>3, <2>4
<1>4. AuthAtOrigin' /\ AuthOnlyToOrigin'
  BY DEF HttpInv, HttpRecords, AuthAtOrigin, AuthOnlyToOrigin, HttpReturn, HttpAt, HttpFail, HttpOk, RequestSame, BodySame, OuterSame
<1>5. ErrorReturns'
  BY DEF HttpInv, HttpRecords, ErrorReturns, HttpReturn, HttpAt, HttpFail, HttpOk, RequestSame, BodySame, OuterSame
<1>6. BodyRead'
  BY DEF HttpInv, HttpRecords, BodyRead, HttpReturn, HttpAt, HttpFail, HttpOk, RequestSame, BodySame, OuterSame
<1>7. Unpacking'
  BY DEF HttpInv, HttpRecords, Unpacking, DigestOK, HttpReturn, HttpAt, HttpFail, HttpOk, RequestSame, BodySame, OuterSame
<1>8. FilesVerified'
  BY DEF HttpInv, HttpRecords, FilesVerified, HttpReturn, HttpAt, HttpFail, HttpOk, RequestSame, BodySame, OuterSame
<1>9. Reported'
  <2>1. CASE httpPc' = [httpPc EXCEPT ![c] = "idle"]
    <3>1. UNCHANGED httpOut /\ httpPc'[c] = "idle" /\ httpPc[c] # "done"
      BY <1>a, <1>b, <1>d, <2>1
    <3>. QED  BY <1>a, <1>c, <1>f, <3>1 DEF Reported
  <2>2. CASE httpPc' = [httpPc EXCEPT ![c] = "done"]
    <3>1. httpPc'[c] = "done" /\ httpOut'[c] = IF httpErr[c] THEN "error" ELSE httpBody[c]
      BY <1>b, <1>d, <2>2
    <3>2. httpOut'[c] # "none"
      BY <1>e, <3>1, ConstantFacts
    <3>3. httpOut'[c] \in HttpBodies => ~httpErr[c] /\ httpOut'[c] = httpBody[c]
      BY <1>d, <3>1, ConstantFacts
    <3>. QED  BY <1>a, <1>c, <1>e, <1>f, <3>1, <3>2, <3>3 DEF Reported
  <2>. QED  BY <1>b, <2>1, <2>2
<1>10. Counted'
  <2>1. CASE httpPc' = [httpPc EXCEPT ![c] = "idle"]
    <3>1. UNCHANGED <<httpOut, httpMetrics>> /\ \A q \in HttpCallers : httpPc'[q] = "done" <=> httpPc[q] = "done"
      BY <1>a, <1>b, <1>d, <2>1
    <3>. QED  BY <1>c, <3>1, CountedKept
  <2>2. CASE httpPc' = [httpPc EXCEPT ![c] = "done"]
    <3>1. /\ httpPc'[c] = "done" /\ httpOut'[c] = (IF httpErr[c] THEN "error" ELSE httpBody[c])
          /\ httpMetrics' = [applied |-> httpMetrics.applied + 1,
                             errors |-> httpMetrics.errors + IF httpErr[c] THEN 1 ELSE 0]
      BY <1>b, <1>d, <2>2
    <3>2. c \notin Ended /\ Ended' = Ended \cup {c}
      BY <1>a, <1>f, <3>1 DEF Ended
    <3>3. httpOut[c] = "none"
      BY <1>a, <1>c DEF Reported
    <3>4. c \notin Failed /\ Failed' = IF httpErr[c] THEN Failed \cup {c} ELSE Failed
      BY <1>d, <1>e, <1>f, <3>1, <3>3, ConstantFacts DEF Failed
    <3>5. IsFiniteSet(Ended') /\ Cardinality(Ended') = Cardinality(Ended) + 1
      BY <1>c, <3>2, FS_AddElement DEF Counted
    <3>6. IsFiniteSet(Failed \cup {c}) /\ Cardinality(Failed \cup {c}) = Cardinality(Failed) + 1
      BY <1>c, <3>4, FS_AddElement DEF Counted
    <3>7. Cardinality(Failed) \in Nat
      BY <1>c, FS_CardinalityType DEF Counted
    <3>8. IsFiniteSet(Failed') /\ Cardinality(Failed') = Cardinality(Failed) + IF httpErr[c] THEN 1 ELSE 0
      <4>1. CASE httpErr[c]
        BY <3>4, <3>6, <4>1
      <4>2. CASE ~httpErr[c]
        <5>1. Failed' = Failed
          BY <3>4, <4>2
        <5> DEFINE k == Cardinality(Failed)
        <5>2. k + (IF httpErr[c] THEN 1 ELSE 0) = k
          <6>1. k \in Nat
            BY <3>7
          <6> HIDE DEF k
          <6>. QED  BY <4>2, <6>1
        <5>. QED  BY <1>c, <5>1, <5>2 DEF Counted
      <4>. QED  BY <4>1, <4>2
    <3>9. httpMetrics'.applied = httpMetrics.applied + 1 /\ httpMetrics'.errors = httpMetrics.errors + IF httpErr[c] THEN 1 ELSE 0
      BY <3>1
    <3>. QED  BY <1>c, <3>5, <3>8, <3>9 DEF Counted
  <2>. QED  BY <1>b, <2>1, <2>2
<1>. QED  BY <1>1, <1>2, <1>3, <1>4, <1>5, <1>6, <1>7, <1>8, <1>9, <1>10 DEF HttpInv

LEMMA CancelHolds ==
    ASSUME HttpInv, NEW c \in HttpCallers, HttpCancel(c)
    PROVE  HttpInv'
<1>1. HttpRecords'
  <2>1. httpPc' \in [HttpCallers -> Places] /\ httpErr' \in [HttpCallers -> BOOLEAN]
    BY DEF HttpInv, HttpRecords, Places, HttpCancel, HttpAt, HttpFail, HttpOk, RequestSame, BodySame, OuterSame
  <2>. QED  BY <2>1 DEF HttpInv, HttpRecords, HttpCancel, HttpAt, HttpFail, HttpOk, RequestSame, BodySame, OuterSame
<1>2. TmpRemoved'
  BY DEF HttpInv, HttpRecords, TmpRemoved, HttpCancel, HttpAt, HttpFail, HttpOk, RequestSame, BodySame, OuterSame
<1>3. SlotsHeld'
  BY DEF HttpInv, HttpRecords, SlotsHeld, HttpCancel, HttpAt, HttpFail, HttpOk, RequestSame, BodySame, OuterSame
<1>4. AuthAtOrigin' /\ AuthOnlyToOrigin'
  BY DEF HttpInv, HttpRecords, AuthAtOrigin, AuthOnlyToOrigin, HttpCancel, HttpAt, HttpFail, HttpOk, RequestSame, BodySame, OuterSame
<1>5. ErrorReturns'
  BY DEF HttpInv, HttpRecords, ErrorReturns, HttpCancel, HttpAt, HttpFail, HttpOk, RequestSame, BodySame, OuterSame
<1>6. BodyRead'
  BY DEF HttpInv, HttpRecords, BodyRead, HttpCancel, HttpAt, HttpFail, HttpOk, RequestSame, BodySame, OuterSame
<1>7. Unpacking'
  BY DEF HttpInv, HttpRecords, Unpacking, DigestOK, HttpCancel, HttpAt, HttpFail, HttpOk, RequestSame, BodySame, OuterSame
<1>8. FilesVerified'
  BY DEF HttpInv, HttpRecords, FilesVerified, HttpCancel, HttpAt, HttpFail, HttpOk, RequestSame, BodySame, OuterSame
<1>9. Reported'
  BY DEF HttpInv, HttpRecords, Reported, HttpCancel, HttpAt, HttpFail, HttpOk, RequestSame, BodySame, OuterSame
<1>10. Counted'
  BY CountedKept DEF HttpInv, HttpRecords, HttpCancel, HttpAt, HttpFail, HttpOk, RequestSame, BodySame, OuterSame
<1>. QED  BY <1>1, <1>2, <1>3, <1>4, <1>5, <1>6, <1>7, <1>8, <1>9, <1>10 DEF HttpInv

-----------------------------------------------------------------------------
LEMMA HttpNextHolds == HttpInv /\ [HttpNext]_httpVars => HttpInv'
<1> SUFFICES ASSUME HttpInv, [HttpNext]_httpVars PROVE HttpInv'
  OBVIOUS
<1>1. ASSUME NEW c \in HttpCallers, HttpStep(c) PROVE HttpInv'
  <2>1. HttpApply(c) \/ HttpAcquire(c) \/ HttpCreateTemp(c) \/ HttpRequest(c) \/ HttpSend(c) => HttpInv'
    BY ApplyHolds, AcquireHolds, CreateTempHolds, RequestHolds, SendHolds
  <2>2. HttpRead(c) \/ HttpVerify(c) \/ HttpUnpack(c) \/ HttpReturn(c) => HttpInv'
    BY ReadHolds, VerifyHolds, UnpackHolds, ReturnHolds
  <2>. QED  BY <1>1, <2>1, <2>2 DEF HttpStep
<1>2. ASSUME NEW c \in HttpCallers, HttpCancel(c) PROVE HttpInv'
  BY <1>2, CancelHolds
<1>3. CASE UNCHANGED httpVars
  <2>1. HttpRecords' /\ SlotsHeld' /\ TmpRemoved' /\ AuthAtOrigin' /\ AuthOnlyToOrigin' /\ ErrorReturns'
    BY <1>3 DEF httpVars, HttpInv, HttpRecords, SlotsHeld, TmpRemoved, AuthAtOrigin, AuthOnlyToOrigin, ErrorReturns
  <2>2. BodyRead' /\ Unpacking' /\ FilesVerified' /\ Reported'
    BY <1>3 DEF httpVars, HttpInv, BodyRead, Unpacking, FilesVerified, Reported, DigestOK
  <2>3. Counted'
    BY <1>3, CountedKept DEF httpVars, HttpInv
  <2>. QED  BY <2>1, <2>2, <2>3 DEF HttpInv
<1>. QED  BY <1>1, <1>2, <1>3 DEF HttpNext

LEMMA InvIsSound == HttpInv => HttpSound
<1> SUFFICES ASSUME HttpInv PROVE HttpSound
  OBVIOUS
<1>1. HttpTypeOK
  BY DEF HttpInv, HttpRecords, Places, SlotsHeld, HttpTypeOK
<1>2. SnapshotIsArchive
  <2> SUFFICES ASSUME NEW c \in HttpCallers, httpPc[c] = "done", httpOut[c] \in HttpBodies, httpDesc[c].pinned # NoBody
               PROVE  /\ httpOut[c] = httpDesc[c].pinned
                      /\ httpDesc[c].mounts /\ Tidy(httpOut[c]) => httpDst[c] = Archive(httpOut[c])
    BY DEF SnapshotIsArchive
  <2>1. /\ httpDesc[c].pinned \in {NoBody, httpOut[c]}
        /\ httpDesc[c].mounts => UnpacksAll(httpDesc[c], httpOut[c], httpDst[c])
    BY DEF HttpInv, Reported
  <2>2. httpDst[c] \in SUBSET File /\ (Tidy(httpDesc[c].pinned) => Fits(httpDesc[c].pinned, httpDst[c]))
    BY DEF HttpInv, HttpRecords, FilesVerified
  <2>3. httpOut[c] = httpDesc[c].pinned
    BY <2>1
  <2>. QED  BY <2>1, <2>2, <2>3, AllThere DEF UnpacksAll, Unpacks
<1>3. VerifiedBeforeUnpack /\ AuthOnlyToOrigin
  BY DEF HttpInv, FilesVerified, VerifiedBeforeUnpack
<1>4. HttpCleanEnd
  <2>1. \A c \in HttpCallers : httpPc[c] = "done" => ~httpTmp[c] /\ \A i \in DOMAIN httpSlots : c \notin httpSlots[i]
    BY DEF HttpInv, HttpRecords, SlotsHeld, TmpRemoved
  <2>. QED  BY <2>1 DEF HttpInv, Counted, Ended, Failed, HttpCleanEnd
<1>. QED  BY <1>1, <1>2, <1>3, <1>4 DEF HttpSound

\* Whatever servers answer, wherever they redirect, whichever appliers of the chain fail and
\* whenever callers give up: the snapshot holds the archive that matched, the Authorization header
\* stays with the origin, and a call that returned holds no slot and no temporary file
\* (httpApplier.Apply, makeRedirectPolicy, streamVerified, ChainApplier.Apply).
THEOREM HttpSoundAlways == HttpSpec => []HttpSound
BY HttpInitial, HttpNextHolds, InvIsSound, PTL DEF HttpSpec

-----------------------------------------------------------------------------

Contents == [tree : GitCommits \cup {NoObj}, part : {"none", "whole", "subdir", "partial"},
             git : SUBSET {"repo", "bareURL", "FETCH_HEAD"}]
Results == [commit : GitObjects \cup {NoObj}, ref : {""} \cup GitRefs \cup GitObjects,
            tag : GitTags \cup {NoObj}]

GitRecords ==
    /\ gitPc \in [Fetchers -> GitPcs] /\ gitSpec \in [Fetchers -> FetchSpec]
    /\ gitRefs \in [GitRefs -> GitObjects \cup {NoObj}] /\ gitPushes \in 0..MaxPushes
    /\ gitLocks \in [GitRemotes -> SUBSET Fetchers]
    /\ gitRef \in [Fetchers -> {""} \cup GitRefs \cup GitObjects]
    /\ gitBare \in [Fetchers -> SUBSET GitObjects]
    /\ gitTip \in [Fetchers -> GitObjects \cup {NoObj}]
    /\ gitTries \in [Fetchers -> 0..2] /\ gitResult \in [Fetchers -> Results]
    /\ gitDst \in [Fetchers -> Contents]
    /\ gitHeld \in [Fetchers -> SUBSET GitResources]
    /\ gitOut \in [Fetchers -> {"none", "ok", "error"}]

(* The places of a call: before it has the lock of its remote, while it    *)
(* has it, with a commit that passed the checksum, with its tree in place. *)
Early == {"idle", "activate", "auth", "lock"}
Checked == {"checkout", "clone", "extract", "submodules", "verify"}
Locked == {"bare", "resolve", "init", "fetch", "check", "retry"} \cup Checked
Treed == {"submodules", "verify"}
Over == {"return", "unmount", "done"}

(* A retry is counted where the bare directory is made, at most twice.     *)
TriesRight(f) ==
    /\ gitPc[f] \in Early => gitTries[f] = 0
    /\ gitPc[f] = "bare" => gitTries[f] < 2

(* An outcome is set by the last step of a call, or when it ended.         *)
OutRight(f) ==
    /\ gitPc[f] \notin Over => gitOut[f] = "none"
    /\ gitPc[f] = "done" => gitOut[f] # "none"

(* What is in existence is what the place of the call accounts for.        *)
HeldRight(f) ==
    /\ gitPc[f] \in {"idle", "activate"} => gitHeld[f] = {}
    /\ "stage" \in gitHeld[f] => gitPc[f] = "extract"
    /\ "gitlink" \in gitHeld[f] => gitPc[f] \in Over /\ gitOut[f] # "ok"
    /\ "bare" \in gitHeld[f] => gitPc[f] \in Locked \cup {"return"} /\ f \in gitLocks[gitSpec[f].remote]
    /\ gitHeld[f] \cap {"ssh", "hosts"} # {} => gitPc[f] \in Locked \cup {"lock", "return"}
    /\ gitPc[f] = "done" /\ gitOut[f] = "ok" => gitHeld[f] \subseteq {"litter"}

(* The ref, then the object it is found to name, is the object asked for   *)
(* when the spec names one by its hash.                                    *)
RefRight(f) ==
    /\ gitPc[f] \in {"init", "fetch"} =>
          /\ gitRef[f] # "" /\ (IsCommitSHA(gitRef[f]) => IsCommitSHA(gitSpec[f].ref))
          /\ IsCommitSHA(gitSpec[f].ref) => gitRef[f] = gitSpec[f].ref
    /\ gitPc[f] = "check" =>
          /\ gitTip[f] # NoObj /\ (IsCommitSHA(gitSpec[f].ref) <=> IsCommitSHA(gitRef[f]))
          /\ IsCommitSHA(gitSpec[f].ref) => gitTip[f] = gitSpec[f].ref

(* The result past the checksum: a commit, but for the hash of a tag that  *)
(* the spec named; the one named, the one pinned.                          *)
ResultRight(f) ==
    LET s == gitSpec[f] r == gitResult[f] IN
    gitPc[f] \in Checked \/ gitOut[f] = "ok" =>
        /\ r.commit \in GitCommits \/ (r.commit \in GitTags /\ r.commit = s.ref)
        /\ s.sum # NoObj => s.sum \in {r.commit, r.tag}
        /\ r.tag # NoObj => GitTagTarget[r.tag] = r.commit
        /\ IsCommitSHA(s.ref) => r.commit = s.ref

(* The destination is empty until the checkout and holds the commit of the *)
(* result after it; a kept repository is clean once the cleanup ran.       *)
TreeRight(f) ==
    LET s == gitSpec[f] d == gitDst[f] IN
    /\ gitPc[f] \in (Early \cup Locked) \ {"clone", "submodules", "verify"} => d = EmptyDir
    /\ gitPc[f] = "extract" => s.subdir /\ ~s.keep
    /\ gitPc[f] = "clone" => s.keep
    /\ gitPc[f] = "clone" \/ gitPc[f] \in Treed \/ gitOut[f] = "ok" =>
          /\ d.tree = Peel(gitResult[f].commit)
          /\ d.part = IF s.subdir /\ ~s.keep THEN "subdir" ELSE "whole"
    /\ gitPc[f] \in Treed \/ gitOut[f] = "ok" => d.git \in {{}, {"repo"}}

(* A success had the signatures it was asked for.                          *)
SigRight(f) ==
    gitOut[f] = "ok" /\ gitSpec[f].sig # "none" => SignatureOK(gitSpec[f].sig, gitResult[f])

CallerRight(f) ==
    /\ TriesRight(f) /\ OutRight(f) /\ HeldRight(f) /\ RefRight(f)
    /\ ResultRight(f) /\ TreeRight(f) /\ SigRight(f)

(* A remote's lock has one holder, a call of that remote at work on it.    *)
LocksRight ==
    /\ \A f \in Fetchers : \A r \in GitRemotes :
          f \in gitLocks[r] => r = gitSpec[f].remote /\ gitPc[f] \in Locked \cup {"return"}
    /\ \A f \in Fetchers : gitPc[f] \in Locked => f \in gitLocks[gitSpec[f].remote]
    /\ \A r \in GitRemotes : \A f, g \in gitLocks[r] : f = g

GitInv == GitRecords /\ (\A f \in Fetchers : CallerRight(f)) /\ LocksRight

-----------------------------------------------------------------------------
LEMMA GitConstants ==
    /\ FirstCommit \in GitCommits
    /\ \A o \in GitObjects : Peel(o) \in GitCommits /\ History(o) \subseteq GitObjects
    /\ \A c \in GitCommits : Peel(c) = c
    /\ GitCommits \cap GitTags = {} /\ NoObj \notin GitObjects /\ MaxPushes \in Nat
    /\ GitCommits \subseteq GitObjects /\ GitTags \subseteq GitObjects
    /\ \A t \in GitTags : GitTagTarget[t] \in GitCommits
<1>1. PICK c \in GitCommits : GitParents[c] = {}
  BY GitAssumption
<1>2. FirstCommit \in GitCommits
  BY <1>1 DEF FirstCommit
<1>3. \A o \in GitObjects : Peel(o) \in GitCommits
  BY GitAssumption DEF Peel, GitObjects
<1>4. \A o \in GitObjects : History(o) \subseteq GitObjects
  BY <1>3, GitAssumption DEF History, GitObjects
<1> QED
  BY <1>2, <1>3, <1>4, GitAssumption DEF Peel, GitObjects

LEMMA GitInitial == GitInit => GitInv
<1> SUFFICES ASSUME GitInit PROVE GitInv
  OBVIOUS
<1>1. GitRecords
  <2>1. gitSpec \in [Fetchers -> FetchSpec]
    BY GitAssumption DEF GitInit
  <2>2. gitRefs \in [GitRefs -> GitObjects \cup {NoObj}]
    BY GitConstants DEF GitInit, GitObjects
  <2>3. NoResult \in Results /\ EmptyDir \in Contents
    BY DEF NoResult, Results, EmptyDir, Contents
  <2>4. gitPushes \in 0..MaxPushes
    <3>1. gitPushes = 0 /\ MaxPushes \in Nat
      BY GitAssumption DEF GitInit
    <3> QED
      BY <3>1
  <2>5. gitTries \in [Fetchers -> 0..2]
    <3>1. gitTries = [f \in Fetchers |-> 0]
      BY DEF GitInit
    <3> QED
      BY <3>1
  <2>6. /\ gitPc \in [Fetchers -> GitPcs] /\ gitOut \in [Fetchers -> {"none", "ok", "error"}]
        /\ gitHeld \in [Fetchers -> SUBSET GitResources] /\ gitBare \in [Fetchers -> SUBSET GitObjects]
        /\ gitLocks \in [GitRemotes -> SUBSET Fetchers]
    BY DEF GitInit, GitPcs
  <2>7. /\ gitRef \in [Fetchers -> {""} \cup GitRefs \cup GitObjects]
        /\ gitTip \in [Fetchers -> GitObjects \cup {NoObj}]
        /\ gitResult \in [Fetchers -> Results] /\ gitDst \in [Fetchers -> Contents]
    BY <2>3 DEF GitInit
  <2> QED
    BY <2>1, <2>2, <2>4, <2>5, <2>6, <2>7 DEF GitRecords
<1>2. ASSUME NEW f \in Fetchers PROVE CallerRight(f)
  BY DEF GitInit, CallerRight, TriesRight, OutRight, HeldRight, RefRight, ResultRight, TreeRight,
         SigRight, Early, Checked, Locked, Treed, Over
<1>3. LocksRight
  BY <1>1 DEF GitInit, LocksRight, Locked, Checked, GitRecords, FetchSpec
<1> QED
  BY <1>1, <1>2, <1>3 DEF GitInv

(* A call's step leaves the other calls alone.                             *)
OthersStay(f) ==
    /\ gitSpec' = gitSpec
    /\ \A g \in Fetchers \ {f} :
          /\ gitPc'[g] = gitPc[g] /\ gitRef'[g] = gitRef[g] /\ gitTip'[g] = gitTip[g]
          /\ gitTries'[g] = gitTries[g] /\ gitResult'[g] = gitResult[g] /\ gitDst'[g] = gitDst[g]
          /\ gitHeld'[g] = gitHeld[g] /\ gitOut'[g] = gitOut[g]
          /\ \A r \in GitRemotes : g \in gitLocks'[r] <=> g \in gitLocks[r]

LEMMA OthersKept ==
    ASSUME GitInv, NEW f \in Fetchers, OthersStay(f), NEW g \in Fetchers, g # f
    PROVE  CallerRight(g)'
<1>1. gitSpec[g].remote \in GitRemotes
  BY DEF GitInv, GitRecords, FetchSpec
<1>2. CallerRight(g)
  BY DEF GitInv
<1>3. /\ gitPc'[g] = gitPc[g] /\ gitRef'[g] = gitRef[g] /\ gitTip'[g] = gitTip[g]
      /\ gitTries'[g] = gitTries[g] /\ gitResult'[g] = gitResult[g] /\ gitDst'[g] = gitDst[g]
      /\ gitHeld'[g] = gitHeld[g] /\ gitOut'[g] = gitOut[g] /\ gitSpec'[g] = gitSpec[g]
      /\ g \in gitLocks'[gitSpec[g].remote] <=> g \in gitLocks[gitSpec[g].remote]
  BY <1>1 DEF OthersStay
<1>4. TriesRight(g)' /\ OutRight(g)' /\ RefRight(g)' /\ HeldRight(g)'
  BY <1>2, <1>3 DEF CallerRight, TriesRight, OutRight, RefRight, HeldRight
<1>5. ResultRight(g)' /\ TreeRight(g)' /\ SigRight(g)'
  BY <1>2, <1>3 DEF CallerRight, ResultRight, TreeRight, SigRight
<1> QED
  BY <1>4, <1>5 DEF CallerRight

(* Most steps neither take nor give back the lock.                         *)
KeepsLock(f) ==
    /\ gitLocks' = gitLocks
    /\ gitPc[f] \in Locked \cup {"return"} => gitPc'[f] \in Locked \cup {"return"}
    /\ gitPc'[f] \in Locked => gitPc[f] \in Locked

LEMMA LocksKept ==
    ASSUME GitInv, NEW f \in Fetchers, OthersStay(f), KeepsLock(f)
    PROVE  LocksRight'
<1>1. \A g \in Fetchers : gitPc[g] \in Locked \cup {"return"} => gitPc'[g] \in Locked \cup {"return"}
  BY DEF OthersStay, KeepsLock
<1>2. \A g \in Fetchers : gitPc'[g] \in Locked => gitPc[g] \in Locked
  BY DEF OthersStay, KeepsLock
<1> QED
  BY <1>1, <1>2 DEF GitInv, LocksRight, OthersStay, KeepsLock

LEMMA CallSteps ==
    ASSUME GitInv, NEW f \in Fetchers, OthersStay(f), GitRecords', CallerRight(f)', LocksRight'
    PROVE  GitInv'
BY OthersKept DEF GitInv

-----------------------------------------------------------------------------
LEMMA HoldAdds ==
    ASSUME GitRecords, NEW f \in Fetchers, NEW rs \in SUBSET GitResources, Hold(f, rs)
    PROVE  /\ gitHeld' \in [Fetchers -> SUBSET GitResources]
           /\ gitHeld'[f] = gitHeld[f] \cup rs
           /\ \A g \in Fetchers \ {f} : gitHeld'[g] = gitHeld[g]
BY DEF GitRecords, Hold

LEMMA DropTakes ==
    ASSUME GitRecords, NEW f \in Fetchers, NEW rs, Drop(f, rs)
    PROVE  /\ gitHeld' \in [Fetchers -> SUBSET GitResources]
           /\ gitHeld'[f] = gitHeld[f] \ rs
           /\ \A g \in Fetchers \ {f} : gitHeld'[g] = gitHeld[g]
BY DEF GitRecords, Drop

LEMMA RemovesTakes ==
    ASSUME GitRecords, NEW f \in Fetchers, NEW rs, Removes(f, rs)
    PROVE  /\ gitHeld' \in [Fetchers -> SUBSET GitResources]
           /\ gitHeld'[f] \subseteq (gitHeld[f] \ rs) \cup {"litter"}
           /\ \A g \in Fetchers \ {f} : gitHeld'[g] = gitHeld[g]
<1>1. CASE Drop(f, rs)
  BY <1>1, DropTakes
<1>2. CASE gitHeld' = [gitHeld EXCEPT ![f] = (@ \ rs) \cup {"litter"}]
  <2>1. gitHeld \in [Fetchers -> SUBSET GitResources] /\ "litter" \in GitResources
    BY DEF GitRecords, GitResources
  <2>. QED  BY <1>2, <2>1
<1>. QED  BY <1>1, <1>2 DEF Removes

LEMMA ApplyKeeps == ASSUME GitInv, NEW f \in Fetchers, GitApply(f) PROVE GitInv'
<1> USE DEF GitApply, At, FetchSame, GitRemoteSame
<1>1. GitRecords'
  BY DEF GitInv, GitRecords, GitPcs
<1>2. OthersStay(f)
  BY DEF GitInv, GitRecords, OthersStay
<1>3. CallerRight(f)
  BY DEF GitInv
<1>4. KeepsLock(f)
  BY DEF GitInv, GitRecords, KeepsLock, Locked, Checked
<1>5. /\ gitPc[f] = "idle" /\ gitPc'[f] \in {"activate", "done"}
      /\ gitPc'[f] = "activate" => gitOut'[f] = "none"
      /\ gitPc'[f] = "done" => gitOut'[f] = "error"
  BY <1>3 DEF GitInv, GitRecords, CallerRight, OutRight, Over
<1>6. CallerRight(f)'
  BY <1>3, <1>5 DEF CallerRight, TriesRight, OutRight, HeldRight, RefRight, ResultRight, TreeRight,
         SigRight, Early, Checked, Locked, Treed, Over
<1> QED
  BY <1>1, <1>2, <1>4, <1>6, LocksKept, CallSteps

LEMMA ActivateKeeps == ASSUME GitInv, NEW f \in Fetchers, GitActivate(f) PROVE GitInv'
<1>0. GitRecords /\ CallerRight(f)
  BY DEF GitInv
<1>1. /\ gitHeld' \in [Fetchers -> SUBSET GitResources]
      /\ gitHeld'[f] \subseteq gitHeld[f] \cup {"mountdir", "mount"}
      /\ \A g \in Fetchers \ {f} : gitHeld'[g] = gitHeld[g]
  <2>1. CASE Hold(f, {"mountdir", "mount"})
    BY <1>0, <2>1, HoldAdds DEF GitResources
  <2>2. CASE Hold(f, {"mountdir"})
    BY <1>0, <2>2, HoldAdds DEF GitResources
  <2>3. CASE UNCHANGED gitHeld
    BY <1>0, <2>3 DEF GitRecords
  <2> QED
    BY <2>1, <2>2, <2>3 DEF GitActivate
<1> USE DEF GitActivate, At, FetchSame, GitRemoteSame
<1>2. /\ gitPc' \in [Fetchers -> GitPcs] /\ gitOut' \in [Fetchers -> {"none", "ok", "error"}]
      /\ gitPc[f] = "activate" /\ gitPc'[f] \in {"auth", "unmount", "done"}
      /\ gitPc'[f] \in {"auth", "unmount"} => gitOut'[f] = gitOut[f]
      /\ gitPc'[f] = "done" => gitOut'[f] = "error"
      /\ \A g \in Fetchers \ {f} : gitPc'[g] = gitPc[g] /\ gitOut'[g] = gitOut[g]
  BY <1>0 DEF GitRecords, GitPcs
<1>3. GitRecords'
  BY <1>0, <1>1, <1>2 DEF GitRecords
<1>4. OthersStay(f) /\ KeepsLock(f)
  BY <1>1, <1>2 DEF OthersStay, KeepsLock, Locked, Checked
<1>5. gitOut[f] = "none" /\ gitHeld'[f] \subseteq {"mountdir", "mount"}
  BY <1>0, <1>1, <1>2 DEF CallerRight, OutRight, HeldRight, Over
<1>6. CallerRight(f)'
  BY <1>0, <1>2, <1>5 DEF CallerRight, TriesRight, OutRight, HeldRight, RefRight, ResultRight, TreeRight,
         SigRight, Early, Checked, Locked, Treed, Over
<1> QED
  BY <1>3, <1>4, <1>6, LocksKept, CallSteps

LEMMA AuthKeeps == ASSUME GitInv, NEW f \in Fetchers, ResolveAuth(f) PROVE GitInv'
<1>0. GitRecords /\ CallerRight(f)
  BY DEF GitInv
<1>1. /\ gitHeld' \in [Fetchers -> SUBSET GitResources]
      /\ gitHeld'[f] \subseteq gitHeld[f] \cup {"ssh", "hosts"}
      /\ \A g \in Fetchers \ {f} : gitHeld'[g] = gitHeld[g]
  <2> DEFINE ssh == AuthSocket(gitSpec[f])
             hosts == AuthHosts(gitSpec[f])
  <2>0. ssh \subseteq {"ssh"} /\ hosts \subseteq {"hosts"}
    BY DEF AuthSocket, AuthHosts
  <2>4. Hold(f, ssh) \/ Hold(f, ssh \cup hosts) \/ UNCHANGED gitHeld
    BY DEF ResolveAuth
  <2> HIDE DEF ssh, hosts
  <2>1. CASE Hold(f, ssh)
    BY <1>0, <2>0, <2>1, HoldAdds DEF GitResources
  <2>2. CASE Hold(f, ssh \cup hosts)
    <3>1. ssh \cup hosts \in SUBSET GitResources
      BY <2>0 DEF GitResources
    <3> QED
      BY <1>0, <2>0, <2>2, <3>1, HoldAdds
  <2>3. CASE UNCHANGED gitHeld
    BY <1>0, <2>3 DEF GitRecords
  <2> QED
    BY <2>1, <2>2, <2>3, <2>4
<1> USE DEF ResolveAuth, At, FetchSame, GitRemoteSame
<1>2. /\ gitPc' \in [Fetchers -> GitPcs]
      /\ gitPc[f] = "auth" /\ gitPc'[f] \in {"lock", "return"}
      /\ \A g \in Fetchers \ {f} : gitPc'[g] = gitPc[g]
  BY <1>0 DEF GitRecords, GitPcs
<1>3. GitRecords'
  BY <1>0, <1>1, <1>2 DEF GitRecords
<1>4. OthersStay(f) /\ KeepsLock(f)
  BY <1>1, <1>2 DEF OthersStay, KeepsLock, Locked, Checked
<1>6. CallerRight(f)'
  BY <1>0, <1>1, <1>2 DEF CallerRight, TriesRight, OutRight, HeldRight, RefRight, ResultRight, TreeRight,
         SigRight, Early, Checked, Locked, Treed, Over
<1> QED
  BY <1>3, <1>4, <1>6, LocksKept, CallSteps

LEMMA LockKeeps == ASSUME GitInv, NEW f \in Fetchers, LockRemote(f) PROVE GitInv'
<1> DEFINE own == gitSpec[f].remote
<1>0. GitRecords /\ CallerRight(f) /\ LocksRight /\ own \in GitRemotes
  BY DEF GitInv, GitRecords, FetchSpec
<1> USE DEF LockRemote, At, FetchSame, GitRemoteSame
<1>2. /\ gitPc' \in [Fetchers -> GitPcs] /\ gitPc[f] = "lock" /\ gitPc'[f] = "bare"
      /\ \A g \in Fetchers \ {f} : gitPc'[g] = gitPc[g]
      /\ gitLocks' \in [GitRemotes -> SUBSET Fetchers] /\ gitLocks'[own] = {f}
      /\ \A r \in GitRemotes \ {own} : gitLocks'[r] = gitLocks[r]
      /\ gitLocks[own] = {} /\ gitSpec' = gitSpec
  BY <1>0 DEF GitRecords, GitPcs
<1>3. GitRecords'
  BY <1>0, <1>2 DEF GitRecords
<1> HIDE DEF own
<1>4. OthersStay(f)
  BY <1>2 DEF OthersStay
<1>5. LocksRight'
  <2>1. \A g \in Fetchers : \A r \in GitRemotes :
          g \in gitLocks'[r] => r = gitSpec[g].remote /\ gitPc'[g] \in Locked \cup {"return"}
    BY <1>0, <1>2 DEF LocksRight, Locked, Checked, own
  <2>2. \A g \in Fetchers : gitPc'[g] \in Locked => g \in gitLocks'[gitSpec[g].remote]
    BY <1>0, <1>2 DEF LocksRight, Locked, Checked, own, GitRecords, FetchSpec
  <2>3. \A r \in GitRemotes : \A a, b \in gitLocks'[r] : a = b
    BY <1>0, <1>2 DEF LocksRight
  <2> QED
    BY <1>2, <2>1, <2>2, <2>3 DEF LocksRight
<1>6. CallerRight(f)'
  BY <1>0, <1>2 DEF CallerRight, TriesRight, OutRight, HeldRight, RefRight, ResultRight, TreeRight,
         SigRight, Early, Checked, Locked, Treed, Over
<1> QED
  BY <1>3, <1>4, <1>5, <1>6, CallSteps

LEMMA MkBareKeeps == ASSUME GitInv, NEW f \in Fetchers, MkBareDir(f) PROVE GitInv'
<1>0. GitRecords /\ CallerRight(f) /\ LocksRight
  BY DEF GitInv
<1>1. /\ gitHeld' \in [Fetchers -> SUBSET GitResources]
      /\ gitHeld'[f] \subseteq gitHeld[f] \cup {"bare"}
      /\ \A g \in Fetchers \ {f} : gitHeld'[g] = gitHeld[g]
  <2>1. CASE Hold(f, {"bare"})
    BY <1>0, <2>1, HoldAdds DEF GitResources
  <2>2. CASE UNCHANGED gitHeld
    BY <1>0, <2>2 DEF GitRecords
  <2> QED
    BY <2>1, <2>2 DEF MkBareDir
<1> USE DEF MkBareDir, At, GitRemoteSame
<1>2. /\ gitPc' \in [Fetchers -> GitPcs]
      /\ gitPc[f] = "bare" /\ gitPc'[f] \in {"resolve", "return"}
      /\ \A g \in Fetchers \ {f} : gitPc'[g] = gitPc[g]
      /\ gitPc'[f] = "return" => gitHeld' = gitHeld
  BY <1>0 DEF GitRecords, GitPcs
<1>3. gitTries' \in [Fetchers -> 0..2]
  <2>1. gitTries[f] + 1 \in 0..2
    <3>1. gitTries[f] \in 0..2 /\ gitTries[f] < 2
      BY <1>0, <1>2 DEF GitRecords, CallerRight, TriesRight
    <3> QED
      BY <3>1
  <2> QED
    BY <1>0, <2>1 DEF GitRecords
<1>4. /\ gitBare' \in [Fetchers -> SUBSET GitObjects]
      /\ gitTip' \in [Fetchers -> GitObjects \cup {NoObj}]
  BY <1>0 DEF GitRecords
<1>5. \A g \in Fetchers \ {f} : gitTries'[g] = gitTries[g] /\ gitTip'[g] = gitTip[g]
  BY <1>0 DEF GitRecords
<1>6. GitRecords'
  BY <1>0, <1>1, <1>2, <1>3, <1>4 DEF GitRecords
<1>7. OthersStay(f) /\ KeepsLock(f)
  BY <1>1, <1>2, <1>5 DEF OthersStay, KeepsLock, Locked, Checked
<1>8. f \in gitLocks[gitSpec[f].remote] /\ gitLocks' = gitLocks
  BY <1>0, <1>2 DEF LocksRight, Locked
<1>9. CallerRight(f)'
  BY <1>0, <1>1, <1>2, <1>8 DEF CallerRight, TriesRight, OutRight, HeldRight, RefRight, ResultRight,
         TreeRight, SigRight, Early, Checked, Locked, Treed, Over
<1> QED
  BY <1>6, <1>7, <1>9, LocksKept, CallSteps

(* A step of the bare fetch that fails ends the call; its directory goes.  *)
LEMMA BareStep ==
    ASSUME GitInv, NEW f \in Fetchers, NEW from \in Locked, NEW to \in GitPcs,
           At(f, from, to), Removes(f, {"bare"}) \/ UNCHANGED gitHeld
    PROVE  /\ gitPc' \in [Fetchers -> GitPcs] /\ gitPc[f] = from /\ gitPc'[f] = to
           /\ \A g \in Fetchers \ {f} : gitPc'[g] = gitPc[g] /\ gitHeld'[g] = gitHeld[g]
           /\ gitHeld' \in [Fetchers -> SUBSET GitResources]
           /\ gitHeld'[f] \subseteq gitHeld[f] \cup {"litter"}
<1>1. GitRecords
  BY DEF GitInv
<1>2. /\ gitPc' \in [Fetchers -> GitPcs] /\ gitPc[f] = from /\ gitPc'[f] = to
      /\ \A g \in Fetchers \ {f} : gitPc'[g] = gitPc[g]
  BY <1>1 DEF GitRecords, At
<1>3. /\ gitHeld' \in [Fetchers -> SUBSET GitResources] /\ gitHeld'[f] \subseteq gitHeld[f] \cup {"litter"}
      /\ \A g \in Fetchers \ {f} : gitHeld'[g] = gitHeld[g]
  <2>1. CASE Removes(f, {"bare"})
    BY <1>1, <2>1, RemovesTakes
  <2>2. CASE UNCHANGED gitHeld
    BY <1>1, <2>2 DEF GitRecords
  <2> QED
    BY <2>1, <2>2
<1> QED
  BY <1>2, <1>3

(* The caller, after a step that failed or that only moved it on.          *)
LEMMA BareReturns ==
    ASSUME GitInv, NEW f \in Fetchers, gitPc[f] \in Locked, gitPc'[f] = "return", gitSpec' = gitSpec,
           gitHeld'[f] \subseteq (gitHeld[f] \ {"stage"}) \cup {"litter"}, gitOut'[f] = gitOut[f], gitLocks' = gitLocks
    PROVE  CallerRight(f)'
<1>1. CallerRight(f) /\ f \in gitLocks[gitSpec[f].remote]
  BY DEF GitInv, LocksRight
<1>2. gitOut'[f] = "none" /\ "gitlink" \notin gitHeld'[f] /\ "stage" \notin gitHeld'[f]
  BY <1>1 DEF CallerRight, OutRight, HeldRight, Locked, Checked, Over
<1> QED
  BY <1>1, <1>2 DEF CallerRight, TriesRight, OutRight, HeldRight, RefRight, ResultRight,
         TreeRight, SigRight, Early, Checked, Locked, Treed, Over

LEMMA RefsResolve ==
    ASSUME GitRecords, NEW query \in {"v", TagRef}
    PROVE  ResolveRemoteRef(query) \in {""} \cup GitRefs /\ ResolveDefaultBranch \in {""} \cup GitRefs
<1> DEFINE wanted == IF query = "v" THEN <<Branch, TagRef>> ELSE <<query>>
           found == {i \in DOMAIN wanted : gitRefs[wanted[i]] # NoObj}
<1>1. DOMAIN wanted \subseteq {1, 2} /\ \A i \in DOMAIN wanted : wanted[i] \in GitRefs
  BY DEF GitRefs
<1>2. ResolveDefaultBranch \in {""} \cup GitRefs
  BY DEF ResolveDefaultBranch, GitRefs
<1>3. ResolveRemoteRef(query) = IF found = {} THEN "" ELSE wanted[CHOOSE i \in found : \A j \in found : i <= j]
  BY DEF ResolveRemoteRef
<1> HIDE DEF wanted
<1>4. ASSUME found # {} PROVE \E i \in found : \A j \in found : i <= j
  BY <1>1, <1>4
<1>5. ASSUME found # {} PROVE wanted[CHOOSE i \in found : \A j \in found : i <= j] \in GitRefs
  BY <1>1, <1>4, <1>5
<1> QED
  BY <1>2, <1>3, <1>5

LEMMA LsKeeps == ASSUME GitInv, NEW f \in Fetchers, LsRemote(f) PROVE GitInv'
<1> DEFINE ref == gitSpec[f].ref
           name == CASE IsCommitSHA(ref) -> ref
                     [] ref = "" -> ResolveDefaultBranch
                     [] OTHER -> ResolveRemoteRef(ref)
<1>0. GitRecords /\ CallerRight(f) /\ ref \in {"", "v", TagRef} \cup GitObjects
  BY DEF GitInv, GitRecords, FetchSpec
<1>1. /\ name \in {""} \cup GitRefs \cup GitObjects /\ (IsCommitSHA(ref) => name = ref)
      /\ IsCommitSHA(name) => IsCommitSHA(ref)
  <2>1. CASE IsCommitSHA(ref)
    <3>1. ref # "" /\ ref \in GitObjects
      BY <2>1, GitAssumption DEF IsCommitSHA
    <3> QED
      BY <2>1, <3>1
  <2>0. \A x \in {""} \cup GitRefs : ~IsCommitSHA(x)
    BY GitAssumption DEF IsCommitSHA
  <2>2. CASE ~IsCommitSHA(ref) /\ ref = ""
    <3>1. name \in {""} \cup GitRefs
      BY <1>0, <2>2, RefsResolve
    <3> QED
      BY <2>0, <2>2, <3>1
  <2>3. CASE ~IsCommitSHA(ref) /\ ref # ""
    <3>1. ref \in {"v", TagRef}
      BY <1>0, <2>3 DEF IsCommitSHA
    <3>2. name \in {""} \cup GitRefs
      BY <1>0, <2>3, <3>1, RefsResolve
    <3> QED
      BY <2>0, <2>3, <3>2
  <2> QED
    BY <2>1, <2>2, <2>3
<1>2. /\ \/ /\ name # "" /\ At(f, "resolve", "init")
            /\ gitRef' = [gitRef EXCEPT ![f] = name] /\ UNCHANGED gitHeld
         \/ At(f, "resolve", "return") /\ Removes(f, {"bare"}) /\ UNCHANGED gitRef
      /\ GitRemoteSame
      /\ UNCHANGED <<gitSpec, gitLocks, gitBare, gitTip, gitTries, gitResult, gitDst, gitOut>>
  BY DEF LsRemote, BareFails
<1> HIDE DEF name
<1>3. /\ gitPc' \in [Fetchers -> GitPcs] /\ gitPc[f] = "resolve" /\ gitPc'[f] \in {"init", "return"}
      /\ \A g \in Fetchers \ {f} : gitPc'[g] = gitPc[g] /\ gitHeld'[g] = gitHeld[g]
      /\ gitHeld' \in [Fetchers -> SUBSET GitResources]
      /\ gitHeld'[f] \subseteq gitHeld[f] \cup {"litter"}
  <2>1. CASE At(f, "resolve", "init") /\ UNCHANGED gitHeld
    BY <2>1, BareStep DEF Locked, GitPcs
  <2>2. CASE At(f, "resolve", "return") /\ Removes(f, {"bare"})
    BY <2>2, BareStep DEF Locked, GitPcs
  <2> QED
    BY <1>2, <2>1, <2>2
<1>4. /\ gitRef' \in [Fetchers -> {""} \cup GitRefs \cup GitObjects]
      /\ \A g \in Fetchers \ {f} : gitRef'[g] = gitRef[g]
      /\ gitPc'[f] = "init" => gitRef'[f] = name /\ name # ""
  <2>0. gitRef \in [Fetchers -> {""} \cup GitRefs \cup GitObjects]
    BY <1>0 DEF GitRecords
  <2>1. CASE name # "" /\ gitRef' = [gitRef EXCEPT ![f] = name]
    BY <1>1, <2>0, <2>1
  <2>2. CASE gitPc'[f] = "return" /\ UNCHANGED gitRef
    BY <2>0, <2>2
  <2> QED
    BY <1>0, <1>2, <2>1, <2>2 DEF GitRecords, At
<1>5. GitRecords'
  BY <1>0, <1>2, <1>3, <1>4 DEF GitRecords, GitRemoteSame
<1>6. OthersStay(f) /\ KeepsLock(f)
  BY <1>2, <1>3, <1>4 DEF OthersStay, KeepsLock, Locked, Checked
<1>7. CallerRight(f)'
  <2>1. CASE gitPc'[f] = "return"
    <3>1. "stage" \notin gitHeld[f]
      BY <1>0, <1>3 DEF CallerRight, HeldRight
    <3> QED
      BY <1>2, <1>3, <2>1, <3>1, BareReturns DEF Locked
  <2>2. CASE gitPc'[f] = "init"
    <3>1. f \in gitLocks[gitSpec[f].remote]
      BY <1>3 DEF GitInv, LocksRight, Locked
    <3>2. RefRight(f)'
      BY <1>1, <1>2, <1>4, <2>2 DEF RefRight, IsCommitSHA
    <3> QED
      BY <1>0, <1>2, <1>3, <1>4, <2>2, <3>1, <3>2 DEF CallerRight, TriesRight, OutRight, HeldRight,
         ResultRight, TreeRight, SigRight, Early, Checked, Locked, Treed, Over
  <2> QED
    BY <1>3, <2>1, <2>2
<1> QED
  BY <1>5, <1>6, <1>7, LocksKept, CallSteps

(* A step that touches nothing but place, tip, bare objects and tries.     *)
LEMMA BareFrame ==
    ASSUME GitInv, NEW f \in Fetchers, GitRecords', gitPc[f] \in Locked, gitPc'[f] \in Locked \cup {"return"},
           \A g \in Fetchers \ {f} : gitPc'[g] = gitPc[g] /\ gitHeld'[g] = gitHeld[g] /\ gitTip'[g] = gitTip[g],
           UNCHANGED <<gitSpec, gitLocks, gitRef, gitTries, gitOut>>,
           \A g \in Fetchers \ {f} : gitResult'[g] = gitResult[g] /\ gitDst'[g] = gitDst[g],
           CallerRight(f)'
    PROVE  GitInv'
<1>1. OthersStay(f) /\ KeepsLock(f)
  BY DEF OthersStay, KeepsLock
<1> QED
  BY <1>1, LocksKept, CallSteps

LEMMA InitKeeps == ASSUME GitInv, NEW f \in Fetchers, InitBare(f) PROVE GitInv'
<1>0. GitRecords /\ CallerRight(f)
  BY DEF GitInv
<1>1. /\ gitPc' \in [Fetchers -> GitPcs] /\ gitPc[f] = "init" /\ gitPc'[f] \in {"fetch", "return"}
      /\ \A g \in Fetchers \ {f} : gitPc'[g] = gitPc[g] /\ gitHeld'[g] = gitHeld[g]
      /\ gitHeld' \in [Fetchers -> SUBSET GitResources]
      /\ gitHeld'[f] \subseteq gitHeld[f] \cup {"litter"}
  <2>1. CASE At(f, "init", "fetch") /\ UNCHANGED gitHeld
    BY <2>1, BareStep DEF Locked, GitPcs
  <2>2. CASE At(f, "init", "return") /\ Removes(f, {"bare"})
    BY <2>2, BareStep DEF Locked, GitPcs
  <2> QED
    BY <2>1, <2>2 DEF InitBare, BareFails
<1>2. UNCHANGED <<gitRef, gitBare, gitTip, gitTries, gitResult, gitRefs, gitPushes, gitSpec, gitLocks, gitDst, gitOut>>
  BY DEF InitBare, FetchSame, GitRemoteSame
<1>3. GitRecords'
  BY <1>0, <1>1, <1>2 DEF GitRecords
<1>4. "stage" \notin gitHeld[f] /\ f \in gitLocks[gitSpec[f].remote]
  BY <1>0, <1>1 DEF CallerRight, HeldRight, GitInv, LocksRight, Locked
<1>5. CallerRight(f)'
  <2>1. CASE gitPc'[f] = "return"
    BY <1>1, <1>2, <1>4, <2>1, BareReturns DEF Locked
  <2>2. CASE gitPc'[f] = "fetch"
    BY <1>0, <1>1, <1>2, <1>4, <2>2 DEF CallerRight, TriesRight, OutRight, HeldRight, RefRight,
       ResultRight, TreeRight, SigRight, Early, Checked, Locked, Treed, Over
  <2> QED
    BY <1>1, <2>1, <2>2
<1> QED
  BY <1>1, <1>2, <1>3, <1>5, BareFrame DEF Locked

LEMMA FetchedObjects ==
    ASSUME GitRecords
    PROVE  /\ \A c \in GitObjects : \A got \in HashOrAdvertised(c) : got \subseteq GitObjects
           /\ \A o \in GitObjects : \A got \in ShallowOrFull(o) : got \subseteq GitObjects
<1>1. ASSUME NEW c \in GitObjects, NEW got \in HashOrAdvertised(c) PROVE got \subseteq GitObjects
  <2> DEFINE reached == {History(gitRefs[r]) : r \in {q \in GitRefs : gitRefs[q] # NoObj}}
  <2>1. \A h \in reached : h \subseteq GitObjects
    <3>1. ASSUME NEW r \in GitRefs, gitRefs[r] # NoObj PROVE History(gitRefs[r]) \subseteq GitObjects
      BY <3>1, GitConstants DEF GitRecords
    <3> QED
      BY <3>1
  <2>2. UNION reached \subseteq GitObjects
    BY <2>1
  <2>3. History(c) \subseteq GitObjects
    BY GitConstants
  <2>4. got = History(c) \/ got = UNION reached
    BY <1>1 DEF HashOrAdvertised
  <2> QED
    BY <2>2, <2>3, <2>4
<1>2. ASSUME NEW o \in GitObjects, NEW got \in ShallowOrFull(o) PROVE got \subseteq GitObjects
  BY <1>2, GitConstants DEF ShallowOrFull, GitObjects
<1> QED
  BY <1>1, <1>2

LEMMA FetchSHAKeeps == ASSUME GitInv, NEW f \in Fetchers, FetchCommitSHA(f) PROVE GitInv'
<1> DEFINE c == gitRef[f]
<1>0. GitRecords /\ CallerRight(f) /\ c \in GitObjects
  BY DEF GitInv, FetchCommitSHA, IsCommitSHA
<1>1. /\ gitPc' \in [Fetchers -> GitPcs] /\ gitPc[f] = "fetch" /\ gitPc'[f] \in {"check", "return"}
      /\ \A g \in Fetchers \ {f} : gitPc'[g] = gitPc[g] /\ gitHeld'[g] = gitHeld[g]
      /\ gitHeld' \in [Fetchers -> SUBSET GitResources]
      /\ gitHeld'[f] \subseteq gitHeld[f] \cup {"litter"}
  <2>1. CASE At(f, "fetch", "check") /\ UNCHANGED gitHeld
    BY <2>1, BareStep DEF Locked, GitPcs
  <2>2. CASE At(f, "fetch", "return") /\ Removes(f, {"bare"})
    BY <2>2, BareStep DEF Locked, GitPcs
  <2> QED
    BY <2>1, <2>2 DEF FetchCommitSHA, BareFails
<1>2. UNCHANGED <<gitRef, gitTries, gitResult, gitRefs, gitPushes, gitSpec, gitLocks, gitDst, gitOut>>
  BY DEF FetchCommitSHA, GitRemoteSame
<1>3. /\ gitBare' \in [Fetchers -> SUBSET GitObjects]
      /\ gitTip' \in [Fetchers -> GitObjects \cup {NoObj}]
      /\ \A g \in Fetchers \ {f} : gitTip'[g] = gitTip[g]
      /\ gitPc'[f] = "check" => gitTip'[f] = c
  <2>1. CASE /\ \E got \in HashOrAdvertised(c) : gitBare' = [gitBare EXCEPT ![f] = got]
             /\ gitTip' = [gitTip EXCEPT ![f] = c]
    <3>1. PICK got \in HashOrAdvertised(c) : gitBare' = [gitBare EXCEPT ![f] = got]
      BY <2>1
    <3>2. got \subseteq GitObjects /\ c \in GitObjects
      BY <1>0, FetchedObjects, GitConstants
    <3> HIDE DEF c
    <3>3. gitBare' \in [Fetchers -> SUBSET GitObjects]
      BY <1>0, <3>1, <3>2 DEF GitRecords
    <3> QED
      BY <1>0, <2>1, <3>2, <3>3 DEF GitRecords
  <2>2. CASE UNCHANGED <<gitBare, gitTip>> /\ gitPc'[f] = "return"
    BY <1>0, <2>2 DEF GitRecords
  <2> QED
    BY <1>0, <2>1, <2>2 DEF FetchCommitSHA, BareFails, At, GitRecords
<1>4. GitRecords'
  BY <1>0, <1>1, <1>2, <1>3 DEF GitRecords
<1>5. "stage" \notin gitHeld[f] /\ f \in gitLocks[gitSpec[f].remote]
  BY <1>0, <1>1 DEF CallerRight, HeldRight, GitInv, LocksRight, Locked
<1>6. CallerRight(f)'
  <2>1. CASE gitPc'[f] = "return"
    BY <1>1, <1>2, <1>5, <2>1, BareReturns DEF Locked
  <2>2. CASE gitPc'[f] = "check"
    <3>1. c # NoObj
      BY <1>0, GitConstants
    <3> QED
      BY <1>0, <1>1, <1>2, <1>3, <1>5, <2>2, <3>1 DEF CallerRight, TriesRight, OutRight, HeldRight, RefRight,
         ResultRight, TreeRight, SigRight, Early, Checked, Locked, Treed, Over
  <2> QED
    BY <1>1, <2>1, <2>2
<1> QED
  BY <1>1, <1>2, <1>3, <1>4, <1>6, BareFrame DEF Locked

LEMMA FetchRefKeeps == ASSUME GitInv, NEW f \in Fetchers, FetchRef(f) PROVE GitInv'
<1> DEFINE o == gitRefs[gitRef[f]]
<1>0. GitRecords /\ CallerRight(f) /\ gitPc[f] = "fetch" /\ ~IsCommitSHA(gitRef[f])
  BY DEF GitInv, FetchRef
<1>1. /\ gitPc' \in [Fetchers -> GitPcs] /\ gitPc'[f] \in {"check", "retry", "return"}
      /\ \A g \in Fetchers \ {f} : gitPc'[g] = gitPc[g] /\ gitHeld'[g] = gitHeld[g]
      /\ gitHeld' \in [Fetchers -> SUBSET GitResources]
      /\ gitHeld'[f] \subseteq gitHeld[f] \cup {"litter"}
  <2>1. CASE At(f, "fetch", "check") /\ UNCHANGED gitHeld
    BY <2>1, BareStep DEF Locked, GitPcs
  <2>2. CASE At(f, "fetch", "return") /\ Removes(f, {"bare"})
    BY <2>2, BareStep DEF Locked, GitPcs
  <2>3. CASE At(f, "fetch", "retry") /\ Removes(f, {"bare"})
    BY <2>3, BareStep DEF Locked, GitPcs
  <2> QED
    BY <2>1, <2>2, <2>3 DEF FetchRef, BareFails, RefsInTheWay
<1>2. UNCHANGED <<gitRef, gitTries, gitResult, gitRefs, gitPushes, gitSpec, gitLocks, gitDst, gitOut>>
  BY DEF FetchRef, GitRemoteSame
<1>3. gitRef[f] \in GitRefs /\ ~IsCommitSHA(gitSpec[f].ref)
  BY <1>0 DEF GitRecords, CallerRight, RefRight, IsCommitSHA
<1>4. o \in GitObjects \cup {NoObj}
  BY <1>0, <1>3 DEF GitRecords
<1>5. /\ gitBare' \in [Fetchers -> SUBSET GitObjects]
      /\ gitTip' \in [Fetchers -> GitObjects \cup {NoObj}]
      /\ \A g \in Fetchers \ {f} : gitTip'[g] = gitTip[g]
      /\ gitPc'[f] = "check" => gitTip'[f] # NoObj
  <2>1. CASE /\ \E got \in ShallowOrFull(o) : gitBare' = [gitBare EXCEPT ![f] = got]
             /\ gitTip' = [gitTip EXCEPT ![f] = o] /\ o # NoObj
    <3>1. PICK got \in ShallowOrFull(o) : gitBare' = [gitBare EXCEPT ![f] = got]
      BY <2>1
    <3>2. got \subseteq GitObjects
      BY <1>0, <1>4, <2>1, FetchedObjects
    <3> HIDE DEF o
    <3>3. gitBare' \in [Fetchers -> SUBSET GitObjects]
      BY <1>0, <3>1, <3>2 DEF GitRecords
    <3> QED
      BY <1>0, <1>4, <2>1, <3>3 DEF GitRecords
  <2>2. CASE UNCHANGED <<gitBare, gitTip>> /\ gitPc'[f] \in {"return", "retry"}
    BY <1>0, <2>2 DEF GitRecords
  <2> QED
    BY <1>0, <2>1, <2>2 DEF FetchRef, BareFails, RefsInTheWay, At, GitRecords
<1>6. GitRecords'
  BY <1>0, <1>1, <1>2, <1>5 DEF GitRecords
<1>7. "stage" \notin gitHeld[f] /\ f \in gitLocks[gitSpec[f].remote]
  BY <1>0, <1>1 DEF CallerRight, HeldRight, GitInv, LocksRight, Locked
<1>8. CallerRight(f)'
  <2>1. CASE gitPc'[f] = "return"
    BY <1>0, <1>1, <1>2, <1>7, <2>1, BareReturns DEF Locked
  <2>2. CASE gitPc'[f] \in {"check", "retry"}
    BY <1>0, <1>1, <1>2, <1>3, <1>5, <1>7, <2>2 DEF CallerRight, TriesRight, OutRight, HeldRight, RefRight,
       ResultRight, TreeRight, SigRight, Early, Checked, Locked, Treed, Over
  <2> QED
    BY <1>1, <2>1, <2>2
<1> QED
  BY <1>0, <1>1, <1>2, <1>5, <1>6, <1>8, BareFrame DEF Locked

LEMMA RetryKeeps == ASSUME GitInv, NEW f \in Fetchers, FetchWithRetry(f) PROVE GitInv'
<1>0. GitRecords /\ CallerRight(f)
  BY DEF GitInv
<1>1. /\ gitPc' \in [Fetchers -> GitPcs] /\ gitPc[f] = "retry" /\ gitPc'[f] \in {"bare", "return"}
      /\ \A g \in Fetchers \ {f} : gitPc'[g] = gitPc[g]
      /\ gitPc'[f] = "bare" => gitTries[f] < 2
  BY <1>0 DEF FetchWithRetry, At, GitRecords, GitPcs
<1>2. UNCHANGED <<gitRef, gitBare, gitTip, gitTries, gitResult, gitRefs, gitPushes, gitSpec, gitLocks, gitDst, gitOut, gitHeld>>
  BY DEF FetchWithRetry, FetchSame, GitRemoteSame
<1>3. GitRecords'
  BY <1>0, <1>1, <1>2 DEF GitRecords
<1>4. "stage" \notin gitHeld[f] /\ f \in gitLocks[gitSpec[f].remote]
  BY <1>0, <1>1 DEF CallerRight, HeldRight, GitInv, LocksRight, Locked
<1>5. CallerRight(f)'
  <2>1. CASE gitPc'[f] = "return"
    BY <1>1, <1>2, <1>4, <2>1, BareReturns DEF Locked
  <2>2. CASE gitPc'[f] = "bare"
    BY <1>0, <1>1, <1>2, <1>4, <2>2 DEF CallerRight, TriesRight, OutRight, HeldRight, RefRight,
       ResultRight, TreeRight, SigRight, Early, Checked, Locked, Treed, Over
  <2> QED
    BY <1>1, <2>1, <2>2
<1> QED
  BY <1>1, <1>2, <1>3, <1>5, BareFrame DEF Locked

LEMMA CheckKeeps == ASSUME GitInv, NEW f \in Fetchers, ResolveAndCheck(f) PROVE GitInv'
<1> DEFINE o == gitTip[f]
           named == IsCommitSHA(gitRef[f])
           commit == IF named THEN o ELSE Peel(o)
           tag == IF ~named /\ o \in GitTags THEN o ELSE NoObj
           res == [commit |-> commit, ref |-> gitRef[f], tag |-> tag]
<1>0. GitRecords /\ CallerRight(f)
  BY DEF GitInv
<1>1. /\ gitPc' \in [Fetchers -> GitPcs] /\ gitPc[f] = "check" /\ gitPc'[f] \in {"checkout", "return"}
      /\ \A g \in Fetchers \ {f} : gitPc'[g] = gitPc[g] /\ gitHeld'[g] = gitHeld[g]
      /\ gitHeld' \in [Fetchers -> SUBSET GitResources]
      /\ gitHeld'[f] \subseteq gitHeld[f] \cup {"litter"}
  <2>1. CASE At(f, "check", "checkout") /\ UNCHANGED gitHeld
    BY <2>1, BareStep DEF Locked, Checked, GitPcs
  <2>2. CASE At(f, "check", "return") /\ Removes(f, {"bare"})
    BY <2>2, BareStep DEF Locked, GitPcs
  <2> QED
    BY <2>1, <2>2 DEF ResolveAndCheck, BareFails
<1>2. UNCHANGED <<gitRef, gitBare, gitTip, gitTries, gitRefs, gitPushes, gitSpec, gitLocks, gitDst, gitOut>>
  BY DEF ResolveAndCheck, GitRemoteSame
<1>3. o \in GitObjects /\ (IsCommitSHA(gitSpec[f].ref) <=> named) /\ (named => o = gitSpec[f].ref)
  BY <1>0, <1>1 DEF GitRecords, CallerRight, RefRight
<1> HIDE DEF named
<1>4. /\ commit \in GitObjects /\ tag \in GitTags \cup {NoObj}
      /\ commit \in GitCommits \/ (commit \in GitTags /\ commit = gitSpec[f].ref)
      /\ tag # NoObj => GitTagTarget[tag] = commit
      /\ IsCommitSHA(gitSpec[f].ref) => commit = gitSpec[f].ref
  <2>1. Peel(o) \in GitCommits /\ (o \in GitTags => Peel(o) = GitTagTarget[o])
    BY <1>3, GitConstants DEF Peel
  <2>2. o \in GitCommits \/ o \in GitTags
    BY <1>3 DEF GitObjects
  <2>3. CASE named
    BY <1>3, <2>2, <2>3
  <2>4. CASE ~named
    BY <1>3, <2>1, <2>4, GitConstants
  <2>. QED  BY <2>3, <2>4
<1>5. res \in Results
  BY <1>0, <1>4 DEF GitRecords, Results
<1>6. /\ gitResult' \in [Fetchers -> Results]
      /\ \A g \in Fetchers \ {f} : gitResult'[g] = gitResult[g]
      /\ gitPc'[f] = "checkout" =>
            gitResult'[f] = res /\ VerifyChecksum(gitSpec[f].sum, commit, tag)
  <2>1. \/ gitResult' = [gitResult EXCEPT ![f] = res] /\ VerifyChecksum(gitSpec[f].sum, commit, tag)
        \/ UNCHANGED gitResult /\ gitPc'[f] = "return"
    <3>1. res = IF named THEN [commit |-> o, ref |-> gitRef[f], tag |-> NoObj]
                ELSE [commit |-> Peel(o), ref |-> gitRef[f], tag |-> IF o \in GitTags THEN o ELSE NoObj]
      OBVIOUS
    <3>2. CASE named
      BY <1>0, <1>1, <3>1, <3>2 DEF ResolveAndCheck, BareFails, At, GitRecords, named
    <3>3. CASE ~named
      BY <1>0, <1>1, <3>1, <3>3 DEF ResolveAndCheck, BareFails, At, GitRecords, named
    <3>. QED  BY <3>2, <3>3
  <2>2. gitResult \in [Fetchers -> Results]
    BY <1>0 DEF GitRecords
  <2> HIDE DEF o, tag, commit, res
  <2> QED
    BY <1>5, <2>1, <2>2
<1>7. GitRecords'
  BY <1>0, <1>1, <1>2, <1>6 DEF GitRecords
<1>8. "stage" \notin gitHeld[f] /\ f \in gitLocks[gitSpec[f].remote] /\ "gitlink" \notin gitHeld[f]
  BY <1>0, <1>1 DEF CallerRight, HeldRight, GitInv, LocksRight, Locked, Over
<1>9. CallerRight(f)'
  <2>1. CASE gitPc'[f] = "return"
    BY <1>1, <1>2, <1>8, <2>1, BareReturns DEF Locked
  <2>2. CASE gitPc'[f] = "checkout"
    <3>1. gitResult'[f].commit = commit /\ gitResult'[f].tag = tag
      BY <1>6, <2>2
    <3>2. gitSpec[f].sum # NoObj => gitSpec[f].sum \in {commit, tag}
      BY <1>6, <2>2 DEF VerifyChecksum
    <3> HIDE DEF o, commit, tag
    <3>3. ResultRight(f)'
      BY <1>2, <1>4, <3>1, <3>2 DEF ResultRight
    <3>4. gitOut[f] = "none"
      BY <1>0, <1>1 DEF CallerRight, OutRight, Over
    <3>5. TriesRight(f)' /\ OutRight(f)' /\ RefRight(f)' /\ SigRight(f)'
      BY <1>2, <2>2, <3>4 DEF TriesRight, OutRight, RefRight, SigRight, Early, Over
    <3>6. HeldRight(f)'
      BY <1>1, <1>2, <1>8, <2>2 DEF HeldRight, Locked, Checked
    <3>7. TreeRight(f)'
      BY <1>0, <1>1, <1>2, <2>2, <3>4 DEF CallerRight, TreeRight, Treed, Locked, Checked, Early
    <3> QED
      BY <3>3, <3>5, <3>6, <3>7 DEF CallerRight
  <2> QED
    BY <1>1, <2>1, <2>2
<1>10. OthersStay(f) /\ KeepsLock(f)
  BY <1>1, <1>2, <1>6 DEF OthersStay, KeepsLock, Locked, Checked
<1> QED
  BY <1>7, <1>9, <1>10, LocksKept, CallSteps

-----------------------------------------------------------------------------
LEMMA ContentsUpdate ==
    ASSUME gitDst \in [Fetchers -> Contents], NEW f \in Fetchers, NEW t \in GitCommits,
           NEW p \in {"none", "whole", "subdir", "partial"},
           gitDst' = [gitDst EXCEPT ![f].tree = t, ![f].part = p]
    PROVE  /\ gitDst' \in [Fetchers -> Contents]
           /\ gitDst'[f].tree = t /\ gitDst'[f].part = p /\ gitDst'[f].git = gitDst[f].git
           /\ \A g \in Fetchers \ {f} : gitDst'[g] = gitDst[g]
BY DEF Contents

LEMMA PlainKeeps == ASSUME GitInv, NEW f \in Fetchers, CheckoutPlain(f) PROVE GitInv'
<1> DEFINE commit == Peel(gitResult[f].commit)
           to == IF gitSpec[f].subdir THEN "extract" ELSE "submodules"
<1>0. GitRecords /\ CallerRight(f) /\ gitDst[f] \in Contents
  BY DEF GitInv, GitRecords
<1>1. /\ gitPc' \in [Fetchers -> GitPcs] /\ gitPc[f] = "checkout"
      /\ gitPc'[f] \in {"extract", "submodules", "return"}
      /\ \A g \in Fetchers \ {f} : gitPc'[g] = gitPc[g]
      /\ gitPc'[f] = "extract" => gitSpec[f].subdir
      /\ gitPc'[f] = "submodules" => ~gitSpec[f].subdir
  <2>1. At(f, "checkout", to) \/ At(f, "checkout", "return")
    BY DEF CheckoutPlain
  <2>2. gitPc \in [Fetchers -> GitPcs] /\ to \in GitPcs
    BY <1>0 DEF GitRecords, GitPcs
  <2> QED
    BY <2>1, <2>2 DEF At, GitPcs
<1>2. /\ ~gitSpec[f].keep
      /\ UNCHANGED <<gitRef, gitBare, gitTip, gitTries, gitResult, gitRefs, gitPushes, gitSpec, gitLocks, gitOut>>
  BY DEF CheckoutPlain, FetchSame, GitRemoteSame
<1>3. commit \in GitCommits
  <2>1. gitResult[f].commit \in GitObjects
    BY <1>0, <1>1, GitConstants DEF CallerRight, ResultRight, Checked
  <2>. QED  BY <2>1, GitConstants
<1>4. gitOut[f] = "none" /\ gitDst[f] = EmptyDir /\ "gitlink" \notin gitHeld[f] /\ "stage" \notin gitHeld[f]
      /\ f \in gitLocks[gitSpec[f].remote]
  BY <1>0, <1>1 DEF CallerRight, OutRight, TreeRight, HeldRight, GitInv, LocksRight, Over, Early, Locked, Checked
<1>5. \/ gitPc'[f] = "extract" /\ Hold(f, {"stage"}) /\ UNCHANGED gitDst
      \/ /\ gitPc'[f] = "submodules" /\ UNCHANGED gitHeld
         /\ gitDst' = [gitDst EXCEPT ![f].tree = commit, ![f].part = "whole"]
      \/ gitPc'[f] = "return" /\ UNCHANGED <<gitDst, gitHeld>>
  <2>1. gitPc \in [Fetchers -> GitPcs]
    BY <1>0 DEF GitRecords
  <2> QED
    BY <2>1 DEF CheckoutPlain, At
<1> HIDE DEF to
<1>6. /\ gitHeld' \in [Fetchers -> SUBSET GitResources]
      /\ \A g \in Fetchers \ {f} : gitHeld'[g] = gitHeld[g]
      /\ gitHeld'[f] \subseteq gitHeld[f] \cup {"stage"}
      /\ gitPc'[f] # "extract" => gitHeld'[f] = gitHeld[f]
  <2>1. CASE gitPc'[f] = "extract" /\ Hold(f, {"stage"})
    BY <1>0, <2>1, HoldAdds DEF GitResources
  <2>2. CASE UNCHANGED gitHeld
    BY <1>0, <2>2 DEF GitRecords
  <2> QED
    BY <1>5, <2>1, <2>2
<1>7. /\ gitDst' \in [Fetchers -> Contents]
      /\ \A g \in Fetchers \ {f} : gitDst'[g] = gitDst[g]
      /\ gitPc'[f] = "submodules" =>
            gitDst'[f].tree = commit /\ gitDst'[f].part = "whole" /\ gitDst'[f].git = {}
      /\ gitPc'[f] = "extract" => gitDst'[f] = EmptyDir
  <2>1. CASE gitPc'[f] = "submodules" /\ gitDst' = [gitDst EXCEPT ![f].tree = commit, ![f].part = "whole"]
    <3>0. gitDst \in [Fetchers -> Contents]
      BY <1>0 DEF GitRecords
    <3>1. gitDst[f].git = {} /\ gitPc'[f] = "submodules"
      BY <1>4, <2>1 DEF EmptyDir
    <3> HIDE DEF commit
    <3>2. /\ gitDst' \in [Fetchers -> Contents]
          /\ gitDst'[f].tree = commit /\ gitDst'[f].part = "whole" /\ gitDst'[f].git = gitDst[f].git
          /\ \A g \in Fetchers \ {f} : gitDst'[g] = gitDst[g]
      BY <1>3, <2>1, <3>0, ContentsUpdate
    <3>3. gitPc'[f] # "extract" /\ gitDst'[f].git = {}
      BY <3>1, <3>2
    <3> QED
      BY <3>1, <3>2, <3>3
  <2>2. CASE UNCHANGED gitDst /\ gitPc'[f] # "submodules"
    BY <1>0, <1>4, <2>2 DEF GitRecords
  <2> QED
    BY <1>5, <2>1, <2>2
<1>8. GitRecords'
  BY <1>0, <1>1, <1>2, <1>6, <1>7 DEF GitRecords
<1>9. CallerRight(f)'
  <2>1. CASE gitPc'[f] = "return"
    BY <1>1, <1>2, <1>4, <1>6, <2>1, BareReturns DEF Locked, Checked
  <2>2. CASE gitPc'[f] \in {"extract", "submodules"}
    <3>1. TriesRight(f)' /\ OutRight(f)' /\ RefRight(f)' /\ SigRight(f)'
      BY <1>2, <1>4, <2>2 DEF TriesRight, OutRight, RefRight, SigRight, Early, Over
    <3>2. HeldRight(f)'
      BY <1>0, <1>1, <1>2, <1>4, <1>6, <2>2 DEF CallerRight, HeldRight, Locked, Checked
    <3>3. ResultRight(f)'
      BY <1>0, <1>1, <1>2 DEF CallerRight, ResultRight, Checked
    <3>4. TreeRight(f)'
      BY <1>1, <1>2, <1>4, <1>7, <2>2 DEF TreeRight, Treed, Early, Locked, Checked
    <3> QED
      BY <3>1, <3>2, <3>3, <3>4 DEF CallerRight
  <2> QED
    BY <1>1, <2>1, <2>2
<1>10. OthersStay(f) /\ KeepsLock(f)
  BY <1>1, <1>2, <1>6, <1>7 DEF OthersStay, KeepsLock, Locked, Checked
<1> QED
  BY <1>8, <1>9, <1>10, LocksKept, CallSteps

(* What a call with a verified commit has while it works on its tree.      *)
LEMMA CheckedFacts ==
    ASSUME GitInv, NEW f \in Fetchers, gitPc[f] \in Checked
    PROVE  /\ GitRecords /\ CallerRight(f) /\ Peel(gitResult[f].commit) \in GitCommits
           /\ gitOut[f] = "none" /\ "gitlink" \notin gitHeld[f] /\ f \in gitLocks[gitSpec[f].remote]
           /\ gitPc[f] # "extract" => "stage" \notin gitHeld[f]
<1>1. GitRecords /\ CallerRight(f) /\ LocksRight
  BY DEF GitInv
<1>2. gitPc[f] \notin Over /\ gitPc[f] \in Locked
  BY DEF Over, Checked, Locked
<1>3. gitResult[f].commit \in GitObjects
  BY <1>1, GitConstants DEF CallerRight, ResultRight
<1>4. Peel(gitResult[f].commit) \in GitCommits
  BY <1>3, GitConstants
<1> QED
  BY <1>1, <1>2, <1>4 DEF CallerRight, OutRight, HeldRight, ResultRight, LocksRight

(* It goes on with its result, its holdings and the lock it had.           *)
LEMMA CheckedGoesOn ==
    ASSUME GitInv, NEW f \in Fetchers, gitPc[f] \in Checked, gitPc'[f] \in Checked, gitPc'[f] # "extract",
           UNCHANGED <<gitResult, gitSpec, gitLocks, gitOut>>, gitHeld'[f] \subseteq (gitHeld[f] \ {"stage"}) \cup {"litter"}
    PROVE  TriesRight(f)' /\ OutRight(f)' /\ RefRight(f)' /\ SigRight(f)' /\ HeldRight(f)' /\ ResultRight(f)'
<1>1. /\ CallerRight(f) /\ gitOut[f] = "none" /\ "gitlink" \notin gitHeld[f]
      /\ f \in gitLocks[gitSpec[f].remote]
  BY CheckedFacts
<1>2. gitPc'[f] \notin Early \cup Over \cup {"bare", "init", "fetch", "check", "idle", "activate", "done"}
  BY DEF Checked, Early, Over
<1>3. TriesRight(f)' /\ OutRight(f)' /\ RefRight(f)' /\ SigRight(f)'
  BY <1>1, <1>2 DEF TriesRight, OutRight, RefRight, SigRight
<1>4. HeldRight(f)'
  BY <1>1, <1>2 DEF HeldRight, Locked
<1>5. ResultRight(f)'
  BY <1>1 DEF CallerRight, ResultRight
<1> QED
  BY <1>3, <1>4, <1>5

LEMMA ExtractKeeps == ASSUME GitInv, NEW f \in Fetchers, ExtractSubdir(f) PROVE GitInv'
<1> DEFINE commit == Peel(gitResult[f].commit)
<1>1. gitPc[f] = "extract"
  BY DEF ExtractSubdir, At
<1>2. /\ GitRecords /\ CallerRight(f) /\ commit \in GitCommits
      /\ f \in gitLocks[gitSpec[f].remote] /\ gitDst[f] = EmptyDir /\ gitSpec[f].subdir /\ ~gitSpec[f].keep
  BY <1>1, CheckedFacts DEF Checked, CallerRight, TreeRight, Locked
<1>3. UNCHANGED <<gitRef, gitBare, gitTip, gitTries, gitResult, gitRefs, gitPushes, gitSpec, gitLocks, gitOut>>
  BY DEF ExtractSubdir, FetchSame, GitRemoteSame
<1>4. /\ gitPc' \in [Fetchers -> GitPcs] /\ gitPc'[f] \in {"submodules", "return"}
      /\ \A g \in Fetchers \ {f} : gitPc'[g] = gitPc[g]
  BY <1>2 DEF ExtractSubdir, At, GitRecords, GitPcs
<1>5. /\ gitHeld' \in [Fetchers -> SUBSET GitResources]
      /\ gitHeld'[f] \subseteq (gitHeld[f] \ {"stage"}) \cup {"litter"}
      /\ \A g \in Fetchers \ {f} : gitHeld'[g] = gitHeld[g]
  <2>1. Removes(f, {"stage"})
    BY DEF ExtractSubdir, Removes
  <2>. QED  BY <1>2, <2>1, RemovesTakes
<1>6. \/ gitPc'[f] = "submodules" /\ gitDst' = [gitDst EXCEPT ![f].tree = commit, ![f].part = "subdir"]
      \/ gitPc'[f] = "return" /\ gitDst' = [gitDst EXCEPT ![f].part = "partial"]
  BY <1>2 DEF ExtractSubdir, At, GitRecords
<1>7. /\ gitDst' \in [Fetchers -> Contents]
      /\ \A g \in Fetchers \ {f} : gitDst'[g] = gitDst[g]
      /\ gitPc'[f] = "submodules" =>
            gitDst'[f].tree = commit /\ gitDst'[f].part = "subdir" /\ gitDst'[f].git = {}
  <2>0. gitDst \in [Fetchers -> Contents] /\ gitDst[f].git = {}
    <3>1. gitDst \in [Fetchers -> Contents]
      BY <1>2 DEF GitRecords
    <3> QED
      BY <1>2, <3>1 DEF EmptyDir
  <2> HIDE DEF commit
  <2>1. CASE gitDst' = [gitDst EXCEPT ![f].tree = commit, ![f].part = "subdir"]
    <3>1. /\ gitDst' \in [Fetchers -> Contents]
          /\ gitDst'[f].tree = commit /\ gitDst'[f].part = "subdir" /\ gitDst'[f].git = gitDst[f].git
          /\ \A g \in Fetchers \ {f} : gitDst'[g] = gitDst[g]
      BY <1>2, <2>0, <2>1, ContentsUpdate
    <3> QED
      BY <2>0, <3>1
  <2>2. CASE gitPc'[f] = "return" /\ gitDst' = [gitDst EXCEPT ![f].part = "partial"]
    <3>1. gitDst' \in [Fetchers -> Contents] /\ \A g \in Fetchers \ {f} : gitDst'[g] = gitDst[g]
      BY <2>0, <2>2 DEF Contents
    <3> QED
      BY <2>2, <3>1
  <2> QED
    BY <1>6, <2>1, <2>2
<1>8. GitRecords'
  BY <1>2, <1>3, <1>4, <1>5, <1>7 DEF GitRecords
<1>9. CallerRight(f)'
  <2>1. CASE gitPc'[f] = "return"
    BY <1>1, <1>3, <1>5, <2>1, BareReturns DEF Locked, Checked
  <2>2. CASE gitPc'[f] = "submodules"
    <3>1. TriesRight(f)' /\ OutRight(f)' /\ RefRight(f)' /\ SigRight(f)' /\ HeldRight(f)' /\ ResultRight(f)'
      BY <1>1, <1>3, <1>5, <2>2, CheckedGoesOn DEF Checked
    <3>2. TreeRight(f)'
      BY <1>2, <1>3, <1>7, <2>2 DEF TreeRight, Treed, Early, Locked, Checked
    <3> QED
      BY <3>1, <3>2 DEF CallerRight
  <2> QED
    BY <1>4, <2>1, <2>2
<1>10. OthersStay(f) /\ KeepsLock(f)
  BY <1>1, <1>3, <1>4, <1>5, <1>7 DEF OthersStay, KeepsLock, Locked, Checked
<1> QED
  BY <1>8, <1>9, <1>10, LocksKept, CallSteps

(* The checkout of a kept repository is the commit that the result stands  *)
(* for, by itself or through a tag object.                                 *)
LEMMA PullRefIsCommit ==
    ASSUME GitInv, NEW f \in Fetchers, gitPc[f] \in Checked
    PROVE  PullRef(f) = Peel(gitResult[f].commit)
<1> DEFINE r == gitResult[f]
<1>1. r \in Results /\ (r.tag # NoObj => GitTagTarget[r.tag] = r.commit)
  BY CheckedFacts DEF GitRecords, CallerRight, ResultRight
<1>2. CASE r.tag # NoObj
  <2>1. r.tag \in GitTags
    BY <1>1, <1>2 DEF Results
  <2> QED
    BY <1>1, <1>2, <2>1, GitConstants DEF PullRef, Peel
<1>3. CASE r.tag = NoObj
  BY <1>1, <1>3, GitConstants DEF PullRef
<1> QED
  BY <1>2, <1>3

LEMMA CloneKeeps == ASSUME GitInv, NEW f \in Fetchers, CloneFromBare(f) PROVE GitInv'
<1> DEFINE commit == Peel(gitResult[f].commit)
           new == [tree |-> commit, part |-> "whole", git |-> {"repo", "bareURL", "FETCH_HEAD"}]
<1>1. gitPc[f] = "checkout"
  BY DEF CloneFromBare, At
<1>2. /\ GitRecords /\ CallerRight(f) /\ commit \in GitCommits /\ "stage" \notin gitHeld[f]
      /\ gitOut[f] = "none"
  BY <1>1, CheckedFacts DEF Checked
<1>3. /\ gitSpec[f].keep
      /\ UNCHANGED <<gitRef, gitBare, gitTip, gitTries, gitResult, gitRefs, gitPushes, gitSpec, gitLocks, gitOut, gitHeld>>
  BY DEF CloneFromBare, FetchSame, GitRemoteSame
<1>4. /\ gitPc' \in [Fetchers -> GitPcs] /\ gitPc'[f] \in {"clone", "return"}
      /\ \A g \in Fetchers \ {f} : gitPc'[g] = gitPc[g]
  BY <1>2 DEF CloneFromBare, At, GitRecords, GitPcs
<1>5. \/ gitPc'[f] = "clone" /\ gitDst' = [gitDst EXCEPT ![f] = new]
      \/ gitPc'[f] = "return" /\ gitDst' = [gitDst EXCEPT ![f].git = {"repo", "bareURL"}]
  <2>1. PullRef(f) = commit
    BY <1>1, PullRefIsCommit DEF Checked
  <2>2. \/ gitPc'[f] = "clone" /\ gitDst' = [gitDst EXCEPT ![f] =
                [tree |-> PullRef(f), part |-> "whole", git |-> {"repo", "bareURL", "FETCH_HEAD"}]]
        \/ gitPc'[f] = "return" /\ gitDst' = [gitDst EXCEPT ![f].git = {"repo", "bareURL"}]
    BY <1>2 DEF CloneFromBare, At, GitRecords
  <2> QED
    BY <2>1, <2>2
<1>6. new \in Contents /\ new.tree = commit /\ new.part = "whole"
  BY <1>2 DEF Contents
<1>7. /\ gitDst' \in [Fetchers -> Contents]
      /\ \A g \in Fetchers \ {f} : gitDst'[g] = gitDst[g]
      /\ gitPc'[f] = "clone" => gitDst'[f] = new
  <2>0. gitDst \in [Fetchers -> Contents]
    BY <1>2 DEF GitRecords
  <2> HIDE DEF new
  <2>1. CASE gitDst' = [gitDst EXCEPT ![f] = new]
    BY <1>6, <2>0, <2>1
  <2>2. CASE gitPc'[f] = "return" /\ gitDst' = [gitDst EXCEPT ![f].git = {"repo", "bareURL"}]
    <3>1. gitDst' \in [Fetchers -> Contents] /\ \A g \in Fetchers \ {f} : gitDst'[g] = gitDst[g]
      BY <2>0, <2>2 DEF Contents
    <3> QED
      BY <2>2, <3>1
  <2> QED
    BY <1>5, <2>1, <2>2
<1>8. GitRecords'
  BY <1>2, <1>3, <1>4, <1>7 DEF GitRecords
<1>9. CallerRight(f)'
  <2>1. CASE gitPc'[f] = "return"
    BY <1>1, <1>2, <1>3, <2>1, BareReturns DEF Locked, Checked
  <2>2. CASE gitPc'[f] = "clone"
    <3>1. TriesRight(f)' /\ OutRight(f)' /\ RefRight(f)' /\ SigRight(f)' /\ HeldRight(f)' /\ ResultRight(f)'
      BY <1>1, <1>2, <1>3, <2>2, CheckedGoesOn DEF Checked
    <3>2. gitDst'[f].tree = commit /\ gitDst'[f].part = "whole"
      BY <1>6, <1>7, <2>2
    <3> HIDE DEF new
    <3>3. TreeRight(f)'
      BY <1>2, <1>3, <2>2, <3>2 DEF TreeRight, Treed, Early, Locked, Checked
    <3> QED
      BY <3>1, <3>3 DEF CallerRight
  <2> QED
    BY <1>4, <2>1, <2>2
<1>10. OthersStay(f) /\ KeepsLock(f)
  BY <1>1, <1>3, <1>4, <1>7 DEF OthersStay, KeepsLock, Locked, Checked
<1> QED
  BY <1>8, <1>9, <1>10, LocksKept, CallSteps

LEMMA CleanupKeeps == ASSUME GitInv, NEW f \in Fetchers, PostCheckoutCleanup(f) PROVE GitInv'
<1> DEFINE d == gitDst[f]
           kept == d.git \ {"bareURL", "FETCH_HEAD"}
<1>1. gitPc[f] = "clone"
  BY DEF PostCheckoutCleanup, At
<1>2. GitRecords /\ CallerRight(f) /\ "stage" \notin gitHeld[f] /\ gitOut[f] = "none"
  BY <1>1, CheckedFacts DEF Checked
<1>3. UNCHANGED <<gitRef, gitBare, gitTip, gitTries, gitResult, gitRefs, gitPushes, gitSpec, gitLocks, gitOut, gitHeld>>
  BY DEF PostCheckoutCleanup, FetchSame, GitRemoteSame
<1>4. /\ gitPc' \in [Fetchers -> GitPcs] /\ gitPc'[f] \in {"submodules", "return"}
      /\ \A g \in Fetchers \ {f} : gitPc'[g] = gitPc[g]
  BY <1>2 DEF PostCheckoutCleanup, At, GitRecords, GitPcs
<1>5. \/ gitPc'[f] = "submodules" /\ gitDst' = [gitDst EXCEPT ![f].git = @ \ {"bareURL", "FETCH_HEAD"}]
      \/ gitPc'[f] = "return" /\ UNCHANGED gitDst
  BY <1>2 DEF PostCheckoutCleanup, At, GitRecords
<1>6. gitDst \in [Fetchers -> Contents] /\ kept \in {{}, {"repo"}}
  <2>1. gitDst \in [Fetchers -> Contents]
    BY <1>2 DEF GitRecords
  <2>2. d.git \subseteq {"repo", "bareURL", "FETCH_HEAD"}
    BY <2>1 DEF Contents
  <2>3. kept \subseteq {"repo"}
    BY <2>2
  <2> QED
    BY <2>1, <2>3
<1>7. /\ gitDst' \in [Fetchers -> Contents]
      /\ \A g \in Fetchers \ {f} : gitDst'[g] = gitDst[g]
      /\ gitDst'[f].tree = d.tree /\ gitDst'[f].part = d.part
      /\ gitPc'[f] = "submodules" => gitDst'[f].git = kept
  <2>1. CASE gitDst' = [gitDst EXCEPT ![f].git = @ \ {"bareURL", "FETCH_HEAD"}]
    BY <1>6, <2>1 DEF Contents
  <2>2. CASE gitPc'[f] = "return" /\ UNCHANGED gitDst
    BY <1>6, <2>2
  <2> QED
    BY <1>5, <2>1, <2>2
<1>8. GitRecords'
  BY <1>2, <1>3, <1>4, <1>7 DEF GitRecords
<1>9. CallerRight(f)'
  <2>1. CASE gitPc'[f] = "return"
    BY <1>1, <1>2, <1>3, <2>1, BareReturns DEF Locked, Checked
  <2>2. CASE gitPc'[f] = "submodules"
    <3>1. TriesRight(f)' /\ OutRight(f)' /\ RefRight(f)' /\ SigRight(f)' /\ HeldRight(f)' /\ ResultRight(f)'
      BY <1>1, <1>2, <1>3, <2>2, CheckedGoesOn DEF Checked
    <3>2. gitDst'[f].git \in {{}, {"repo"}}
      BY <1>6, <1>7, <2>2
    <3>3. TreeRight(f)'
      BY <1>1, <1>2, <1>3, <1>7, <2>2, <3>2 DEF CallerRight, TreeRight, Treed, Early, Locked, Checked
    <3> QED
      BY <3>1, <3>3 DEF CallerRight
  <2> QED
    BY <1>4, <2>1, <2>2
<1>10. OthersStay(f) /\ KeepsLock(f)
  BY <1>1, <1>3, <1>4, <1>7 DEF OthersStay, KeepsLock, Locked, Checked
<1> QED
  BY <1>8, <1>9, <1>10, LocksKept, CallSteps

LEMMA SubmodulesKeep == ASSUME GitInv, NEW f \in Fetchers, InitSubmodules(f) PROVE GitInv'
<1>1. gitPc[f] = "submodules"
  BY DEF InitSubmodules, At
<1>2. /\ GitRecords /\ CallerRight(f) /\ "stage" \notin gitHeld[f] /\ gitOut[f] = "none"
      /\ f \in gitLocks[gitSpec[f].remote]
  BY <1>1, CheckedFacts DEF Checked
<1>3. UNCHANGED <<gitRef, gitBare, gitTip, gitTries, gitResult, gitRefs, gitPushes, gitSpec, gitLocks, gitOut, gitDst>>
  BY DEF InitSubmodules, FetchSame, GitRemoteSame
<1>4. /\ gitPc' \in [Fetchers -> GitPcs] /\ gitPc'[f] \in {"verify", "return"}
      /\ \A g \in Fetchers \ {f} : gitPc'[g] = gitPc[g]
  BY <1>2 DEF InitSubmodules, At, GitRecords, GitPcs
<1>5. UNCHANGED gitHeld \/ (gitPc'[f] = "return" /\ Hold(f, {"gitlink"}))
  <2>1. gitPc \in [Fetchers -> GitPcs]
    BY <1>2 DEF GitRecords
  <2>2. UNCHANGED gitHeld \/ (At(f, "submodules", "return") /\ Hold(f, {"gitlink"}))
    BY DEF InitSubmodules
  <2> QED
    BY <2>1, <2>2 DEF At
<1>6. /\ gitHeld' \in [Fetchers -> SUBSET GitResources]
      /\ \A g \in Fetchers \ {f} : gitHeld'[g] = gitHeld[g]
      /\ gitHeld'[f] \subseteq gitHeld[f] \cup {"gitlink"}
      /\ gitPc'[f] = "verify" => gitHeld'[f] = gitHeld[f]
  <2>1. CASE UNCHANGED gitHeld
    BY <1>2, <2>1 DEF GitRecords
  <2>2. CASE gitPc'[f] = "return" /\ Hold(f, {"gitlink"})
    BY <1>2, <2>2, HoldAdds DEF GitResources
  <2> QED
    BY <1>5, <2>1, <2>2
<1>7. GitRecords'
  BY <1>2, <1>3, <1>4, <1>6 DEF GitRecords
<1>8. CallerRight(f)'
  <2>1. CASE gitPc'[f] = "return"
    <3>1. TriesRight(f)' /\ OutRight(f)' /\ RefRight(f)' /\ SigRight(f)' /\ ResultRight(f)' /\ TreeRight(f)'
      BY <1>2, <1>3, <2>1 DEF TriesRight, OutRight, RefRight, SigRight, ResultRight, TreeRight, Early, Over,
         Treed, Locked, Checked
    <3>2. HeldRight(f)'
      BY <1>2, <1>3, <1>6, <2>1 DEF HeldRight, Over
    <3> QED
      BY <3>1, <3>2 DEF CallerRight
  <2>2. CASE gitPc'[f] = "verify"
    <3>1. TriesRight(f)' /\ OutRight(f)' /\ RefRight(f)' /\ SigRight(f)' /\ HeldRight(f)' /\ ResultRight(f)'
      BY <1>1, <1>2, <1>3, <1>6, <2>2, CheckedGoesOn DEF Checked
    <3>2. TreeRight(f)'
      BY <1>1, <1>2, <1>3, <2>2 DEF CallerRight, TreeRight, Treed, Early, Locked, Checked
    <3> QED
      BY <3>1, <3>2 DEF CallerRight
  <2> QED
    BY <1>4, <2>1, <2>2
<1>9. OthersStay(f) /\ KeepsLock(f)
  BY <1>1, <1>3, <1>4, <1>6 DEF OthersStay, KeepsLock, Locked, Checked
<1> QED
  BY <1>7, <1>8, <1>9, LocksKept, CallSteps

LEMMA VerifyKeeps == ASSUME GitInv, NEW f \in Fetchers, VerifySignature(f) PROVE GitInv'
<1>1. gitPc[f] = "verify"
  BY DEF VerifySignature, At
<1>2. /\ GitRecords /\ CallerRight(f) /\ "stage" \notin gitHeld[f] /\ gitOut[f] = "none"
      /\ f \in gitLocks[gitSpec[f].remote] /\ "gitlink" \notin gitHeld[f]
  BY <1>1, CheckedFacts DEF Checked
<1>3. UNCHANGED <<gitRef, gitBare, gitTip, gitTries, gitResult, gitRefs, gitPushes, gitSpec, gitLocks, gitDst, gitHeld>>
  BY DEF VerifySignature, FetchSame, GitRemoteSame
<1>4. /\ gitPc' \in [Fetchers -> GitPcs] /\ gitPc'[f] = "return"
      /\ \A g \in Fetchers \ {f} : gitPc'[g] = gitPc[g]
      /\ gitOut' \in [Fetchers -> {"none", "ok", "error"}]
      /\ \A g \in Fetchers \ {f} : gitOut'[g] = gitOut[g]
  <2>1. gitPc \in [Fetchers -> GitPcs] /\ gitOut \in [Fetchers -> {"none", "ok", "error"}]
    BY <1>2 DEF GitRecords
  <2>2. At(f, "verify", "return") /\ (UNCHANGED gitOut \/ gitOut' = [gitOut EXCEPT ![f] = "ok"])
    BY DEF VerifySignature
  <2>3. gitPc' \in [Fetchers -> GitPcs] /\ gitPc'[f] = "return" /\ \A g \in Fetchers \ {f} : gitPc'[g] = gitPc[g]
    BY <2>1, <2>2 DEF At, GitPcs
  <2>4. /\ gitOut' \in [Fetchers -> {"none", "ok", "error"}]
        /\ \A g \in Fetchers \ {f} : gitOut'[g] = gitOut[g]
    BY <2>1, <2>2
  <2> QED
    BY <2>3, <2>4
<1>5. /\ gitOut'[f] \in {"none", "ok"}
      /\ gitOut'[f] = "ok" => gitSpec[f].sig = "none" \/ SignatureOK(gitSpec[f].sig, gitResult[f])
  <2>1. gitOut \in [Fetchers -> {"none", "ok", "error"}]
    BY <1>2 DEF GitRecords
  <2> QED
    BY <1>2, <2>1 DEF VerifySignature
<1>6. GitRecords'
  BY <1>2, <1>3, <1>4 DEF GitRecords
<1>7. CallerRight(f)'
  <2>1. TriesRight(f)' /\ OutRight(f)' /\ RefRight(f)'
    BY <1>4 DEF TriesRight, OutRight, RefRight, Early, Over
  <2>2. HeldRight(f)'
    BY <1>1, <1>2, <1>3, <1>4 DEF CallerRight, HeldRight, Over, Locked, Checked
  <2>3. SigRight(f)'
    <3>1. SignatureOK(gitSpec[f].sig, gitResult[f])' <=> SignatureOK(gitSpec[f].sig, gitResult[f])
      BY <1>3 DEF SignatureOK
    <3> QED
      BY <1>3, <1>5, <3>1 DEF SigRight
  <2>4. ResultRight(f)'
    BY <1>1, <1>2, <1>3, <1>4, <1>5 DEF CallerRight, ResultRight, Checked
  <2>5. TreeRight(f)'
    BY <1>1, <1>2, <1>3, <1>4, <1>5 DEF CallerRight, TreeRight, Treed, Locked, Checked, Early
  <2> QED
    BY <2>1, <2>2, <2>3, <2>4, <2>5 DEF CallerRight
<1>8. OthersStay(f) /\ KeepsLock(f)
  BY <1>1, <1>3, <1>4 DEF OthersStay, KeepsLock, Locked, Checked
<1> QED
  BY <1>6, <1>7, <1>8, LocksKept, CallSteps

LEMMA ReturnKeeps == ASSUME GitInv, NEW f \in Fetchers, FetchReturn(f) PROVE GitInv'
<1> DEFINE own == gitSpec[f].remote
<1>1. gitPc[f] = "return"
  BY DEF FetchReturn, At
<1>2. GitRecords /\ CallerRight(f) /\ LocksRight /\ own \in GitRemotes
  BY DEF GitInv, GitRecords, FetchSpec
<1>3. UNCHANGED <<gitRef, gitBare, gitTip, gitTries, gitResult, gitRefs, gitPushes, gitSpec, gitDst>>
  BY DEF FetchReturn, FetchSame, GitRemoteSame
<1>4. /\ gitPc' \in [Fetchers -> GitPcs] /\ gitPc'[f] = "unmount"
      /\ \A g \in Fetchers \ {f} : gitPc'[g] = gitPc[g]
      /\ gitOut' \in [Fetchers -> {"none", "ok", "error"}]
      /\ \A g \in Fetchers \ {f} : gitOut'[g] = gitOut[g]
      /\ gitOut'[f] = IF gitOut[f] = "ok" THEN "ok" ELSE "error"
  BY <1>2 DEF FetchReturn, At, GitRecords, GitPcs
<1>5. /\ gitHeld' \in [Fetchers -> SUBSET GitResources]
      /\ gitHeld'[f] \subseteq (gitHeld[f] \ {"bare", "ssh", "hosts"}) \cup {"litter"}
      /\ \A g \in Fetchers \ {f} : gitHeld'[g] = gitHeld[g]
  BY <1>2, RemovesTakes DEF FetchReturn
<1>6. /\ gitLocks' \in [GitRemotes -> SUBSET Fetchers] /\ gitLocks'[own] = gitLocks[own] \ {f}
      /\ \A r \in GitRemotes \ {own} : gitLocks'[r] = gitLocks[r]
  BY <1>2 DEF FetchReturn, GitRecords
<1>7. GitRecords'
  BY <1>2, <1>3, <1>4, <1>5, <1>6 DEF GitRecords
<1> HIDE DEF own
<1>8. \A g \in Fetchers \ {f} : \A r \in GitRemotes : g \in gitLocks'[r] <=> g \in gitLocks[r]
  BY <1>6
<1>9. OthersStay(f)
  BY <1>3, <1>4, <1>5, <1>8 DEF OthersStay
<1>10. \A r \in GitRemotes : gitLocks'[r] \subseteq gitLocks[r] /\ f \notin gitLocks'[r]
  BY <1>2, <1>6 DEF LocksRight, own
<1>11. LocksRight'
  <2>1. \A g \in Fetchers : \A r \in GitRemotes :
          g \in gitLocks'[r] => r = gitSpec[g].remote /\ gitPc'[g] \in Locked \cup {"return"}
    BY <1>2, <1>4, <1>10 DEF LocksRight
  <2>2. \A g \in Fetchers : gitPc'[g] \in Locked => g \in gitLocks'[gitSpec[g].remote]
    <3>1. "unmount" \notin Locked
      BY DEF Locked, Checked
    <3>2. \A g \in Fetchers : gitSpec[g].remote \in GitRemotes
      BY <1>2 DEF GitRecords, FetchSpec
    <3> QED
      BY <1>2, <1>4, <1>8, <3>1, <3>2 DEF LocksRight
  <2>3. \A r \in GitRemotes : \A a, b \in gitLocks'[r] : a = b
    BY <1>2, <1>10 DEF LocksRight
  <2> QED
    BY <1>3, <2>1, <2>2, <2>3 DEF LocksRight
<1>12. CallerRight(f)'
  <2>1. TriesRight(f)' /\ OutRight(f)' /\ RefRight(f)'
    BY <1>4 DEF TriesRight, OutRight, RefRight, Early, Over
  <2>2. HeldRight(f)'
    BY <1>1, <1>2, <1>4, <1>5 DEF CallerRight, HeldRight, Over, Locked, Checked
  <2>3. SigRight(f)'
    <3>1. SignatureOK(gitSpec[f].sig, gitResult[f])' <=> SignatureOK(gitSpec[f].sig, gitResult[f])
      BY <1>3 DEF SignatureOK
    <3> QED
      BY <1>2, <1>3, <1>4, <3>1 DEF CallerRight, SigRight
  <2>4. ResultRight(f)'
    BY <1>1, <1>2, <1>3, <1>4 DEF CallerRight, ResultRight, Checked
  <2>5. TreeRight(f)'
    BY <1>1, <1>2, <1>3, <1>4 DEF CallerRight, TreeRight, Treed, Locked, Checked, Early
  <2> QED
    BY <2>1, <2>2, <2>3, <2>4, <2>5 DEF CallerRight
<1> QED
  BY <1>7, <1>9, <1>11, <1>12, CallSteps

LEMMA DeactivateKeeps == ASSUME GitInv, NEW f \in Fetchers, Deactivate(f) PROVE GitInv'
<1>1. gitPc[f] = "unmount"
  BY DEF Deactivate, At
<1>2. GitRecords /\ CallerRight(f) /\ LocksRight
  BY DEF GitInv
<1>3. UNCHANGED <<gitRef, gitBare, gitTip, gitTries, gitResult, gitRefs, gitPushes, gitSpec, gitLocks>>
  BY DEF Deactivate, FetchSame, GitRemoteSame
<1>4. /\ gitPc' \in [Fetchers -> GitPcs] /\ gitPc'[f] = "done"
      /\ \A g \in Fetchers \ {f} : gitPc'[g] = gitPc[g]
  <2>1. gitPc \in [Fetchers -> GitPcs] /\ At(f, "unmount", "done")
    BY <1>2 DEF Deactivate, GitRecords
  <2> QED
    BY <2>1 DEF At, GitPcs
<1> DEFINE closed == /\ Drop(f, {"mount", "mountdir"}) /\ UNCHANGED gitDst
                     /\ gitOut' = [gitOut EXCEPT ![f] = IF @ = "none" THEN "error" ELSE @]
           failed == /\ Drop(f, {"mount"}) \/ UNCHANGED gitHeld
                     /\ gitDst' = [gitDst EXCEPT ![f] = EmptyDir] \/ UNCHANGED gitDst
                     /\ gitOut' = [gitOut EXCEPT ![f] = "error"]
<1>5. closed \/ failed
  BY DEF Deactivate
<1>6. /\ gitHeld' \in [Fetchers -> SUBSET GitResources] /\ gitHeld'[f] \subseteq gitHeld[f]
      /\ \A g \in Fetchers \ {f} : gitHeld'[g] = gitHeld[g]
      /\ closed => gitHeld'[f] = gitHeld[f] \ {"mount", "mountdir"}
  <2>1. CASE closed
    BY <1>2, <2>1 DEF Drop, GitRecords
  <2>2. CASE Drop(f, {"mount"}) /\ ~closed
    BY <1>2, <2>2 DEF Drop, GitRecords
  <2>3. CASE UNCHANGED gitHeld /\ ~closed
    BY <1>2, <2>3 DEF GitRecords
  <2> QED
    BY <1>5, <2>1, <2>2, <2>3
<1>7. /\ gitDst' \in [Fetchers -> Contents]
      /\ \A g \in Fetchers \ {f} : gitDst'[g] = gitDst[g]
  <2>1. EmptyDir \in Contents
    BY DEF EmptyDir, Contents
  <2>2. gitDst \in [Fetchers -> Contents]
    BY <1>2 DEF GitRecords
  <2>3. gitDst' = [gitDst EXCEPT ![f] = EmptyDir] \/ UNCHANGED gitDst
    BY <1>5
  <2> QED
    BY <2>1, <2>2, <2>3
<1>8. /\ gitOut' \in [Fetchers -> {"none", "ok", "error"}]
      /\ \A g \in Fetchers \ {f} : gitOut'[g] = gitOut[g]
      /\ gitOut'[f] # "none" /\ (gitOut'[f] = "ok" => gitOut[f] = "ok" /\ closed)
  <2>1. gitOut \in [Fetchers -> {"none", "ok", "error"}]
    BY <1>2 DEF GitRecords
  <2>2. CASE closed
    <3>1. gitOut' = [gitOut EXCEPT ![f] = IF @ = "none" THEN "error" ELSE @]
      BY <2>2
    <3> HIDE DEF closed
    <3> QED
      BY <2>1, <2>2, <3>1
  <2>3. CASE failed
    <3>1. gitOut' = [gitOut EXCEPT ![f] = "error"]
      BY <2>3
    <3> QED
      BY <2>1, <3>1
  <2> QED
    BY <1>5, <2>2, <2>3
<1>9. closed => UNCHANGED gitDst
  OBVIOUS
<1> HIDE DEF closed, failed
<1>10. GitRecords'
  BY <1>2, <1>3, <1>4, <1>6, <1>7, <1>8 DEF GitRecords
<1>11. CallerRight(f)'
  <2>1. TriesRight(f)' /\ OutRight(f)' /\ RefRight(f)'
    BY <1>4, <1>8 DEF TriesRight, OutRight, RefRight, Early, Over
  <2>2. HeldRight(f)'
    <3>1. gitHeld[f] \subseteq {"mount", "mountdir", "gitlink", "litter"} /\ (gitOut[f] = "ok" => "gitlink" \notin gitHeld[f])
      <4>1. gitHeld[f] \subseteq GitResources
        BY <1>2 DEF GitRecords
      <4>2. /\ "stage" \notin gitHeld[f] /\ "bare" \notin gitHeld[f] /\ "ssh" \notin gitHeld[f] /\ "hosts" \notin gitHeld[f]
            /\ gitOut[f] = "ok" => "gitlink" \notin gitHeld[f]
        BY <1>1, <1>2 DEF CallerRight, HeldRight, Locked, Checked
      <4> QED
        BY <4>1, <4>2 DEF GitResources
    <3>2. gitOut'[f] = "ok" => gitHeld'[f] \subseteq {"litter"}
      BY <1>6, <1>8, <3>1
    <3> QED
      BY <1>1, <1>2, <1>4, <1>6, <1>8, <3>1, <3>2 DEF CallerRight, HeldRight, Over, Locked, Checked
  <2>3. SigRight(f)'
    <3>1. SignatureOK(gitSpec[f].sig, gitResult[f])' <=> SignatureOK(gitSpec[f].sig, gitResult[f])
      BY <1>3 DEF SignatureOK
    <3> QED
      BY <1>2, <1>3, <1>8, <3>1 DEF CallerRight, SigRight
  <2>4. ResultRight(f)'
    BY <1>2, <1>3, <1>4, <1>8 DEF CallerRight, ResultRight, Checked
  <2>5. TreeRight(f)'
    BY <1>2, <1>3, <1>4, <1>8, <1>9 DEF CallerRight, TreeRight, Treed, Locked, Checked, Early
  <2> QED
    BY <2>1, <2>2, <2>3, <2>4, <2>5 DEF CallerRight
<1>12. OthersStay(f) /\ KeepsLock(f)
  BY <1>1, <1>3, <1>4, <1>6, <1>7, <1>8 DEF OthersStay, KeepsLock, Locked, Checked
<1> QED
  BY <1>10, <1>11, <1>12, LocksKept, CallSteps

(* Nothing a call relies on is a ref of the remote.                        *)
LEMMA SameCalls ==
    ASSUME GitInv, GitRecords',
           UNCHANGED <<gitPc, gitSpec, gitLocks, gitRef, gitBare, gitTip, gitTries, gitResult, gitDst, gitHeld, gitOut>>
    PROVE  GitInv'
<1>1. ASSUME NEW f \in Fetchers PROVE CallerRight(f)'
  <2>1. CallerRight(f)
    BY DEF GitInv
  <2>2. SignatureOK(gitSpec[f].sig, gitResult[f])' <=> SignatureOK(gitSpec[f].sig, gitResult[f])
    BY DEF SignatureOK
  <2>3. SigRight(f)'
    BY <2>1, <2>2 DEF CallerRight, SigRight
  <2>4. TriesRight(f)' /\ OutRight(f)' /\ HeldRight(f)' /\ RefRight(f)'
    BY <2>1 DEF CallerRight, TriesRight, OutRight, HeldRight, RefRight
  <2>5. ResultRight(f)' /\ TreeRight(f)'
    BY <2>1 DEF CallerRight, ResultRight, TreeRight
  <2> QED
    BY <2>3, <2>4, <2>5 DEF CallerRight
<1>2. LocksRight'
  BY DEF GitInv, LocksRight
<1> QED
  BY <1>1, <1>2 DEF GitInv

LEMMA PushKeeps == ASSUME GitInv, RemotePush PROVE GitInv'
<1>1. GitRecords
  BY DEF GitInv
<1>2. PICK r \in GitRefs, o \in {NoObj} \cup GitObjects : gitRefs' = [gitRefs EXCEPT ![r] = o]
  BY GitConstants DEF RemotePush, GitObjects
<1>3. gitRefs' \in [GitRefs -> GitObjects \cup {NoObj}]
  BY <1>1, <1>2 DEF GitRecords
<1>4. gitPushes' \in 0..MaxPushes
  <2>1. gitPushes \in 0..MaxPushes /\ gitPushes < MaxPushes /\ gitPushes' = gitPushes + 1 /\ MaxPushes \in Nat
    BY <1>1, GitConstants DEF GitRecords, RemotePush
  <2> QED
    BY <2>1
<1>5. UNCHANGED <<gitPc, gitSpec, gitLocks, gitRef, gitBare, gitTip, gitTries, gitResult, gitDst, gitHeld, gitOut>>
  BY DEF RemotePush
<1>6. GitRecords'
  BY <1>1, <1>3, <1>4, <1>5 DEF GitRecords
<1> QED
  BY <1>5, <1>6, SameCalls

LEMMA GitNextKeeps == GitInv /\ [GitNext]_gitVars => GitInv'
<1> SUFFICES ASSUME GitInv, [GitNext]_gitVars PROVE GitInv'
  OBVIOUS
<1>1. CASE RemotePush
  BY <1>1, PushKeeps
<1>2. ASSUME NEW f \in Fetchers, FetcherStep(f) PROVE GitInv'
  BY <1>2, ApplyKeeps, ActivateKeeps, AuthKeeps, LockKeeps, MkBareKeeps, LsKeeps, InitKeeps, FetchSHAKeeps,
     FetchRefKeeps, RetryKeeps, CheckKeeps, PlainKeeps, ExtractKeeps, CloneKeeps, CleanupKeeps, SubmodulesKeep,
     VerifyKeeps, ReturnKeeps, DeactivateKeeps DEF FetcherStep
<1>3. CASE UNCHANGED gitVars
  <2>1. GitRecords'
    BY <1>3 DEF GitInv, GitRecords, gitVars
  <2> QED
    BY <1>3, <2>1, SameCalls DEF gitVars
<1> QED
  BY <1>1, <1>2, <1>3 DEF GitNext

-----------------------------------------------------------------------------
LEMMA InvIsGitSound == GitInv => GitSound
<1> SUFFICES ASSUME GitInv PROVE GitSound
  OBVIOUS
<1>1. GitTypeOK
  BY DEF GitInv, GitRecords, GitTypeOK
<1>2. ASSUME NEW f \in Fetchers PROVE CallerRight(f) /\ gitSpec[f] \in FetchSpec /\ gitResult[f] \in Results
  BY DEF GitInv, GitRecords
<1>3. TreeIsResult
  BY <1>2 DEF TreeIsResult, CallerRight, ResultRight, TreeRight
<1>4. SignatureCovers
  <2> SUFFICES ASSUME NEW f \in Fetchers, gitPc[f] = "done", gitOut[f] = "ok", gitSpec[f].sig # "none"
               PROVE  /\ \/ gitDst[f].tree \in GitSigned
                         \/ gitResult[f].tag \in GitSigned /\ GitTagTarget[gitResult[f].tag] = gitDst[f].tree
                      /\ gitSpec[f].sig = "requireTag" /\ gitResult[f].tag # NoObj => gitResult[f].tag \in GitSigned
                      /\ gitSpec[f].sig \in {"ignoreTag", "requireIgnore"} => gitDst[f].tree \in GitSigned
    BY DEF SignatureCovers
  <2>1. SignatureOK(gitSpec[f].sig, gitResult[f])
    BY <1>2 DEF CallerRight, SigRight
  <2>2. /\ gitResult[f].tag # NoObj => GitTagTarget[gitResult[f].tag] = gitResult[f].commit
        /\ gitDst[f].tree = Peel(gitResult[f].commit)
        /\ gitResult[f].tag # NoObj => gitDst[f].tree = GitTagTarget[gitResult[f].tag]
    <3>1. /\ gitResult[f].tag # NoObj => GitTagTarget[gitResult[f].tag] = gitResult[f].commit
          /\ gitDst[f].tree = Peel(gitResult[f].commit) /\ gitResult[f].tag \in GitTags \cup {NoObj}
      BY <1>2 DEF CallerRight, ResultRight, TreeRight, Results
    <3>. QED  BY <3>1, GitConstants
  <2> QED
    BY <2>1, <2>2 DEF SignatureOK
<1>5. NothingLeftBehind
  <2> SUFFICES ASSUME NEW f \in Fetchers, gitPc[f] = "done"
               PROVE  /\ gitHeld[f] \subseteq {"mount", "mountdir", "gitlink", "litter"}
                      /\ \A r \in GitRemotes : f \notin gitLocks[r]
                      /\ gitOut[f] = "ok" => gitHeld[f] \subseteq {"litter"} /\ gitDst[f].git \in {{}, {"repo"}}
    BY DEF NothingLeftBehind
  <2>1. gitHeld[f] \subseteq GitResources
    BY DEF GitInv, GitRecords
  <2>2. /\ "stage" \notin gitHeld[f] /\ "bare" \notin gitHeld[f] /\ "ssh" \notin gitHeld[f] /\ "hosts" \notin gitHeld[f]
        /\ gitOut[f] = "ok" => gitHeld[f] \subseteq {"litter"}
    BY <1>2 DEF CallerRight, HeldRight, Locked, Checked
  <2>3. gitOut[f] = "ok" => gitDst[f].git \in {{}, {"repo"}}
    BY <1>2 DEF CallerRight, TreeRight
  <2>4. \A r \in GitRemotes : f \notin gitLocks[r]
    BY DEF GitInv, LocksRight, Locked, Checked
  <2> QED
    BY <2>1, <2>2, <2>3, <2>4 DEF GitResources
<1>6. OneFetchPerRemote
  <2> SUFFICES ASSUME NEW f \in Fetchers, NEW g \in Fetchers, f # g, gitSpec[f].remote = gitSpec[g].remote,
                      "bare" \in gitHeld[f], "bare" \in gitHeld[g]
               PROVE  FALSE
    BY DEF OneFetchPerRemote
  <2>1. f \in gitLocks[gitSpec[f].remote] /\ g \in gitLocks[gitSpec[f].remote] /\ gitSpec[f].remote \in GitRemotes
    BY <1>2 DEF CallerRight, HeldRight, FetchSpec
  <2> QED
    BY <2>1 DEF GitInv, LocksRight
<1> QED
  BY <1>1, <1>3, <1>4, <1>5, <1>6 DEF GitSound

(* For any callers, remotes, commits, tags and specs: whatever the refs do *)
(* meanwhile and whichever git command fails, a successful Apply (Fetch,   *)
(* fetch.go:82) leaves the tree of what it reports, pinned, named and      *)
(* signed for as asked; one caller at a time works on a remote; and    *)
(* a finished call has left nothing behind.                                *)
THEOREM GitSoundAlways == GitSourceSpec => []GitSound
<1>1. GitSourceSpec => []GitInv
  BY GitInitial, GitNextKeeps, PTL DEF GitSourceSpec
<1> QED
  BY <1>1, InvIsGitSound, PTL
=============================================================================
