----------------------------- MODULE HTTPSource -----------------------------
(***************************************************************************)
(* The HTTP source (src/plugins/sources/http/applier): a chain of appliers,*)
(* each behind a semaphore, downloads a body through redirects into a      *)
(* temporary file, verifies it and unpacks it into the snapshot's mount.   *)
(* The instrumented wrapper counts the calls.                              *)
(*                                                                         *)
(* A body is identified by the archive it holds; its size is counted in    *)
(* read chunks.  An archive is a sequence of entries [name, kind, link] of *)
(* one directory; link is where a symbolic or a hard link leads.           *)
(***************************************************************************)
EXTENDS Naturals, Sequences, FiniteSets

CONSTANTS
    HttpCallers,    \* concurrent calls of Apply
    HttpLinks,      \* number of appliers of the ChainApplier
    HttpBodies,     \* bodies that servers may send
    HttpSize,       \* the number of chunks of each
    HttpEntries,    \* the archive in each
    HttpCalls,      \* assignments of descriptors [urls, scheme, pinned, secret, mounts]
    HttpHosts,      \* hosts a redirect may lead to
    MaxBodyChunks,  \* FetchRequest.MaxBytes
    MaxFetches,     \* Options.MaxConcurrentFetches
    MaxHops,        \* maxRedirects
    AllowHTTP,      \* FetcherOptions.InsecureAllowHTTP
    NoBody

Origin == "origin"
Entry == [name : STRING, kind : STRING, link : STRING]

ASSUME HttpAssumption ==
    /\ HttpLinks \in Nat \ {0}
    /\ MaxBodyChunks \in Nat \ {0} /\ MaxFetches \in Nat \ {0} /\ MaxHops \in Nat
    /\ Origin \in HttpHosts /\ AllowHTTP \in BOOLEAN
    /\ NoBody \notin HttpBodies /\ {"none", "error"} \cap HttpBodies = {}
    /\ HttpSize \in [HttpBodies -> Nat] /\ HttpEntries \in [HttpBodies -> Seq(Entry)]
    /\ HttpCalls \subseteq [HttpCallers -> [urls : BOOLEAN, scheme : STRING, pinned : HttpBodies \cup {NoBody},
                                            secret : BOOLEAN, mounts : BOOLEAN]]

VARIABLES
    httpPc,      \* where each caller is
    httpDesc,    \* its descriptor
    httpLink,    \* index of the applier of the chain at work
    httpCtx,     \* has the caller's context been cancelled
    httpSlots,   \* callers holding a slot of the current applier's semaphore
    httpTmp,     \* does its temporary file exist
    httpHost,    \* host of the request under way
    httpHops,    \* redirects followed
    httpAuth,    \* does the request carry the Authorization header
    httpSent,    \* hosts that were sent the header
    httpBody,    \* body of the response
    httpGot,     \* chunks read so far
    httpDone,    \* entries unpacked so far
    httpDst,     \* files of the snapshot [names, kind, to, from, holds]: their names, where a
                 \* symbolic link leads ("none" if it is none), the body they came from, and how much of it they hold
    httpErr,     \* did the applier at work fail
    httpOut,     \* what Apply returned: "none", "error" or the body applied
    httpMetrics  \* ApplyMetrics

httpVars == <<httpPc, httpDesc, httpLink, httpCtx, httpSlots, httpTmp, httpHost, httpHops, httpAuth,
              httpSent, httpBody, httpGot, httpDone, httpDst, httpErr, httpOut, httpMetrics>>

HttpTypeOK ==
    /\ httpPc \in [HttpCallers -> {"idle", "acquire", "temp", "request", "send", "read", "verify",
                                   "unpack", "return", "done"}]
    /\ httpLink \in [HttpCallers -> 1..HttpLinks]
    /\ httpSlots \in [1..HttpLinks -> SUBSET HttpCallers]
    /\ \A i \in 1..HttpLinks : Cardinality(httpSlots[i]) <= MaxFetches
    /\ httpHops \in [HttpCallers -> 0..MaxHops]
    /\ httpGot \in [HttpCallers -> 0..MaxBodyChunks]
    /\ httpBody \in [HttpCallers -> HttpBodies \cup {NoBody}]

HttpInit ==
    /\ httpPc = [c \in HttpCallers |-> "idle"]
    /\ httpDesc \in HttpCalls
    /\ httpLink = [c \in HttpCallers |-> 1]
    /\ httpCtx = [c \in HttpCallers |-> FALSE]
    /\ httpSlots = [i \in 1..HttpLinks |-> {}]
    /\ httpTmp = [c \in HttpCallers |-> FALSE]
    /\ httpHost = [c \in HttpCallers |-> Origin]
    /\ httpHops = [c \in HttpCallers |-> 0]
    /\ httpAuth = [c \in HttpCallers |-> FALSE]
    /\ httpSent = [c \in HttpCallers |-> {}]
    /\ httpBody = [c \in HttpCallers |-> NoBody]
    /\ httpGot = [c \in HttpCallers |-> 0]
    /\ httpDone = [c \in HttpCallers |-> 0]
    /\ httpDst = [c \in HttpCallers |-> {}]
    /\ httpErr = [c \in HttpCallers |-> FALSE]
    /\ httpOut = [c \in HttpCallers |-> "none"]
    /\ httpMetrics = [applied |-> 0, errors |-> 0]

HttpAt(c, from, to) == httpPc[c] = from /\ httpPc' = [httpPc EXCEPT ![c] = to]
HttpFail(c) == httpErr' = [httpErr EXCEPT ![c] = TRUE]
HttpOk == UNCHANGED httpErr
RequestSame == UNCHANGED <<httpHost, httpHops, httpAuth, httpSent>>
BodySame == UNCHANGED <<httpBody, httpGot, httpDone, httpDst>>
OuterSame == UNCHANGED <<httpDesc, httpLink, httpCtx, httpOut, httpMetrics>>

\* httpApplier.Apply: validateDescriptor.
HttpApply(c) ==
    /\ \/ httpDesc[c].urls /\ HttpAt(c, "idle", "acquire") /\ HttpOk
       \/ ~httpDesc[c].urls /\ HttpAt(c, "idle", "return") /\ HttpFail(c)
    /\ RequestSame /\ BodySame /\ OuterSame /\ UNCHANGED <<httpSlots, httpTmp>>

\* Apply: take a slot of the semaphore, or give up when the context ends first.
HttpAcquire(c) ==
    LET i == httpLink[c] IN
    /\ \/ /\ Cardinality(httpSlots[i]) < MaxFetches
          /\ HttpAt(c, "acquire", "temp") /\ HttpOk
          /\ httpSlots' = [httpSlots EXCEPT ![i] = @ \cup {c}]
       \/ httpCtx[c] /\ HttpAt(c, "acquire", "return") /\ HttpFail(c) /\ UNCHANGED httpSlots
    /\ RequestSame /\ BodySame /\ OuterSame /\ UNCHANGED httpTmp

\* Apply: CreateTemp; buildFetchRequest takes URL and pinned digest from the descriptor.
HttpCreateTemp(c) ==
    /\ \/ HttpAt(c, "temp", "request") /\ httpTmp' = [httpTmp EXCEPT ![c] = TRUE] /\ HttpOk
       \/ HttpAt(c, "temp", "return") /\ HttpFail(c) /\ UNCHANGED httpTmp
    /\ RequestSame /\ BodySame /\ OuterSame /\ UNCHANGED httpSlots

\* validateRequest refuses plain HTTP unless the options allow it.
ValidRequest(d) == AllowHTTP \/ d.scheme = "https"
\* injectAuthHeader: the header is set when the provider has a secret for the host.
HasSecret(d) == d.secret

\* Fetch up to the request: validateRequest, buildHTTPRequest.
HttpRequest(c) ==
    LET ok == ValidRequest(httpDesc[c]) IN
    /\ \/ /\ ok /\ HttpAt(c, "request", "send") /\ HttpOk
          /\ httpAuth' = [httpAuth EXCEPT ![c] = HasSecret(httpDesc[c])]
       \/ ~ok /\ HttpAt(c, "request", "return") /\ HttpFail(c) /\ UNCHANGED httpAuth
    /\ httpHost' = [httpHost EXCEPT ![c] = Origin]
    /\ httpHops' = [httpHops EXCEPT ![c] = 0]
    /\ BodySame /\ OuterSame /\ UNCHANGED <<httpSlots, httpTmp, httpSent>>

\* makeRedirectPolicy: never down to plain HTTP, and the policy counts the requests made,
\* the first of them too, so that one redirect less than maxRedirects is followed.
RedirectAllowed(c, scheme) == httpHops[c] + 1 < MaxHops /\ (AllowHTTP \/ scheme # "http")

\* Off the first host the Authorization header is deleted.  The client starts every hop
\* from the headers of the first request; its own rules on hosts and subdomains, which
\* delete the header more often, are left out.
AuthAfterRedirect(c, host) == httpDesc[c].secret /\ host = Origin

\* client.Do: the request reaches its host, which answers with a redirect, a body, an
\* error status (assertSuccessStatus), or not at all.
HttpSend(c) ==
    /\ httpPc[c] = "send"
    /\ httpSent' = [httpSent EXCEPT ![c] = IF httpAuth[c] THEN @ \cup {httpHost[c]} ELSE @]
    /\ \/ /\ HttpAt(c, "send", "read") /\ HttpOk
          /\ \E b \in HttpBodies : httpBody' = [httpBody EXCEPT ![c] = b]
          /\ httpGot' = [httpGot EXCEPT ![c] = 0]
          /\ UNCHANGED <<httpHost, httpHops, httpAuth>>
       \/ /\ HttpAt(c, "send", "return") /\ HttpFail(c)
          /\ UNCHANGED <<httpHost, httpHops, httpAuth, httpBody, httpGot>>
       \/ \E host \in HttpHosts, scheme \in {"https", "http"} :
             /\ IF RedirectAllowed(c, scheme)
                THEN /\ httpHost' = [httpHost EXCEPT ![c] = host]
                     /\ httpHops' = [httpHops EXCEPT ![c] = @ + 1]
                     /\ httpAuth' = [httpAuth EXCEPT ![c] = AuthAfterRedirect(c, host)]
                     /\ HttpOk /\ UNCHANGED httpPc
                ELSE /\ HttpAt(c, "send", "return") /\ HttpFail(c)
                     /\ UNCHANGED <<httpHost, httpHops, httpAuth>>
             /\ UNCHANGED <<httpBody, httpGot>>
    /\ OuterSame /\ UNCHANGED <<httpSlots, httpTmp, httpDone, httpDst>>

\* limitedReader: once the limit is used up the next Read reports ErrBodyTooLarge
\* before it looks at the body, so a body of exactly MaxBytes passes only if its last
\* chunk came together with the end of file.
MayRead(c) == httpGot[c] < MaxBodyChunks

\* streamVerified copies the body through timedReader and limitedReader.
HttpRead(c) ==
    LET left == HttpSize[httpBody[c]] - httpGot[c]
    IN  /\ httpPc[c] = "read"
        /\ \/ /\ MayRead(c) /\ left > 0 /\ HttpOk
              /\ httpGot' = [httpGot EXCEPT ![c] = @ + 1]
              /\ \/ UNCHANGED httpPc
                 \/ left = 1 /\ HttpAt(c, "read", "verify")
           \/ MayRead(c) /\ left = 0 /\ HttpAt(c, "read", "verify") /\ HttpOk /\ UNCHANGED httpGot
           \/ HttpAt(c, "read", "return") /\ HttpFail(c) /\ UNCHANGED httpGot  \* too large, too slow, cancelled
        /\ RequestSame /\ OuterSame
        /\ UNCHANGED <<httpSlots, httpTmp, httpBody, httpDone, httpDst>>

\* Variant: the digest is not compared.
HttpVerifyNothing(c) ==
    /\ HttpAt(c, "verify", IF httpDesc[c].mounts THEN "unpack" ELSE "return") /\ HttpOk
    /\ httpDone' = [httpDone EXCEPT ![c] = 0]
    /\ RequestSame /\ OuterSame
    /\ UNCHANGED <<httpSlots, httpTmp, httpBody, httpGot, httpDst>>

\* streamVerified compares the digest with the pinned one, if there is one.
DigestOK(c) == httpDesc[c].pinned \in {NoBody, httpBody[c]}

\* Apply syncs the file, verifies the signature and
\* reopens it; only then, and only if there are mounts, does it unpack.
HttpVerify(c) ==
    /\ \/ /\ DigestOK(c) /\ HttpOk
          /\ HttpAt(c, "verify", IF httpDesc[c].mounts THEN "unpack" ELSE "return")
       \/ HttpAt(c, "verify", "return") /\ HttpFail(c)
    /\ httpDone' = [httpDone EXCEPT ![c] = 0]
    /\ RequestSame /\ OuterSame
    /\ UNCHANGED <<httpSlots, httpTmp, httpBody, httpGot, httpDst>>

\* handleEntry: escaping names and, without AllowDevices, devices are errors; named
\* pipes and unknown kinds are skipped.
Refused(e) == e.kind \in {"escaping", "device"}
Skipped(e) == e.kind \notin {"file", "dir", "symlink", "hardlink"}

FileAt(dst, n) == {x \in dst : n \in x.names}
Unlinked(dst, n) == {x \in {[y EXCEPT !.names = @ \ {n}] : y \in dst} : x.names # {}}
NewFile(n, kind, to, body, holds) == [names |-> {n}, kind |-> kind, to |-> to, from |-> body, holds |-> holds]

\* Where opening a name ends that symbolic links may lead away from; nowhere in a loop.
SymlinkAt(dst, n) == {x \in FileAt(dst, n) : x.kind = "symlink"}
NamesOf(dst) == UNION {x.names \cup {x.to} : x \in dst}
Closed(dst, S) == \A n \in S : \A x \in SymlinkAt(dst, n) : x.to \in S
Opened(dst, n) ==
    {m \in {n} \cup NamesOf(dst) :
        /\ SymlinkAt(dst, m) = {}
        /\ \A S \in SUBSET ({n} \cup NamesOf(dst)) : n \in S /\ Closed(dst, S) => m \in S}
IsDir(dst, n) == \E x \in FileAt(dst, n) : x.kind = "dir"

\* What the writers can make of a directory; nothing when they cannot but fail.
Stored(dst, n, body, holds) ==
    IF FileAt(dst, n) = {} THEN dst \cup {NewFile(n, "file", "none", body, holds)}
    ELSE {IF n \in x.names THEN [x EXCEPT !.from = body, !.holds = holds] ELSE x : x \in dst}
\* Variant: a file that is there already is not written again.
WriteRegularOnce(dst, e, body, holds) ==
    {IF FileAt(dst, n) = {} THEN Stored(dst, n, body, holds) ELSE dst :
        n \in {m \in Opened(dst, e.name) : ~IsDir(dst, m)}}
\* writeRegular truncates the file that it finds through links, or creates one.
WriteRegular(dst, e, body, holds) ==
    {Stored(dst, n, body, holds) : n \in {m \in Opened(dst, e.name) : ~IsDir(dst, m)}}
\* writeDir keeps a directory, and one that a link leads to; it fails on anything else.
WriteDir(dst, e, body) ==
    IF FileAt(dst, e.name) = {} THEN {dst \cup {NewFile(e.name, "dir", "none", body, "all")}}
    ELSE {dst : n \in {m \in Opened(dst, e.name) : IsDir(dst, m)}}
\* writeSymlink and writeHardlink remove what has their name first.
WriteSymlink(dst, e, body) == {Unlinked(dst, e.name) \cup {NewFile(e.name, "symlink", e.link, body, "all")}}
WriteHardlink(dst, e) ==
    LET rest == Unlinked(dst, e.name)
    IN  {{IF e.link \in x.names THEN [x EXCEPT !.names = @ \cup {e.name}] ELSE x : x \in rest} :
            t \in {x \in FileAt(rest, e.link) : x.kind # "dir"}}

Written(dst, e, body) ==
    CASE Skipped(e) -> {dst}
      [] e.kind = "file" -> WriteRegular(dst, e, body, "all")
      [] e.kind = "dir" -> WriteDir(dst, e, body)
      [] e.kind = "symlink" -> WriteSymlink(dst, e, body)
      [] e.kind = "hardlink" -> WriteHardlink(dst, e)
\* What one that fails may leave: a file half written, a name removed and not made again.
Broken(dst, e, body) ==
    {dst} \cup CASE e.kind = "file" -> WriteRegular(dst, e, body, "part")
                 [] e.kind \in {"symlink", "hardlink"} -> {Unlinked(dst, e.name)}
                 [] OTHER -> {}

\* extractTar, one entry at a time; the context is checked before each.
HttpUnpack(c) ==
    LET es == HttpEntries[httpBody[c]]
        i == httpDone[c] + 1
    IN  /\ httpPc[c] = "unpack"
        /\ \/ /\ i <= Len(es) /\ ~Refused(es[i]) /\ ~httpCtx[c]
              /\ httpDone' = [httpDone EXCEPT ![c] = i]
              /\ \E dst \in Written(httpDst[c], es[i], httpBody[c]) : httpDst' = [httpDst EXCEPT ![c] = dst]
              /\ HttpOk /\ UNCHANGED httpPc
           \/ /\ i = Len(es) + 1 /\ ~httpCtx[c]
              /\ HttpAt(c, "unpack", "return") /\ HttpOk /\ UNCHANGED <<httpDone, httpDst>>
           \/ HttpAt(c, "unpack", "return") /\ HttpFail(c) /\ UNCHANGED <<httpDone, httpDst>>
           \/ /\ i <= Len(es) /\ HttpAt(c, "unpack", "return") /\ HttpFail(c)
              /\ \E dst \in Broken(httpDst[c], es[i], httpBody[c]) : httpDst' = [httpDst EXCEPT ![c] = dst]
              /\ UNCHANGED httpDone
        /\ RequestSame /\ OuterSame /\ UNCHANGED <<httpSlots, httpTmp, httpBody, httpGot>>

\* ChainApplier.Apply: the next applier is tried after an error, unless the context ended.
TryNext(c) == httpErr[c] /\ httpLink[c] < HttpLinks /\ ~httpCtx[c]

\* Apply returns: the deferred calls remove the temporary file and free the slot.  The
\* chain tries its next applier after an error unless the context has ended; the
\* instrumented wrapper counts what the chain returns.
HttpReturn(c) ==
    LET more == TryNext(c) IN
    /\ httpTmp' = [httpTmp EXCEPT ![c] = FALSE]
    /\ httpSlots' = [httpSlots EXCEPT ![httpLink[c]] = @ \ {c}]
    /\ httpErr' = [httpErr EXCEPT ![c] = FALSE]
    /\ \/ /\ more /\ HttpAt(c, "return", "idle")
          /\ httpLink' = [httpLink EXCEPT ![c] = @ + 1]
          /\ UNCHANGED <<httpOut, httpMetrics>>
       \/ /\ ~more /\ HttpAt(c, "return", "done")
          /\ httpOut' = [httpOut EXCEPT ![c] = IF httpErr[c] THEN "error" ELSE httpBody[c]]
          /\ httpMetrics' = [applied |-> httpMetrics.applied + 1,
                             errors |-> httpMetrics.errors + IF httpErr[c] THEN 1 ELSE 0]
          /\ UNCHANGED httpLink
    /\ RequestSame /\ BodySame /\ UNCHANGED <<httpDesc, httpCtx>>

\* The caller gives up.
HttpCancel(c) ==
    /\ httpPc[c] \notin {"idle", "done"} /\ ~httpCtx[c]
    /\ httpCtx' = [httpCtx EXCEPT ![c] = TRUE]
    /\ RequestSame /\ BodySame
    /\ UNCHANGED <<httpPc, httpDesc, httpLink, httpSlots, httpTmp, httpErr, httpOut, httpMetrics>>

HttpStep(c) ==
    \/ HttpApply(c) \/ HttpAcquire(c) \/ HttpCreateTemp(c) \/ HttpRequest(c) \/ HttpSend(c)
    \/ HttpRead(c) \/ HttpVerify(c) \/ HttpUnpack(c) \/ HttpReturn(c)

HttpNext == \E c \in HttpCallers : HttpStep(c) \/ HttpCancel(c)
HttpSpec == HttpInit /\ [][HttpNext]_httpVars
HttpFairness == \A c \in HttpCallers : WF_httpVars(HttpStep(c))

-----------------------------------------------------------------------------
\* An archive names nothing twice and links hard to files that it has named before.
Tidy(body) ==
    LET es == HttpEntries[body]
        used == {i \in DOMAIN es : ~Skipped(es[i])}
    IN  /\ \A i, j \in used : es[i].name = es[j].name => i = j
        /\ \A i \in used : es[i].kind = "hardlink" =>
              \E j \in used : j < i /\ es[j].kind = "file" /\ es[j].name = es[i].link

\* What such an archive says: a file for each entry that is no hard link, with the names
\* of the hard links to it.
LinksTo(body, n) ==
    {HttpEntries[body][j].name : j \in {k \in DOMAIN HttpEntries[body] :
        HttpEntries[body][k].kind = "hardlink" /\ HttpEntries[body][k].link = n}}
FileOf(body, e) ==
    [names |-> {e.name} \cup (IF e.kind = "file" THEN LinksTo(body, e.name) ELSE {}), kind |-> e.kind,
     to |-> IF e.kind = "symlink" THEN e.link ELSE "none", from |-> body, holds |-> "all"]
Archive(body) ==
    {FileOf(body, HttpEntries[body][i]) :
        i \in {j \in DOMAIN HttpEntries[body] : HttpEntries[body][j].kind \in {"file", "dir", "symlink"}}}

\* A successful Apply of a descriptor pinned to a tidy archive leaves exactly this archive
\* in the snapshot, even if earlier appliers of the chain failed in the middle of an unpack
\* and left files half written or links removed (ChainApplier.Apply, handleEntry).  An
\* archive that names something twice, or other archives of an unpinned descriptor, may
\* leave more: unpack.go:199 writes through the links it finds.
SnapshotIsArchive ==
    \A c \in HttpCallers : httpPc[c] = "done" /\ httpOut[c] \in HttpBodies /\ httpDesc[c].pinned # NoBody =>
        /\ httpOut[c] = httpDesc[c].pinned
        /\ httpDesc[c].mounts /\ Tidy(httpOut[c]) => httpDst[c] = Archive(httpOut[c])

\* No byte reaches the snapshot before the whole body was read and matched the pinned
\* digest, and no body over the limit ever does (the temporary file in Apply).
VerifiedBeforeUnpack ==
    \A c \in HttpCallers : \A x \in httpDst[c] :
        /\ httpDesc[c].pinned \in {NoBody, x.from}
        /\ HttpSize[x.from] <= MaxBodyChunks

\* Across any chain of redirects the Authorization header is sent only to the host the
\* descriptor names (makeRedirectPolicy).
AuthOnlyToOrigin == \A c \in HttpCallers : httpSent[c] \subseteq {Origin}

\* A finished call leaves no temporary file and no occupied slot, whichever way it
\* ended, and the metrics count every finished call once (Apply's deferred calls,
\* instrumentedApplier.Apply).
HttpCleanEnd ==
    /\ \A c \in HttpCallers : httpPc[c] = "done" =>
          ~httpTmp[c] /\ \A i \in DOMAIN httpSlots : c \notin httpSlots[i]
    /\ httpMetrics.applied = Cardinality({c \in HttpCallers : httpPc[c] = "done"})
    /\ httpMetrics.errors = Cardinality({c \in HttpCallers : httpOut[c] = "error"})

\* Every call returns: neither the semaphore nor the chain blocks forever.
HttpReturns == \A c \in HttpCallers : httpPc[c] = "acquire" ~> httpPc[c] = "done"

\* An HTTP fetch through redirects, mirrors and failures: the snapshot is the verified archive,
\* credentials stay with their host, and nothing is left behind.
HttpSound == HttpTypeOK /\ SnapshotIsArchive /\ VerifiedBeforeUnpack /\ AuthOnlyToOrigin /\ HttpCleanEnd
=============================================================================
