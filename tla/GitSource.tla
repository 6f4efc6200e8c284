----------------------------- MODULE GitSource -----------------------------
(***************************************************************************)
(* The git source (src/plugins/sources/git/applier): an adapter parses a   *)
(* descriptor into a FetchSpec, mounts the snapshot, and lets a fetcher    *)
(* bring one commit of a remote into it.  Every git sub-command is a step  *)
(* that may fail; the remote's refs move between any two of them.          *)
(*                                                                         *)
(* Commits and annotated tag objects are opaque; a commit has ancestors, a *)
(* tag object points at a commit.  The remote has two refs, a branch and a *)
(* tag of the same short name; a FetchSpec names the short name, the tag's *)
(* full name, an object by its hash, or nothing at all.                    *)
(***************************************************************************)
EXTENDS Naturals, FiniteSets

CONSTANTS
    Fetchers,       \* concurrent calls of Apply
    GitRemotes,     \* remote URLs
    GitCalls,       \* what the callers ask for: assignments of FetchSpecs to them
    GitCommits,     \* commits
    GitParents,     \* the ancestors of each
    GitTags,        \* annotated tag objects
    GitTagTarget,   \* the commit each of them points at
    GitSigned,      \* commits and tag objects whose signature verifies
    NoObj,          \* no object
    MaxPushes       \* bound: how often the remote's refs move

Branch == "refs/heads/v"
TagRef == "refs/tags/v"
GitRefs == {Branch, TagRef}
GitObjects == GitCommits \cup GitTags

\* FetchSpec; sum is the object the checksum is a prefix of, sig the
\* SignatureVerifyConfig, ssh and hosts whether an agent and pinned hosts are asked for.
FetchSpec ==
    [remote: GitRemotes, annotated: BOOLEAN, wellFormed: BOOLEAN, ref: {"", "v", TagRef} \cup GitObjects,
     sum: GitObjects \cup {NoObj}, subdir: BOOLEAN, keep: BOOLEAN, skipSub: BOOLEAN,
     ssh: BOOLEAN, hosts: BOOLEAN, sig: {"none", "any", "requireTag", "ignoreTag", "requireIgnore"}]

ASSUME GitAssumption ==
    /\ GitParents \in [GitCommits -> SUBSET GitCommits]
    /\ \E c \in GitCommits : GitParents[c] = {}       \* a first commit
    /\ GitTags \cap GitCommits = {}
    /\ GitObjects \cap ({"", "v"} \cup GitRefs) = {}  \* a full hash is no ref name
    /\ NoObj \notin GitObjects
    /\ GitTagTarget \in [GitTags -> GitCommits]
    /\ GitSigned \subseteq GitObjects
    /\ GitCalls \subseteq [Fetchers -> FetchSpec]
    /\ MaxPushes \in Nat

FirstCommit == CHOOSE c \in GitCommits : GitParents[c] = {}
NoResult == [commit |-> NoObj, ref |-> "", tag |-> NoObj]
EmptyDir == [tree |-> NoObj, part |-> "none", git |-> {}]

VARIABLES
    gitPc,      \* where each caller is
    gitSpec,    \* its FetchSpec
    gitRefs,    \* the remote's refs: what each points at, NoObj when it does not exist
    gitPushes,  \* how often they moved
    gitLocks,   \* remoteLocks: the caller that holds the lock of a remote
    gitRef,     \* the ref fetchIntoBareRepo resolved
    gitBare,    \* the objects of its bare repository
    gitTip,     \* what the fetched ref points at in the bare repository
    gitTries,   \* calls of fetchIntoBareRepo so far
    gitResult,  \* FetchResult
    gitDst,     \* what the destination directory holds
    gitHeld,    \* temporary directories, mounts, sockets and files in existence
    gitOut      \* what Apply returned

gitVars == <<gitPc, gitSpec, gitRefs, gitPushes, gitLocks, gitRef, gitBare, gitTip,
             gitTries, gitResult, gitDst, gitHeld, gitOut>>

GitPcs == {"idle", "activate", "auth", "lock", "bare", "resolve", "init", "fetch", "check",
           "retry", "checkout", "clone", "cleanup", "extract", "submodules", "verify",
           "return", "unmount", "done"}
\* "litter" is what a RemoveAll whose error nobody looks at has left.
GitResources == {"mountdir", "mount", "ssh", "hosts", "bare", "stage", "gitlink", "litter"}

GitTypeOK ==
    /\ gitPc \in [Fetchers -> GitPcs]
    /\ \A f \in Fetchers : gitSpec[f] \in FetchSpec
    /\ gitRefs \in [GitRefs -> GitObjects \cup {NoObj}]
    /\ gitPushes \in 0..MaxPushes
    /\ gitLocks \in [GitRemotes -> SUBSET Fetchers]
    /\ gitBare \in [Fetchers -> SUBSET GitObjects]
    /\ gitTries \in [Fetchers -> 0..2]
    /\ gitHeld \in [Fetchers -> SUBSET GitResources]
    /\ gitOut \in [Fetchers -> {"none", "ok", "error"}]

GitInit ==
    /\ gitPc = [f \in Fetchers |-> "idle"]
    /\ gitSpec \in GitCalls
    /\ \E tag \in {NoObj} \cup GitTags :
          gitRefs = [r \in GitRefs |-> IF r = Branch THEN FirstCommit ELSE tag]
    /\ gitPushes = 0
    /\ gitLocks = [r \in GitRemotes |-> {}]
    /\ gitRef = [f \in Fetchers |-> ""]
    /\ gitBare = [f \in Fetchers |-> {}]
    /\ gitTip = [f \in Fetchers |-> NoObj]
    /\ gitTries = [f \in Fetchers |-> 0]
    /\ gitResult = [f \in Fetchers |-> NoResult]
    /\ gitDst = [f \in Fetchers |-> EmptyDir]
    /\ gitHeld = [f \in Fetchers |-> {}]
    /\ gitOut = [f \in Fetchers |-> "none"]

-----------------------------------------------------------------------------
\* The commit an object stands for, and what a full fetch of it brings along.
Peel(o) == IF o \in GitTags THEN GitTagTarget[o] ELSE o
History(o) == {o, Peel(o)} \cup GitParents[Peel(o)]

\* IsCommitSHA: a full hash bypasses the resolution of refs.  The test is one of syntax, so
\* the hash of an annotated tag object passes for a commit.
IsCommitSHA(ref) == ref \in GitObjects

At(f, from, to) == gitPc[f] = from /\ gitPc' = [gitPc EXCEPT ![f] = to]
Hold(f, rs) == gitHeld' = [gitHeld EXCEPT ![f] = @ \cup rs]
Drop(f, rs) == gitHeld' = [gitHeld EXCEPT ![f] = @ \ rs]
\* RemoveAll and the cleanups of credentials: an error is ignored.
Removes(f, rs) ==
    \/ Drop(f, rs)
    \/ gitHeld[f] \cap rs # {} /\ gitHeld' = [gitHeld EXCEPT ![f] = (@ \ rs) \cup {"litter"}]
GitRemoteSame == UNCHANGED <<gitRefs, gitPushes>>
FetchSame(f) == UNCHANGED <<gitRef, gitBare, gitTip, gitTries, gitResult>>

\* Validate: transport, ref, checksum and Subdir are well-formed.
Validate(s) == s.wellFormed
\* ParseFetchSpec: the remote's annotation is required.
ParseFetchSpec(s) == s.annotated /\ Validate(s)

\* ContainerdApplierAdapter.Apply, first part.
GitApply(f) ==
    /\ \/ ParseFetchSpec(gitSpec[f]) /\ At(f, "idle", "activate") /\ UNCHANGED gitOut
       \/ ~ParseFetchSpec(gitSpec[f]) /\ At(f, "idle", "done") /\ gitOut' = [gitOut EXCEPT ![f] = "error"]
    /\ FetchSame(f) /\ GitRemoteSame
    /\ UNCHANGED <<gitSpec, gitLocks, gitDst, gitHeld>>

\* OverlayMountActivator.Activate up to fn: temporary directory, then mounts.
GitActivate(f) ==
    /\ \/ At(f, "activate", "auth") /\ Hold(f, {"mountdir", "mount"}) /\ UNCHANGED gitOut
       \/ /\ At(f, "activate", "done")         \* MkdirTemp fails
          /\ gitOut' = [gitOut EXCEPT ![f] = "error"] /\ UNCHANGED gitHeld
       \/ /\ At(f, "activate", "unmount")      \* mount.All fails: the directory is removed
          /\ Hold(f, {"mountdir"}) /\ UNCHANGED gitOut
    /\ FetchSame(f) /\ GitRemoteSame
    /\ UNCHANGED <<gitSpec, gitLocks, gitDst>>

\* What the provider creates for a spec: an agent socket, a known_hosts file.
AuthSocket(s) == IF s.ssh THEN {"ssh"} ELSE {}
AuthHosts(s) == IF s.hosts THEN {"hosts"} ELSE {}

\* resolveAuth: header arguments, agent socket, known_hosts file, in that order;
\* an error leaves the cleanups obtained so far to Fetch's deferred function.
ResolveAuth(f) ==
    LET ssh == AuthSocket(gitSpec[f])
        hosts == AuthHosts(gitSpec[f])
    IN  /\ \/ At(f, "auth", "lock") /\ Hold(f, ssh \cup hosts)
           \/ At(f, "auth", "return") /\ UNCHANGED gitHeld                \* HTTPAuthArgs or SSHSocket
           \/ hosts # {} /\ At(f, "auth", "return") /\ Hold(f, ssh)       \* KnownHostsFile
        /\ FetchSame(f) /\ GitRemoteSame
        /\ UNCHANGED <<gitSpec, gitLocks, gitDst, gitOut>>

\* Variant: every caller gets a mutex of its own.
LockOwnMutex(f) ==
    /\ At(f, "lock", "bare")
    /\ gitLocks' = [gitLocks EXCEPT ![gitSpec[f].remote] = @ \cup {f}]
    /\ FetchSame(f) /\ GitRemoteSame
    /\ UNCHANGED <<gitSpec, gitDst, gitHeld, gitOut>>

\* lockForRemote and Lock.
LockRemote(f) ==
    /\ gitLocks[gitSpec[f].remote] = {}
    /\ At(f, "lock", "bare")
    /\ gitLocks' = [gitLocks EXCEPT ![gitSpec[f].remote] = @ \cup {f}]
    /\ FetchSame(f) /\ GitRemoteSame
    /\ UNCHANGED <<gitSpec, gitDst, gitHeld, gitOut>>

\* fetchIntoBareRepo, first part: the temporary bare directory.
MkBareDir(f) ==
    /\ \/ At(f, "bare", "resolve") /\ Hold(f, {"bare"})
       \/ At(f, "bare", "return") /\ UNCHANGED gitHeld
    /\ gitTries' = [gitTries EXCEPT ![f] = @ + 1]
    /\ gitBare' = [gitBare EXCEPT ![f] = {}]
    /\ gitTip' = [gitTip EXCEPT ![f] = NoObj]
    /\ GitRemoteSame
    /\ UNCHANGED <<gitSpec, gitLocks, gitRef, gitResult, gitDst, gitOut>>

\* A failing step of fetchIntoBareRepo removes the directory on its way out.
BareFails(f, from) == At(f, from, "return") /\ Removes(f, {"bare"})

\* resolveRemoteRef: exact name, branch, peeled tag, tag; the first that the
\* remote advertises.  The two tag forms yield the same name.
ResolveRemoteRef(query) ==
    LET wanted == IF query = "v" THEN <<Branch, TagRef>> ELSE <<query>>
        found == {i \in DOMAIN wanted : gitRefs[wanted[i]] # NoObj}
    IN  IF found = {} THEN "" ELSE wanted[CHOOSE i \in found : \A j \in found : i <= j]

\* resolveDefaultBranch: HEAD is the branch.
ResolveDefaultBranch == IF gitRefs[Branch] # NoObj THEN Branch ELSE ""

\* ls-remote, skipped for a commit hash.
LsRemote(f) ==
    LET ref == gitSpec[f].ref
        name == CASE IsCommitSHA(ref) -> ref
                  [] ref = "" -> ResolveDefaultBranch
                  [] OTHER -> ResolveRemoteRef(ref)
    IN  /\ \/ /\ name # "" /\ At(f, "resolve", "init")
              /\ gitRef' = [gitRef EXCEPT ![f] = name] /\ UNCHANGED gitHeld
           \/ /\ name = "" \/ ~IsCommitSHA(ref)    \* ErrRefNotFound, or git fails
              /\ BareFails(f, "resolve") /\ UNCHANGED gitRef
        /\ GitRemoteSame
        /\ UNCHANGED <<gitSpec, gitLocks, gitBare, gitTip, gitTries, gitResult, gitDst, gitOut>>

\* git init --bare and git remote add.
InitBare(f) ==
    /\ \/ At(f, "init", "fetch") /\ UNCHANGED gitHeld
       \/ BareFails(f, "init")
    /\ FetchSame(f) /\ GitRemoteSame
    /\ UNCHANGED <<gitSpec, gitLocks, gitDst, gitOut>>

\* gitCLI.run repeats a fetch whose --depth=1 the server rejects without it.
ShallowOrFull(o) == {{o, Peel(o)}, History(o)}
\* argsNoCommitRefspec: a hash the server refuses ("not our ref") is dropped from the
\* command, which then brings what the refs reach now, the commit among it or not.
HashOrAdvertised(c) ==
    {History(c), UNION {History(gitRefs[r]) : r \in {q \in GitRefs : gitRefs[q] # NoObj}}}

\* fetchCommitSHA: a fetch by hash, with the tags and all of the history.
FetchCommitSHA(f) ==
    LET c == gitRef[f] IN
    /\ IsCommitSHA(c)
    /\ \/ /\ At(f, "fetch", "check")
          /\ \E got \in HashOrAdvertised(c) : gitBare' = [gitBare EXCEPT ![f] = got]
          /\ gitTip' = [gitTip EXCEPT ![f] = c]
          /\ UNCHANGED gitHeld
       \/ BareFails(f, "fetch") /\ UNCHANGED <<gitBare, gitTip>>
    /\ GitRemoteSame
    /\ UNCHANGED <<gitSpec, gitLocks, gitRef, gitTries, gitResult, gitDst, gitOut>>

\* classifyFetchError: local refs in the way call for a retry in a fresh directory.
RefsInTheWay(f) == At(f, "fetch", "retry") /\ Removes(f, {"bare"})

\* fetchRef: what the ref points at when git fetches it, not when ls-remote ran.
FetchRef(f) ==
    LET o == gitRefs[gitRef[f]] IN
    /\ gitPc[f] = "fetch" /\ ~IsCommitSHA(gitRef[f])
    /\ \/ /\ o # NoObj /\ At(f, "fetch", "check")
          /\ \E got \in ShallowOrFull(o) : gitBare' = [gitBare EXCEPT ![f] = got]
          /\ gitTip' = [gitTip EXCEPT ![f] = o]
          /\ UNCHANGED gitHeld
       \/ BareFails(f, "fetch") /\ UNCHANGED <<gitBare, gitTip>>
       \/ RefsInTheWay(f) /\ UNCHANGED <<gitBare, gitTip>>
    /\ GitRemoteSame
    /\ UNCHANGED <<gitSpec, gitLocks, gitRef, gitTries, gitResult, gitDst, gitOut>>

\* Variant: every retry starts with a fresh budget.
FetchRetriesForever(f) ==
    /\ At(f, "retry", "bare")
    /\ gitTries' = [gitTries EXCEPT ![f] = 0]
    /\ GitRemoteSame
    /\ UNCHANGED <<gitSpec, gitLocks, gitRef, gitBare, gitTip, gitResult, gitDst, gitHeld, gitOut>>

\* fetchWithRetry: one more attempt, then the error stands.
FetchWithRetry(f) ==
    /\ \/ gitTries[f] < 2 /\ At(f, "retry", "bare")
       \/ gitTries[f] = 2 /\ At(f, "retry", "return")
    /\ FetchSame(f) /\ GitRemoteSame
    /\ UNCHANGED <<gitSpec, gitLocks, gitDst, gitHeld, gitOut>>

\* verifyChecksum accepts the commit or the tag object.
VerifyChecksum(sum, commit, tag) == sum = NoObj \/ sum = commit \/ (tag # NoObj /\ sum = tag)

\* resolveRefSHA reads commit and tag out of the bare repository, verifyChecksum
\* compares them; a hash the spec named is compared and reported itself, whatever it names.
ResolveAndCheck(f) ==
    LET o == gitTip[f]
        res == IF IsCommitSHA(gitRef[f]) THEN [commit |-> o, ref |-> gitRef[f], tag |-> NoObj]
               ELSE [commit |-> Peel(o), ref |-> gitRef[f], tag |-> IF o \in GitTags THEN o ELSE NoObj]
    IN  /\ \/ /\ VerifyChecksum(gitSpec[f].sum, res.commit, res.tag)
              /\ At(f, "check", "checkout")
              /\ gitResult' = [gitResult EXCEPT ![f] = res]
              /\ UNCHANGED gitHeld
           \/ BareFails(f, "check") /\ UNCHANGED gitResult    \* mismatch, or rev-parse fails
        /\ GitRemoteSame
        /\ UNCHANGED <<gitSpec, gitLocks, gitRef, gitBare, gitTip, gitTries, gitDst, gitOut>>

-----------------------------------------------------------------------------
\* checkoutPlain, first part: the commit's tree goes into the destination, or into a
\* staging directory when a Subdir is asked for.
CheckoutPlain(f) ==
    /\ ~gitSpec[f].keep
    /\ \/ /\ gitResult[f].commit \in gitBare[f]
          /\ At(f, "checkout", IF gitSpec[f].subdir THEN "extract" ELSE "submodules")
          /\ IF gitSpec[f].subdir
             THEN Hold(f, {"stage"}) /\ UNCHANGED gitDst
             ELSE /\ gitDst' = [gitDst EXCEPT ![f].tree = Peel(gitResult[f].commit), ![f].part = "whole"]
                  /\ UNCHANGED gitHeld
       \/ At(f, "checkout", "return") /\ UNCHANGED <<gitDst, gitHeld>>
    /\ FetchSame(f) /\ GitRemoteSame
    /\ UNCHANGED <<gitSpec, gitLocks, gitOut>>

\* extractSubdir: move the entries, remove the staging directory; the deferred
\* RemoveAll removes it when a move fails half way, or that removal.
ExtractSubdir(f) ==
    /\ \/ /\ At(f, "extract", "submodules")
          /\ gitDst' = [gitDst EXCEPT ![f].tree = Peel(gitResult[f].commit), ![f].part = "subdir"]
          /\ Drop(f, {"stage"})
       \/ /\ At(f, "extract", "return")
          /\ gitDst' = [gitDst EXCEPT ![f].part = "partial"]
          /\ Removes(f, {"stage"})
    /\ FetchSame(f) /\ GitRemoteSame
    /\ UNCHANGED <<gitSpec, gitLocks, gitOut>>

\* buildPullRef: the tag object if there is one, else the commit, of the bare
\* directory; FETCH_HEAD then stands for its commit.
PullRef(f) == Peel(IF gitResult[f].tag # NoObj THEN gitResult[f].tag ELSE gitResult[f].commit)

\* checkoutWithGitDir up to the checkout: a repository in the destination whose origin
\* is the bare directory, buildPullRef fetched from it, FETCH_HEAD checked out.
CloneFromBare(f) ==
    /\ gitSpec[f].keep
    /\ \/ /\ gitResult[f].commit \in gitBare[f]
          /\ At(f, "checkout", "clone")
          /\ gitDst' = [gitDst EXCEPT ![f] =
                 [tree |-> PullRef(f), part |-> "whole", git |-> {"repo", "bareURL", "FETCH_HEAD"}]]
       \/ /\ At(f, "checkout", "return")
          /\ gitDst' = [gitDst EXCEPT ![f].git = {"repo", "bareURL"}]
    /\ FetchSame(f) /\ GitRemoteSame
    /\ UNCHANGED <<gitSpec, gitLocks, gitHeld, gitOut>>

\* remote set-url to the redacted remote, then postCheckoutCleanup, whose reflog
\* expiry may fail silently and whose removal of FETCH_HEAD may not.
PostCheckoutCleanup(f) ==
    /\ \/ /\ At(f, "clone", "submodules")
          /\ gitDst' = [gitDst EXCEPT ![f].git = @ \ {"bareURL", "FETCH_HEAD"}]
       \/ At(f, "clone", "return") /\ UNCHANGED gitDst
    /\ FetchSame(f) /\ GitRemoteSame
    /\ UNCHANGED <<gitSpec, gitLocks, gitHeld, gitOut>>

\* applyCommitMTime and initSubmodules.  A plain checkout gets a .git link to the bare
\* directory for the time of the submodule update, and loses it whatever git says.
InitSubmodules(f) ==
    /\ \/ At(f, "submodules", "verify") /\ UNCHANGED gitHeld
       \/ At(f, "submodules", "return") /\ UNCHANGED gitHeld
       \/ /\ ~gitSpec[f].keep /\ ~gitSpec[f].skipSub
          /\ At(f, "submodules", "return") /\ Hold(f, {"gitlink"})  \* Remove itself fails
    /\ FetchSame(f) /\ GitRemoteSame
    /\ UNCHANGED <<gitSpec, gitLocks, gitDst, gitOut>>

\* verifySignature, after the checkout: a verified tag suffices; otherwise the commit
\* must verify, unless the configuration requires the tag.  git cat-file reads the commit
\* through a tag object.
SignatureOK(sig, res) ==
    LET tag == res.tag # NoObj
        require == sig \in {"requireTag", "requireIgnore"}
        ignore == sig \in {"ignoreTag", "requireIgnore"}
    IN  IF ~ignore /\ tag /\ res.tag \in GitSigned THEN TRUE
        ELSE /\ ~(require /\ ~ignore /\ tag)
             /\ ~(require /\ ~tag)
             /\ Peel(res.commit) \in GitSigned

VerifySignature(f) ==
    /\ \/ /\ gitSpec[f].sig = "none" \/ SignatureOK(gitSpec[f].sig, gitResult[f])
          /\ At(f, "verify", "return")
          /\ gitOut' = [gitOut EXCEPT ![f] = "ok"]
       \/ /\ gitSpec[f].sig # "none"     \* the verifier says no, or git fails
          /\ At(f, "verify", "return") /\ UNCHANGED gitOut
    /\ FetchSame(f) /\ GitRemoteSame
    /\ UNCHANGED <<gitSpec, gitLocks, gitDst, gitHeld>>

\* Fetch returns: the deferred calls remove the bare directory, release the lock and
\* clean up the credentials, on every path.
FetchReturn(f) ==
    /\ At(f, "return", "unmount")
    /\ Removes(f, {"bare", "ssh", "hosts"})
    /\ gitLocks' = [gitLocks EXCEPT ![gitSpec[f].remote] = @ \ {f}]
    /\ gitOut' = [gitOut EXCEPT ![f] = IF @ = "ok" THEN "ok" ELSE "error"]
    /\ FetchSame(f) /\ GitRemoteSame
    /\ UNCHANGED <<gitSpec, gitDst>>

\* Activate returns: unmount, then RemoveAll of the mount point.  When the unmount
\* fails, RemoveAll empties the still mounted snapshot; the error is reported.
Deactivate(f) ==
    /\ At(f, "unmount", "done")
    /\ \/ /\ Drop(f, {"mount", "mountdir"})
          /\ gitOut' = [gitOut EXCEPT ![f] = IF @ = "none" THEN "error" ELSE @]
          /\ UNCHANGED gitDst
       \/ /\ Drop(f, {"mount"}) /\ UNCHANGED gitDst               \* RemoveAll fails
          /\ gitOut' = [gitOut EXCEPT ![f] = "error"]
       \/ /\ "mount" \in gitHeld[f] /\ UNCHANGED gitHeld
          /\ gitDst' = [gitDst EXCEPT ![f] = EmptyDir]            \* unmount fails
          /\ gitOut' = [gitOut EXCEPT ![f] = "error"]
    /\ FetchSame(f) /\ GitRemoteSame
    /\ UNCHANGED <<gitSpec, gitLocks>>

\* The owner of the remote moves a ref, forwards or not, or deletes it.
RemotePush ==
    /\ gitPushes < MaxPushes
    /\ gitPushes' = gitPushes + 1
    /\ \E r \in GitRefs : \E o \in {NoObj} \cup (IF r = Branch THEN GitCommits ELSE GitObjects) :
          o # gitRefs[r] /\ gitRefs' = [gitRefs EXCEPT ![r] = o]
    /\ UNCHANGED <<gitPc, gitSpec, gitLocks, gitRef, gitBare, gitTip, gitTries, gitResult,
                   gitDst, gitHeld, gitOut>>

FetcherStep(f) ==
    \/ GitApply(f) \/ GitActivate(f) \/ ResolveAuth(f) \/ LockRemote(f) \/ MkBareDir(f)
    \/ LsRemote(f) \/ InitBare(f) \/ FetchCommitSHA(f) \/ FetchRef(f) \/ FetchWithRetry(f)
    \/ ResolveAndCheck(f) \/ CheckoutPlain(f) \/ ExtractSubdir(f) \/ CloneFromBare(f)
    \/ PostCheckoutCleanup(f) \/ InitSubmodules(f) \/ VerifySignature(f) \/ FetchReturn(f)
    \/ Deactivate(f)

GitNext == RemotePush \/ \E f \in Fetchers : FetcherStep(f)
GitFairness == \A f \in Fetchers : WF_gitVars(FetcherStep(f))
GitSourceSpec == GitInit /\ [][GitNext]_gitVars /\ GitFairness

-----------------------------------------------------------------------------
\* Whatever the remote did to its refs meanwhile, a successful Apply leaves in the
\* destination exactly the tree of the commit it reports, narrowed to the Subdir when
\* one is asked for (a kept .git directory disables the narrowing), that commit or its
\* tag matches the pinned checksum, and it is what the spec named if it named a hash
\* (Fetch, fetch.go:82-148).  A spec that names the hash of a tag object gets the tag
\* object reported, though spec.go:206-207 says never; in every other case it is a commit.
TreeIsResult ==
    \A f \in Fetchers : gitPc[f] = "done" /\ gitOut[f] = "ok" =>
        LET s == gitSpec[f] r == gitResult[f] IN
        /\ r.commit \in GitCommits \/ (r.commit \in GitTags /\ r.commit = s.ref)
        /\ gitDst[f].tree = Peel(r.commit)
        /\ gitDst[f].part = IF s.subdir /\ ~s.keep THEN "subdir" ELSE "whole"
        /\ s.sum # NoObj => s.sum \in {r.commit, r.tag}
        /\ r.tag # NoObj => GitTagTarget[r.tag] = r.commit
        /\ IsCommitSHA(s.ref) => r.commit = s.ref

\* A success under a SignatureVerifyConfig means that a trusted signature covers the
\* checked-out tree: its commit's, or that of the tag object pointing at it; where tags
\* are required and not ignored, a tag that was found is signed; where they are ignored
\* the commit is (verifySignature, fetch.go:797-839, runs after the checkout).
SignatureCovers ==
    \A f \in Fetchers : gitPc[f] = "done" /\ gitOut[f] = "ok" /\ gitSpec[f].sig # "none" =>
        LET s == gitSpec[f] r == gitResult[f] tree == gitDst[f].tree IN
        /\ tree \in GitSigned \/ (r.tag \in GitSigned /\ GitTagTarget[r.tag] = tree)
        /\ s.sig = "requireTag" /\ r.tag # NoObj => r.tag \in GitSigned
        /\ s.sig \in {"ignoreTag", "requireIgnore"} => tree \in GitSigned

\* Nothing of a finished Apply stays behind: no bare or staging directory, credential
\* file, agent socket or remote lock on any path, but what a RemoveAll failed to remove;
\* on success no mount, mount point or .git link either, and a kept .git neither mentions
\* the deleted bare directory nor keeps FETCH_HEAD (deferred calls of Fetch, checkoutPlain
\* and Activate).
NothingLeftBehind ==
    \A f \in Fetchers : gitPc[f] = "done" =>
        /\ gitHeld[f] \subseteq {"mount", "mountdir", "gitlink", "litter"}
        /\ \A r \in GitRemotes : f \notin gitLocks[r]
        /\ gitOut[f] = "ok" => gitHeld[f] \subseteq {"litter"} /\ gitDst[f].git \in {{}, {"repo"}}

\* At most one caller works on a remote between its lock and its return, so two bare
\* fetches of one remote never overlap (lockForRemote, fetch.go:150-160).
OneFetchPerRemote ==
    \A f, g \in Fetchers :
        /\ f # g /\ gitSpec[f].remote = gitSpec[g].remote
        /\ "bare" \in gitHeld[f]
        => "bare" \notin gitHeld[g]

\* Every Apply returns, although callers of one remote wait for each other and every
\* git command may fail.
GitReturns == \A f \in Fetchers : gitPc[f] = "activate" ~> gitPc[f] = "done"

\* A git fetch beside others of its remote, while refs move and commands fail: the tree is the
\* one reported and signed for, and nothing is left behind.
GitSound == GitTypeOK /\ TreeIsResult /\ SignatureCovers /\ NothingLeftBehind /\ OneFetchPerRemote
=============================================================================
