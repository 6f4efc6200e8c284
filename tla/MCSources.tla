----------------------------- MODULE MCSources -----------------------------
(***************************************************************************)
(* The two sources of snapshot content, git and HTTP, side by side: they   *)
(* share no state, so a behaviour exercises one of them.                   *)
(***************************************************************************)
EXTENDS GitSource, HTTPSource, TLC
CONSTANTS f1, f2, c1, c2, t1, h1, h2, good, other, bad, big
VARIABLE source

Plain == [remote |-> "r", annotated |-> TRUE, wellFormed |-> TRUE, ref |-> "v", sum |-> NoObj, subdir |-> FALSE, keep |-> FALSE,
          skipSub |-> FALSE, ssh |-> FALSE, hosts |-> FALSE, sig |-> "none"]
\* One caller alone with each kind of spec, and two callers of one remote.
Alone ==
    {Plain, [Plain EXCEPT !.wellFormed = FALSE],
     [Plain EXCEPT !.ref = TagRef, !.keep = TRUE, !.hosts = TRUE, !.sig = "any"],
     [Plain EXCEPT !.ref = "", !.keep = TRUE, !.sum = c2, !.ssh = TRUE],
     [Plain EXCEPT !.ref = c1, !.sum = c1, !.skipSub = TRUE, !.sig = "ignoreTag"],
     [Plain EXCEPT !.ref = TagRef, !.subdir = TRUE, !.sig = "requireTag", !.sum = t1],
     [Plain EXCEPT !.ref = t1, !.sum = t1, !.sig = "any"],
     [Plain EXCEPT !.ref = TagRef, !.sig = "requireIgnore"]}
MCGitCalls ==
    {[f \in Fetchers |-> IF f = f1 THEN a ELSE [Plain EXCEPT !.annotated = FALSE]] : a \in Alone}
    \cup {[f \in Fetchers |-> IF f = f1 THEN Plain ELSE [Plain EXCEPT !.ref = c1, !.skipSub = TRUE]]}
MCParents == [c \in GitCommits |-> IF c = c1 THEN {} ELSE {c1}]
MCTarget == [t \in GitTags |-> c2]

MCSize == (good :> 1) @@ (other :> 1) @@ (bad :> 1) @@ (big :> 2)
E(name, kind, link) == [name |-> name, kind |-> kind, link |-> link]
MCEntries ==
    (good :> <<E("a", "file", ""), E("h", "hardlink", "a"), E("d", "dir", "")>>)
    @@ (other :> <<E("d", "symlink", "h"), E("d", "file", "")>>)
    @@ (bad :> <<E("p", "fifo", ""), E("a", "file", ""), E("v", "device", "")>>)
    @@ (big :> <<>>)
MCHttpCalls ==
    LET d == [urls |-> TRUE, scheme |-> "https", pinned |-> good, secret |-> TRUE, mounts |-> TRUE]
        none == [d EXCEPT !.urls = FALSE]
        small == [d EXCEPT !.mounts = FALSE, !.secret = FALSE]
        pair(a, b) == [c \in HttpCallers |-> IF c = h1 THEN a ELSE b]
    IN  {pair(none, none), pair(d, none), pair([d EXCEPT !.pinned = NoBody, !.secret = FALSE], none),
         pair([d EXCEPT !.scheme = "http"], small)}
Init ==
    /\ source \in {"git", "http"}
    /\ GitInit /\ (source = "http" => gitSpec = CHOOSE g \in MCGitCalls : TRUE)
    /\ (\A f \in Fetchers : gitSpec[f].annotated) => gitRefs[TagRef] = NoObj
    /\ HttpInit /\ (source = "git" => \A c \in HttpCallers : ~httpDesc[c].urls)
Git(A) == source = "git" /\ A /\ UNCHANGED <<source, httpVars>>
Http(A) == source = "http" /\ A /\ UNCHANGED <<source, gitVars>>
Next == Git(GitNext) \/ Http(HttpNext)
vars == <<source, gitVars, httpVars>>
Spec ==
    /\ Init /\ [][Next]_vars
    /\ \A f \in Fetchers : WF_vars(Git(FetcherStep(f)))
    /\ \A c \in HttpCallers : WF_vars(Http(HttpStep(c)))

-----------------------------------------------------------------------------
\* Every fetch returns, whoever waits for whom.
SourcesReturn == GitReturns /\ HttpReturns
=============================================================================
