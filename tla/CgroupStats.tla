---------------------------- MODULE CgroupStats ----------------------------
(***************************************************************************)
(* One collection of statistics (src/pkg/executors/resources): the cgroup  *)
(* controllers' pseudo-files, or the system-wide files under /proc, read   *)
(* one after the other while the cgroup may be removed; and the set-up of  *)
(* the cgroup root.                                                        *)
(*                                                                         *)
(* A pseudo-file's content is the sequence of its entries; an entry is a   *)
(* key with a number, or Bad for text that does not parse.  The integers   *)
(* have widths U32 and U64 (moduli), a microsecond is Nanos nanoseconds.   *)
(***************************************************************************)
EXTENDS Naturals, Sequences, SequencesExt, FiniteSetsExt

CONSTANTS
    StatWorlds,     \* contents of the files a collection may meet
    U32, U64,       \* moduli of the unsigned integers
    Nanos,          \* nanoseconds in a microsecond
    Bad,            \* an entry whose number does not parse
    MaxText,        \* the text "max" of a single-value file
    Absent,         \* content of a file that does not exist
    Unreadable,     \* ... that cannot be opened or read
    Unsupported,    \* ... of a feature the kernel lacks (ENOTSUP)
    Nil, Err,       \* a parser's "nothing there", and its error
    RootProcs,          \* processes of the cgroup root
    RootControllers \* controllers of cgroup.controllers

\* The files in the order the controllers are registered and read them; the first one
\* of a controller decides whether it is active.
Reads == <<
    [ctl |-> "cpu",    file |-> "cpu.stat",        kind |-> "kv",       main |-> TRUE],
    [ctl |-> "cpu",    file |-> "cpu.pressure",    kind |-> "pressure", main |-> FALSE],
    [ctl |-> "memory", file |-> "memory.stat",     kind |-> "kv",       main |-> TRUE],
    [ctl |-> "memory", file |-> "memory.pressure", kind |-> "pressure", main |-> FALSE],
    [ctl |-> "memory", file |-> "memory.events",   kind |-> "kv",       main |-> FALSE],
    [ctl |-> "memory", file |-> "memory.peak",     kind |-> "single",   main |-> FALSE],
    [ctl |-> "memory", file |-> "memory.swap",     kind |-> "single",   main |-> FALSE],
    [ctl |-> "io",     file |-> "io.stat",         kind |-> "io",       main |-> TRUE],
    [ctl |-> "io",     file |-> "io.pressure",     kind |-> "pressure", main |-> FALSE],
    [ctl |-> "pids",   file |-> "pids.current",    kind |-> "single",   main |-> TRUE],
    [ctl |-> "pids",   file |-> "pids.max",        kind |-> "single",   main |-> FALSE] >>
SysReads == <<
    [ctl |-> "stat",    file |-> "proc.stat",       kind |-> "proc",     main |-> TRUE],
    [ctl |-> "meminfo", file |-> "proc.meminfo",    kind |-> "proc",     main |-> TRUE],
    [ctl |-> "cpu",     file |-> "proc.cpu",        kind |-> "pressure", main |-> TRUE],
    [ctl |-> "memory",  file |-> "proc.memory",     kind |-> "pressure", main |-> TRUE],
    [ctl |-> "io",      file |-> "proc.io",         kind |-> "pressure", main |-> TRUE] >>

VARIABLES
    statMode,   \* "cgroup": Registry.Collect; "sys": collectSysSample
    statFiles,  \* content of every file
    statGone,   \* the cgroup: there, removed, or removed while a file was being read
    statPc,     \* index of the next read, 0 before the start
    statCur,    \* the controller's statistic being filled: file -> parsed value
    statSample, \* the sample: controller -> statistic
    statFirst,  \* controller of the first error
    statOut,    \* what the callback returned: none, sample or error
    prepPc, prepLeft, prepRoot, prepInit, prepOn   \* prepareCgroupControllers

prepVars == <<prepPc, prepLeft, prepRoot, prepInit, prepOn>>
collectVars == <<statMode, statFiles, statGone, statPc, statCur, statSample, statFirst, statOut>>
statVars == <<collectVars, prepVars>>

Empty == [x \in {} |-> 0]
Plan == IF statMode = "cgroup" THEN Reads ELSE SysReads
Controllers == {Plan[i].ctl : i \in 1..Len(Plan)}
StatTypeOK ==
    /\ statPc \in 0..(Len(Plan) + 2)
    /\ statFirst \in Controllers \cup {"none", "network"}
    /\ DOMAIN statSample \subseteq Controllers \cup {"network"}
    /\ statOut \in {"none", "sample", "error"}
    /\ prepRoot \subseteq RootProcs /\ prepInit \subseteq RootProcs /\ prepOn \subseteq RootControllers

StatInit ==
    /\ statMode \in {"cgroup", "sys"}
    /\ statFiles \in StatWorlds
    /\ statGone = "there" /\ statPc = 0
    /\ statCur = Empty /\ statSample = Empty
    /\ statFirst = "none" /\ statOut = "none"
    /\ prepPc = "start" /\ prepLeft = {} /\ prepRoot = {} /\ prepInit = {} /\ prepOn = {}

-----------------------------------------------------------------------------
\* splitKVLine and parseKVPair: entries that do not parse are skipped.
Parsed(lines) == SelectSeq(lines, LAMBDA e : e.val # Bad)

\* The conversion of each known field; other keys are ignored.
Convert(key, v) ==
    CASE key = "usec" -> (v * Nanos) % U64
      [] key = "periods" -> v % U32
      [] OTHER -> v
Known == {"usec", "periods", "anon", "oom", "rbytes", "wios", "some", "full"}

\* Variant: a device's counter replaces that of the one before.
AddFieldLast(acc, e, kind) ==
    IF e.key \notin Known THEN acc ELSE (e.key :> Convert(e.key, e.val)) @@ acc

\* One entry: fields are set, the io counters are added up over the devices.
AddField(acc, e, kind) ==
    IF e.key \notin Known THEN acc
    ELSE IF kind = "io" /\ e.key \in DOMAIN acc THEN [acc EXCEPT ![e.key] = (@ + e.val) % U64]
    ELSE (e.key :> Convert(e.key, e.val)) @@ acc

Fields(lines, kind) == FoldLeft(LAMBDA acc, e : AddField(acc, e, kind), Empty, Parsed(lines))

\* What reading one file yields: a value, nil (nothing there), or an error.
ParseFile(kind, c) ==
    IF c = Absent THEN Nil
    ELSE IF c = Unreadable THEN Err
    ELSE IF c = Unsupported THEN IF kind = "pressure" THEN Nil ELSE Err
    ELSE CASE kind \in {"kv", "pressure"} -> IF Parsed(c) = <<>> THEN Nil ELSE Fields(c, kind)
           [] kind \in {"io", "proc"} -> Fields(c, kind)
           [] kind = "single" -> IF c[1].val = MaxText THEN Nil
                                 ELSE IF c[1].val = Bad THEN Err ELSE c[1].val

Content(f) == IF statGone = "there" THEN statFiles[f] ELSE Absent

\* The index after the last read of the controller of read i.
NextController(i) ==
    LET later == {j \in i..Len(Plan) : Plan[j].ctl # Plan[i].ctl}
    IN  IF later = {} THEN Len(Plan) + 1 ELSE Min(later)

BeginCollect ==
    /\ statPc = 0 /\ statPc' = 1
    /\ UNCHANGED <<statMode, statFiles, statGone, statCur, statSample, statFirst, statOut, prepVars>>

\* The controller of read i ends with the statistic s, or with nothing.
Deliver(i, s) == statSample' = (Plan[i].ctl :> s) @@ statSample

\* Variant: the first error ends Registry.Collect.
ReadFileStop(torn) ==
    LET i == statPc
        r == Plan[i]
        v == IF torn THEN Err ELSE ParseFile(r.kind, Content(r.file))
        next == NextController(i)
        cur == IF v = Nil THEN statCur ELSE (r.file :> v) @@ statCur
    IN
    /\ statMode = "cgroup" /\ i \in 1..Len(Plan)
    /\ torn => statGone = "there"
    /\ statGone' = IF torn THEN "torn" ELSE statGone
    /\ IF v = Err
       THEN statPc' = Len(Plan) + 1 /\ statCur' = Empty /\ statFirst' = r.ctl /\ UNCHANGED statSample
       ELSE IF v = Nil /\ r.main
       THEN statPc' = next /\ statCur' = Empty /\ UNCHANGED <<statSample, statFirst>>
       ELSE IF i + 1 = next
       THEN statPc' = next /\ statCur' = Empty /\ Deliver(i, cur) /\ UNCHANGED statFirst
       ELSE statPc' = i + 1 /\ statCur' = cur /\ UNCHANGED <<statSample, statFirst>>
    /\ UNCHANGED <<statMode, statFiles, statOut, prepVars>>

\* One file of a controller's Collect; torn: the cgroup is removed between open and read.
\* An error skips the controller, and so does an inactive main file.
ReadFile(torn) ==
    LET i == statPc
        r == Plan[i]
        v == IF torn THEN Err ELSE ParseFile(r.kind, Content(r.file))
        next == NextController(i)
        cur == IF v = Nil THEN statCur ELSE (r.file :> v) @@ statCur
    IN
    /\ statMode = "cgroup" /\ i \in 1..Len(Plan)
    /\ torn => statGone = "there"
    /\ statGone' = IF torn THEN "torn" ELSE statGone
    /\ IF v = Err
       THEN /\ statPc' = next /\ statCur' = Empty /\ UNCHANGED statSample
            /\ statFirst' = IF statFirst = "none" THEN r.ctl ELSE statFirst
       ELSE IF v = Nil /\ r.main
       THEN statPc' = next /\ statCur' = Empty /\ UNCHANGED <<statSample, statFirst>>
       ELSE IF i + 1 = next
       THEN statPc' = next /\ statCur' = Empty /\ Deliver(i, cur) /\ UNCHANGED statFirst
       ELSE statPc' = i + 1 /\ statCur' = cur /\ UNCHANGED <<statSample, statFirst>>
    /\ UNCHANGED <<statMode, statFiles, statOut, prepVars>>

\* One file of collectSysSample: /proc/stat and /proc/meminfo are required, pressure is not.
ReadSys ==
    LET i == statPc
        r == Plan[i]
        v == ParseFile(r.kind, statFiles[r.file])
    IN
    /\ statMode = "sys" /\ i \in 1..Len(Plan)
    /\ IF r.kind = "proc" /\ v \in {Nil, Err}
       THEN statPc' = Len(Plan) + 1 /\ statFirst' = r.ctl /\ UNCHANGED statSample
       ELSE /\ statPc' = i + 1 /\ UNCHANGED statFirst
            /\ IF v \in {Nil, Err} THEN UNCHANGED statSample ELSE Deliver(i, r.file :> v)
    /\ UNCHANGED <<statMode, statFiles, statGone, statCur, statOut, prepVars>>

\* collectSample: an error of any controller drops the sample; then the network sampler,
\* which may be missing or fail.
Return ==
    /\ statPc = Len(Plan) + 1 /\ statPc' = statPc + 1
    /\ \E net \in IF statFirst = "none" /\ statMode = "cgroup" THEN {Nil, Err, Empty} ELSE {Nil} :
          /\ statOut' = IF statFirst # "none" \/ net = Err THEN "error" ELSE "sample"
          /\ statFirst' = IF net = Err THEN "network" ELSE statFirst
          /\ statSample' = IF net = Empty THEN ("network" :> Empty) @@ statSample ELSE statSample
    /\ UNCHANGED <<statMode, statFiles, statGone, statCur, prepVars>>

\* External: the container ends and its cgroup is removed.
RemoveCgroup ==
    /\ statMode = "cgroup" /\ statGone = "there" /\ statPc \in 1..Len(Plan) /\ statGone' = "removed"
    /\ UNCHANGED <<statMode, statFiles, statPc, statCur, statSample, statFirst, statOut, prepVars>>

-----------------------------------------------------------------------------
\* prepareCgroupControllers: nothing unless the environment asks for it; cgroup.procs of
\* the root is read, a process that starts later is not in the list.
PrepareBegin ==
    /\ prepPc = "start"
    /\ \E present \in SUBSET RootProcs, wanted \in BOOLEAN :
          /\ prepRoot' = present
          /\ prepLeft' = present
          /\ prepPc' = IF wanted THEN "move" ELSE "unasked"
    /\ UNCHANGED <<collectVars, prepInit, prepOn>>

\* External: a process of the root starts another one.
Fork(p) ==
    /\ prepPc = "move" /\ prepRoot # {} /\ p \notin prepRoot \cup prepInit
    /\ prepRoot' = prepRoot \cup {p}
    /\ UNCHANGED <<collectVars, prepPc, prepLeft, prepInit, prepOn>>

\* moveSelfToInitCgroup: a write that fails (the process is gone) ends the preparation.
MoveProc(p) ==
    /\ prepPc = "move" /\ p \in prepLeft
    /\ prepLeft' = prepLeft \ {p}
    /\ prepRoot' = prepRoot \ {p}
    /\ \/ prepInit' = prepInit \cup {p} /\ UNCHANGED prepPc
       \/ prepPc' = "failed" /\ UNCHANGED prepInit
    /\ UNCHANGED <<collectVars, prepOn>>

\* The controllers are enabled one by one; the kernel refuses while the root holds
\* processes, which is only logged.
Enable ==
    /\ prepPc = "move" /\ prepLeft = {} /\ prepPc' = "done"
    /\ prepOn' = IF prepRoot = {} THEN RootControllers ELSE {}
    /\ UNCHANGED <<collectVars, prepLeft, prepRoot, prepInit>>

StatStep == BeginCollect \/ (\E torn \in BOOLEAN : ReadFile(torn)) \/ ReadSys \/ Return
PrepareStep == PrepareBegin \/ (\E p \in RootProcs : MoveProc(p)) \/ Enable
PrepareNext == PrepareStep \/ \E p \in RootProcs : Fork(p)
StatNext == StatStep \/ RemoveCgroup

-----------------------------------------------------------------------------
\* What a file's statistic should be, told without the widths: the last entry of a key
\* counts, except that io counters are the sums over all devices.
Good(c) == {i \in 1..Len(c) : c[i].val # Bad /\ c[i].key \in Known}
Exact(kind, c) ==
    LET at(k) == {i \in Good(c) : c[i].key = k} IN
    [k \in {c[i].key : i \in Good(c)} |->
        IF kind = "io" THEN MapThenSumSet(LAMBDA i : c[i].val, at(k))
        ELSE c[Max(at(k))].val * (IF k = "usec" THEN Nanos ELSE 1)]
Fits(k, n) == n < IF k = "periods" THEN U32 ELSE U64

\* A file that makes its reader fail, and one without anything in it.  A file that answers
\* ENOTSUP fails unless it is one of pressure, though parse.go:14 and controller.go:31 have
\* it count as not there; and either file of the system that is required fails when it is
\* missing, though sys_linux.go:40 says that the sample is returned without its fields.
Fails(kind, c) ==
    \/ c = Unreadable
    \/ c = Unsupported /\ kind # "pressure"
    \/ kind = "single" /\ c \notin {Absent, Unsupported} /\ c[1].val = Bad
    \/ kind = "proc" /\ c = Absent
Inactive(kind, c) ==
    \/ c = Absent
    \/ kind = "kv" /\ c \notin {Unreadable, Unsupported} /\ \A i \in 1..Len(c) : c[i].val = Bad
    \/ kind = "single" /\ c \notin {Unreadable, Unsupported} /\ c[1].val = MaxText

\* A statistic in the sample is complete, and exact wherever the type holds it: it has the
\* value of every file of its controller that was there, unless the cgroup went away while
\* it was being read (collectCPUStat, collectMemoryStat, collectIOStat, collectPIDsStat,
\* accumulateIOField).  Values that do not fit are wrong without a word: the code checks no
\* overflow.
StatFaithful ==
    statMode = "cgroup" => \A i \in 1..Len(Plan) :
        LET r == Plan[i]
            c == statFiles[r.file]
        IN  r.ctl \in DOMAIN statSample /\ r.kind \in {"kv", "io", "pressure"} /\ c \notin {Absent, Unreadable, Unsupported}
              => LET s == statSample[r.ctl]
                     exact == Exact(r.kind, c)
                 IN  IF r.file \in DOMAIN s
                     THEN /\ DOMAIN s[r.file] = DOMAIN exact
                          /\ \A k \in DOMAIN exact : Fits(k, exact[k]) => s[r.file][k] = exact[k]
                     ELSE statGone # "there" \/ \A e \in 1..Len(c) : c[e].val = Bad

\* One controller's failure costs the sample nothing of the others: Registry.Collect goes
\* on after an error and fills in every controller that can be read (controller.go:85).
OthersCollected ==
    statMode = "cgroup" /\ statPc > Len(Plan) /\ statGone = "there" =>
        \A i \in 1..Len(Plan) :
            LET r == Plan[i] IN
            r.main => (r.ctl \in DOMAIN statSample <=>
                /\ ~Inactive(r.kind, statFiles[r.file])
                /\ \A j \in 1..Len(Plan) : Plan[j].ctl = r.ctl => ~Fails(Plan[j].kind, statFiles[Plan[j].file]))

\* A cgroup that disappears between two reads is no error: files that are not there any
\* more count as inactive controllers; the callback fails only for a file of the controller
\* it names that fails its reader, a file torn by the removal, or the network
\* (readFileIfExists, parseKVFile, parseSingleUint64File, parsePressureFile).
ErrorHasCause ==
    statOut = "error" /\ statFirst # "network" =>
        \/ statGone = "torn"
        \/ \E i \in 1..Len(Plan) : Plan[i].ctl = statFirst /\ Fails(Plan[i].kind, statFiles[Plan[i].file])

\* Enabling the controllers is refused only on account of a process that started after
\* the list was read: those of the list are out of the root by then
\* (moveSelfToInitCgroup before the writes to cgroup.subtree_control).
EnabledAfterMove ==
    prepPc = "done" => prepOn = RootControllers \/ prepRoot \ prepLeft # {}

\* A collection tells the truth about a cgroup that changes under it, with counters at the
\* limits of their types, and the root is prepared in the right order.
StatsSound == StatTypeOK /\ StatFaithful /\ OthersCollected /\ ErrorHasCause /\ EnabledAfterMove
=============================================================================
