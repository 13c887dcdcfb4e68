----------------------------- MODULE LocalFiles -----------------------------
(***************************************************************************)
(* The files that the commands of the CLI and the scripts share, and the   *)
(* ways in which they write them.                                          *)
(*                                                                         *)
(* A path names an inode, and an inode has the data: who opened a file     *)
(* goes on writing to it when the name is unlinked, or given to it by a    *)
(* rename.  Opening a file to write it empties it, and until it is written *)
(* it is Partial; whole, it holds one content, the only member of its data.*)
(***************************************************************************)
EXTENDS CaseEvaluation

CONSTANTS
    Commands,       \* calls of commands, each made at most once
    Call,           \* with which options
    Imported,       \* the datasets that were imported, by name
    SeedFiles,      \* files that may be there before, by the name of the collection
    Workloads,      \* commands that run on one machine, and the files it starts with
    NoFile,
    MaxFaults       \* bound: commands that are killed or meet an I/O error

Operations == {"evaluate", "executeJob", "reviewScript", "approve", "download", "prepare",
               "esciVerify", "reviewCreate", "sourceValidate"}

ASSUME FilesAssumption ==
    /\ NoFile \notin Commands /\ MaxFaults \in Nat
    /\ \A w \in Workloads : w.commands \subseteq Commands /\ w.files \in DOMAIN SeedFiles
    /\ \A r \in Commands : Call[r].op \in Operations

VARIABLES
    names,          \* the inode of each path there is
    data,           \* what each inode there ever was holds
    pc,             \* where each command is
    memo,           \* what it holds: its input, results, what is left to do, an open file
    traces,         \* the traces that were published
    met             \* history: the pairs of commands that ran at the same time

Partial == <<>>

vars == <<names, data, pc, memo, traces, met>>
files == <<names, data>>

Made == DOMAIN pc
Answers == {"done", "error", "broken", "crashed"}
Given(path) == <<NoFile, path>> \in DOMAIN data
Open(r) == pc[r] \notin {"ready"} \union Answers
Met(r, q) == {r, q} \in met

Blank == [input |-> NoFile, results |-> <<>>, todo |-> <<>>, handle |-> NoFile]

Init ==
    /\ \E w \in Workloads : \E seed \in {SeedFiles[w.files]} :
          /\ names = [path \in DOMAIN seed |-> <<NoFile, path>>]
          /\ data = [inode \in {NoFile} \X DOMAIN seed |-> <<seed[inode[2]]>>]
          /\ pc = [r \in w.commands |-> "ready"]
    /\ memo = [r \in Made |-> Blank]
    /\ traces = {}
    /\ met = {}

TypeOK ==
    /\ \A path \in DOMAIN names : names[path] \in DOMAIN data
    /\ \A inode \in DOMAIN data : inode[1] \in Commands \union {NoFile}
    /\ Made \subseteq Commands
    /\ \A r \in Made : /\ memo[r].handle \in DOMAIN data \union {NoFile}
                       /\ pc[r] \in {"write", "stream"} => memo[r].handle \in DOMAIN data
                       /\ pc[r] \in {"open", "write"} => memo[r].todo # <<>>
    /\ \A pair \in met : pair \subseteq Made /\ Cardinality(pair) = 2

-----------------------------------------------------------------------------
(* Reading and writing *)

Exists(path) == path \in DOMAIN names
Content(path) == data[names[path]][1]
Whole(path) == Exists(path) /\ data[names[path]] # Partial

\* Mutant: the destination itself is written.
TemporaryInPlace(path) == path

\* .json.tmp of an artifact, .name.tmp of a published dataset, .name.part of a download.
Temporary(path) == <<"temporary", path>>

Named(path, inode) ==
    [p \in DOMAIN names \union {path} |-> IF p = path THEN inode ELSE names[p]]
Unlinked(paths) == [p \in DOMAIN names \ paths |-> names[p]]
Filled(inode, what) ==
    [i \in DOMAIN data \union {inode} |-> IF i = inode THEN what ELSE data[i]]

Goto(r, to) == pc' = [pc EXCEPT ![r] = to]
Remember(r, what) == memo' = [memo EXCEPT ![r] = what]

\* A step that only reads.
Read(r, to, what) == Goto(r, to) /\ Remember(r, what) /\ UNCHANGED <<files, traces, met>>
Skip(r, to) == Goto(r, to) /\ UNCHANGED <<files, memo, traces, met>>

\* The command ends, with these names left.
End(r, answer, left) ==
    /\ Goto(r, answer)
    /\ names' = left
    /\ Remember(r, [memo[r] EXCEPT !.todo = <<>>, !.handle = NoFile])
    /\ UNCHANGED <<data, traces, met>>
Reject(r) == End(r, "error", names)

\* What memo[r].todo has to be written: pairs of a path and its content.
ToWrite(r, what) == Read(r, "open", [memo[r] EXCEPT !.todo = what])
Path(r) == memo[r].todo[1][1]

\* write_text opens the file, which creates or empties it,
OpenFile(r) ==
    LET inode == IF Exists(Path(r)) THEN names[Path(r)] ELSE <<r, Path(r)>>
    IN  /\ pc[r] = "open"
        /\ names' = Named(Path(r), inode)
        /\ data' = Filled(inode, Partial)
        /\ Remember(r, [memo[r] EXCEPT !.handle = inode])
        /\ Goto(r, "write")
        /\ UNCHANGED <<traces, met>>

\* where each command goes when all of its files are written,
AfterWriting(r) ==
    CASE Call[r].op \in {"evaluate", "sourceValidate"} -> "replace"
      [] Call[r].op = "prepare" ->
             IF memo[r].todo[1][1][3] = "quality-report.json" THEN "verify" ELSE "report"
      [] Call[r].op = "reviewCreate" -> "written"
      [] Call[r].op = "approve" ->
             IF memo[r].todo[1][1][3] = "json" THEN "readReview" ELSE "written"

\* Mutant: the next file is written without being opened.
OnwardsUnopened(r) == IF Len(memo[r].todo) > 1 THEN "write" ELSE AfterWriting(r)

Onwards(r) == IF Len(memo[r].todo) > 1 THEN "open" ELSE AfterWriting(r)

\* and writes it from the start, over what another writer has put there meanwhile.
WriteFile(r) ==
    /\ pc[r] = "write"
    /\ LET whole == <<memo[r].todo[1][2]>>
       IN  \/ data' = Filled(memo[r].handle, whole)
           \/ /\ data[memo[r].handle] \notin {Partial, whole}
              /\ data' = Filled(memo[r].handle, Partial)
    /\ Remember(r, [memo[r] EXCEPT !.todo = Tail(@), !.handle = NoFile])
    /\ Goto(r, Onwards(r))
    /\ UNCHANGED <<names, traces, met>>

Written(r) == pc[r] = "written" /\ End(r, "done", names)

\* The temporary file takes the place of whatever the destination was.
Moved(destination) ==
    [p \in (DOMAIN names \ {Temporary(destination)}) \union {destination} |->
        IF p = destination THEN names[Temporary(destination)] ELSE names[p]]

FileStep(r) == OpenFile(r) \/ WriteFile(r) \/ Written(r)
=============================================================================
