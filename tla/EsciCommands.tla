---------------------------- MODULE EsciCommands ----------------------------
(***************************************************************************)
(* The ESCI pipeline: download of the pinned sources, preparation of a     *)
(* processed subset, the packet for its human review, and its publication  *)
(* as a dataset that the source validates.                                 *)
(***************************************************************************)
EXTENDS LocalFiles

CONSTANTS
    Sources,        \* names of the pinned files, in order
    Pinned, Corrupt,
    Groups,         \* the judged queries of the source
    Titles,         \* the title of each product of the source, Unset if blank
    KeyOf           \* the seeded key of a group or case, by its query_id

Folder(version) == <<"processed", version>>
Processed(version, file) == <<"processed", version, file>>
OutputFiles == {"catalog.json", "golden-draft.json", "source-manifest.json"}
FolderFiles(version) ==
    {Processed(version, file) : file \in OutputFiles \union {"quality-report.json"}}
    \intersect DOMAIN names

\* The files there are at the start are in their folders.
ASSUME EsciAssumption ==
    \A found \in DOMAIN SeedFiles : \A path \in DOMAIN SeedFiles[found] :
        path[1] = "processed" => Folder(path[2]) \in DOMAIN SeedFiles[found]

Raw(name) == <<"raw", name>>
Pristine(name) == Whole(Raw(name)) /\ Content(Raw(name)) = Pinned

-----------------------------------------------------------------------------
(* download.py: what is left to download is in memo[r].todo. *)

Source(r) == Head(memo[r].todo)
PartOf(r) == Temporary(Raw(Source(r)))

\* A file that is there is verified, never replaced.
NextSource(r) ==
    /\ pc[r] = "download"
    /\ CASE memo[r].todo = <<>> -> End(r, "done", names)
         [] memo[r].todo # <<>> /\ ~Exists(Raw(Source(r))) -> Skip(r, "clear")
         [] memo[r].todo # <<>> /\ Pristine(Source(r)) ->
              Read(r, "download", [memo[r] EXCEPT !.todo = Tail(@)])
         [] OTHER -> Reject(r)

\* A part that is left over goes; it may be the part of another download.
ClearPart(r) == pc[r] = "clear" /\ Skip(r, IF Exists(PartOf(r)) THEN "unlink" ELSE "create")
UnlinkPart(r) ==
    /\ pc[r] = "unlink"
    /\ IF Exists(PartOf(r))
       THEN /\ names' = Unlinked({PartOf(r)})
            /\ Goto(r, "create")
            /\ UNCHANGED <<data, memo, traces, met>>
       ELSE End(r, "broken", names)

\* The part is created exclusively; failing at that removes it, whoever made it.
CreatePart(r) ==
    /\ pc[r] = "create"
    /\ IF Exists(PartOf(r)) THEN End(r, "error", Unlinked({PartOf(r)}))
       ELSE /\ names' = Named(PartOf(r), <<r, PartOf(r)>>)
            /\ data' = Filled(<<r, PartOf(r)>>, Partial)
            /\ Remember(r, [memo[r] EXCEPT !.handle = <<r, PartOf(r)>>])
            /\ Goto(r, "stream")
            /\ UNCHANGED <<traces, met>>

\* What arrives is digested, not what the file holds in the end.
StreamPart(r) ==
    /\ pc[r] = "stream"
    /\ \E arrived \in {Pinned, Corrupt} :
          /\ data' = Filled(memo[r].handle, <<arrived>>)
          /\ IF arrived = Pinned
             THEN names' = names /\ Goto(r, "place")
             ELSE names' = Unlinked({PartOf(r)}) /\ Goto(r, "error")
          /\ Remember(r, [memo[r] EXCEPT !.handle = NoFile])
          /\ UNCHANGED <<traces, met>>

\* The provider fails, before the part is made or in the middle of it.
DownloadFails(r) == pc[r] \in {"create", "stream"} /\ End(r, "error", Unlinked({PartOf(r)}))

PlacePart(r) ==
    /\ pc[r] = "place"
    /\ IF Exists(PartOf(r))
       THEN /\ names' = Moved(Raw(Source(r)))
            /\ Remember(r, [memo[r] EXCEPT !.todo = Tail(@)])
            /\ Goto(r, "download")
            /\ UNCHANGED <<data, traces, met>>
       ELSE End(r, "broken", names)

-----------------------------------------------------------------------------
(* prepare.py *)

Products(judged) == {judged[i].id : i \in DOMAIN judged}
Labels(judged) == {judged[i].label : i \in DOMAIN judged}
InSplit(S, split) == {x \in S : x.split = split}

\* The most diverse labels first, then in the order of the seeded keys.
Ranked(S, seed) ==
    LET Diversity(x) == Cardinality(Labels(x.expected))
    IN  SetToSortSeq(S, LAMBDA x, y :
            \/ Diversity(x) > Diversity(y)
            \/ Diversity(x) = Diversity(y) /\ KeyOf[seed][x.query_id] < KeyOf[seed][y.query_id])

\* _select_groups alternates the splits, until there are enough products;
\* <<>> if there never are.
Alternating(seed) ==
    LET train == Ranked(InSplit(Groups, "train"), seed)
        test == Ranked(InSplit(Groups, "test"), seed)
        Round(i) == SubSeq(train, i, Min({i, Len(train)})) \o SubSeq(test, i, Min({i, Len(test)}))
    IN  FlattenSeq([i \in 1 .. Cardinality(Groups) |-> Round(i)])
SelectedBy(s) == UNION {Products(s[i].expected) : i \in DOMAIN s}
ShortestWith(groups, target) ==
    LET enough == {n \in DOMAIN groups : Cardinality(SelectedBy(Cut(groups, n))) >= target}
    IN  IF enough = {} THEN <<>> ELSE Cut(groups, Min(enough))
SelectGroups(seed, target) == ShortestWith(Alternating(seed), target)

\* _normalize_products: who has a blank title is left out of the catalog.
WithTitle(ids) == {id \in ids : Titles[id] # Unset}

\* _build_draft_dataset: the judgments of what the catalog has, by query_id.
DraftCases(groups, valid) ==
    LET Judged(g) == SelectSeq(g.expected, LAMBDA e : e.id \in valid)
        sorted == SortSeq(groups, LAMBDA g, h : g.query_id < h.query_id)
        all == [i \in DOMAIN sorted |-> [sorted[i] EXCEPT !.expected = Judged(sorted[i])]]
    IN  SelectSeq(all, LAMBDA c : c.expected # <<>>)

VerifySources(r) ==
    /\ pc[r] = "verifySources"
    /\ IF \A i \in DOMAIN Sources : Pristine(Sources[i]) THEN Skip(r, "mkdir") ELSE Reject(r)

\* The folder is made by one command only.
MakeFolder(r) ==
    LET folder == Folder(Call[r].version)
    IN  /\ pc[r] = "mkdir"
        /\ IF Exists(folder) THEN Reject(r)
           ELSE /\ names' = Named(folder, <<r, folder>>)
                /\ data' = Filled(<<r, folder>>, <<"directory">>)
                /\ Goto(r, "select")
                /\ UNCHANGED <<memo, traces, met>>

\* Whatever fails from here on, the folder goes with all that is in it.
WithoutFolder(version) == Unlinked({Folder(version)} \union FolderFiles(version))

WriteSubset(r, groups, version) ==
    LET selected == SelectedBy(groups)
        valid == WithTitle(selected)
        draft == Sealed([version |-> version, catalog |-> version,
                         cases |-> DraftCases(groups, valid)])
    IN  IF /\ \A i \in DOMAIN Sources : Pristine(Sources[i])
           /\ groups # <<>>
           /\ selected \subseteq DOMAIN Titles
           /\ Cardinality(valid) >= Call[r].target_products
        THEN ToWrite(r, <<
                <<Processed(version, "catalog.json"), [version |-> version, ids |-> valid]>>,
                <<Processed(version, "golden-draft.json"), draft>>,
                <<Processed(version, "source-manifest.json"), "manifest">> >>)
        ELSE End(r, "error", WithoutFolder(version))
SelectSubset(r) ==
    /\ pc[r] = "select"
    /\ WriteSubset(r, SelectGroups(Call[r].seed, Call[r].target_products), Call[r].version)

\* The report has the hash of what the files hold.
WriteReport(r) ==
    LET version == Call[r].version
    IN  /\ pc[r] = "report"
        /\ ToWrite(r, << <<Processed(version, "quality-report.json"),
                [file \in OutputFiles |-> Content(Processed(version, file))]>> >>)

\* verify_processed_artifacts.
Matches(version, file) ==
    /\ Whole(Processed(version, file))
    /\ Content(Processed(version, file)) = Content(Processed(version, "quality-report.json"))[file]
Verified(version) ==
    /\ Whole(Processed(version, "quality-report.json"))
    /\ \A file \in OutputFiles : Matches(version, file)

\* By the prepare command, and by the verify command for itself.
VerifyProcessed(r) ==
    /\ pc[r] = "verify"
    /\ CASE Verified(Call[r].version) -> End(r, "done", names)
         [] ~Verified(Call[r].version) /\ Call[r].op = "prepare" ->
              End(r, "error", WithoutFolder(Call[r].version))
         [] OTHER -> Reject(r)
=============================================================================
