-------------------------- MODULE WorkstationProofs --------------------------
(***************************************************************************)
(* Theorems about the files that commands leave behind, for any commands   *)
(* at the same time, any files there are before, and any kills and errors. *)
(***************************************************************************)
EXTENDS Workstation, FiniteSetTheorems, TLAPS

-----------------------------------------------------------------------------
(* Where each command is *)

Stages ==
    [evaluate |-> {"load", "case", "look", "open", "write", "replace"},
     executeJob |-> {"loadJob", "checkJob", "case", "written"},
     reviewScript |-> {"review"},
     approve |-> {"approve", "readReview", "open", "write", "written"},
     download |-> {"download", "clear", "unlink", "create", "stream", "place"},
     prepare |-> {"verifySources", "mkdir", "select", "open", "write", "report", "verify"},
     esciVerify |-> {"verify"},
     reviewCreate |-> {"exists", "selectCases", "open", "write", "written"},
     sourceValidate |-> {"match", "verifyRecords", "open", "write", "replace"}]

\* What is left to be written.
One(r, path) == \E x : memo[r].todo = << <<path, x>> >>
Two(r, path, next) == \E x, y : memo[r].todo = << <<path, x>>, <<next, y>> >>
Three(r, path, next, last) ==
    \E x, y, z : memo[r].todo = << <<path, x>>, <<next, y>>, <<last, z>> >>
Pending(r) ==
    LET op == Call[r].op
        file(name) == Processed(Call[r].version, name)
    IN  /\ op = "evaluate" => One(r, Temporary(Artifact(r)))
        /\ op = "sourceValidate" => One(r, Temporary(Published(r)))
        /\ op = "reviewCreate" => Two(r, Draft(r), Review(r)) \/ One(r, Review(r))
        /\ op = "approve" => One(r, GoldenJson(r)) \/ One(r, GoldenReview(r))
        /\ op = "prepare" =>
              \/ Three(r, file("catalog.json"), file("golden-draft.json"),
                       file("source-manifest.json"))
              \/ Two(r, file("golden-draft.json"), file("source-manifest.json"))
              \/ One(r, file("source-manifest.json"))
              \/ One(r, file("quality-report.json"))

Staged(r) ==
    /\ pc[r] \in {"ready"} \union Answers \union Stages[Call[r].op]
    /\ pc[r] \in {"open", "write"} => Pending(r)
    /\ DOMAIN memo[r] = {"input", "results", "todo", "handle"}
StagedInv ==
    /\ Made \subseteq Commands /\ DOMAIN memo = Made
    /\ \A r \in Made : Staged(r)

\* The steps that each command takes.
Moves(r) ==
    LET op == Call[r].op
    IN  \/ Begin(r) \/ Crash(r)
        \/ /\ op \in {"evaluate", "sourceValidate", "reviewCreate", "approve", "prepare"}
           /\ OpenFile(r) \/ WriteFile(r) \/ WriteFails(r)
        \/ op \in {"executeJob", "approve", "reviewCreate"} /\ Written(r)
        \/ op = "evaluate" /\ (EvaluateLoad(r) \/ EvaluateCase(r) \/ Look(r) \/ ReplaceArtifact(r))
        \/ op = "executeJob" /\ (LoadJob(r) \/ CheckJob(r) \/ EvaluateCase(r))
        \/ op = "reviewScript" /\ ReviewGolden(r)
        \/ op = "approve" /\ (ApproveGolden(r) \/ RecordApproval(r))
        \/ /\ op = "download"
           /\ \/ NextSource(r) \/ ClearPart(r) \/ UnlinkPart(r) \/ CreatePart(r) \/ StreamPart(r)
              \/ DownloadFails(r) \/ PlacePart(r)
        \/ /\ op = "prepare"
           /\ VerifySources(r) \/ MakeFolder(r) \/ SelectSubset(r) \/ WriteReport(r)
        \/ op \in {"prepare", "esciVerify"} /\ VerifyProcessed(r)
        \/ op = "reviewCreate" /\ (CheckPacket(r) \/ CreatePacket(r))
        \/ op = "sourceValidate" /\ (MatchDraft(r) \/ VerifyRecords(r) \/ ReplacePublished(r))

\* Where each step is taken.
LEMMA Guards ==
    ASSUME NEW r
    PROVE  /\ EvaluateLoad(r) => pc[r] = "load"
           /\ EvaluateCase(r) => pc[r] = "case"
           /\ Look(r) => pc[r] = "look"
           /\ ReplaceArtifact(r) => pc[r] = "replace" /\ Call[r].op = "evaluate"
           /\ LoadJob(r) => pc[r] = "loadJob"
           /\ CheckJob(r) => pc[r] = "checkJob"
           /\ ReviewGolden(r) => pc[r] = "review"
           /\ ApproveGolden(r) => pc[r] = "approve"
           /\ RecordApproval(r) => pc[r] = "readReview"
           /\ NextSource(r) => pc[r] = "download"
           /\ ClearPart(r) => pc[r] = "clear"
           /\ UnlinkPart(r) => pc[r] = "unlink"
           /\ CreatePart(r) => pc[r] = "create"
           /\ StreamPart(r) => pc[r] = "stream"
           /\ DownloadFails(r) => pc[r] \in {"create", "stream"}
           /\ PlacePart(r) => pc[r] = "place"
           /\ VerifySources(r) => pc[r] = "verifySources"
           /\ MakeFolder(r) => pc[r] = "mkdir"
           /\ SelectSubset(r) => pc[r] = "select"
           /\ WriteReport(r) => pc[r] = "report"
           /\ VerifyProcessed(r) => pc[r] = "verify"
           /\ CheckPacket(r) => pc[r] = "exists"
           /\ CreatePacket(r) => pc[r] = "selectCases"
           /\ MatchDraft(r) => pc[r] = "match"
           /\ VerifyRecords(r) => pc[r] = "verifyRecords"
           /\ ReplacePublished(r) => pc[r] = "replace" /\ Call[r].op = "sourceValidate"
           /\ OpenFile(r) => pc[r] = "open"
           /\ WriteFile(r) => pc[r] = "write"
           /\ Written(r) => pc[r] = "written"
           /\ WriteFails(r) => pc[r] \in {"open", "write"}
           /\ Begin(r) => pc[r] = "ready"
           /\ Crash(r) => Open(r)
  BY DEF EvaluateLoad, EvaluateCase, Look, ReplaceArtifact, LoadJob, CheckJob, ReviewGolden,
     ApproveGolden, RecordApproval, NextSource, ClearPart, UnlinkPart, CreatePart, StreamPart,
     DownloadFails, PlacePart, VerifySources, MakeFolder, SelectSubset, WriteReport,
     VerifyProcessed, CheckPacket, CreatePacket, MatchDraft, VerifyRecords, ReplacePublished,
     OpenFile, WriteFile, Written, WriteFails, Begin, Crash

\* No command takes a step of another one.
LEMMA StepMoves ==
    ASSUME NEW r \in Made, Staged(r), Call[r].op \in Operations, Step(r)
    PROVE  Moves(r)
  BY Guards DEF Step, FileStep, EvaluateStep, EsciStep, Staged, Stages, Answers, Moves,
     Operations

\* A step is of one command, and leaves it where it belongs.
Frame(r) ==
    /\ Made' = Made /\ DOMAIN memo' = DOMAIN memo
    /\ \A q \in Made \ {r} : pc'[q] = pc[q] /\ memo'[q] = memo[q]

After(r, to, what) == Frame(r) /\ pc'[r] = to /\ memo'[r] = what
Settle(r, to) == After(r, to, [memo[r] EXCEPT !.todo = <<>>, !.handle = NoFile])

\* What the steps that the commands are made of do to where a command is.
LEMMA Helpers ==
    ASSUME NEW r \in Made, DOMAIN memo = Made
    PROVE  /\ \A to, what : Goto(r, to) /\ Remember(r, what) => After(r, to, what)
           /\ \A to : Goto(r, to) /\ memo' = memo => After(r, to, memo[r])
           /\ \A to, what : Read(r, to, what) =>
                  After(r, to, what) /\ names' = names /\ data' = data /\ met' = met
           /\ \A to : Skip(r, to) =>
                  After(r, to, memo[r]) /\ names' = names /\ data' = data /\ met' = met
           /\ \A to, left : End(r, to, left) =>
                  Settle(r, to) /\ names' = left /\ data' = data /\ met' = met
           /\ Reject(r) => Settle(r, "error") /\ names' = names /\ data' = data /\ met' = met
           /\ \A what : ToWrite(r, what) =>
                  /\ After(r, "open", [memo[r] EXCEPT !.todo = what])
                  /\ names' = names /\ data' = data /\ met' = met
  <1> USE DEF Made, Frame
  <1>1. \A to, what : Goto(r, to) /\ Remember(r, what) => After(r, to, what)
    BY DEF Goto, Remember, After
  <1>2. \A to : Goto(r, to) /\ memo' = memo => After(r, to, memo[r])
    BY DEF Goto, After
  <1>3. \A to, what : Read(r, to, what) =>
            After(r, to, what) /\ names' = names /\ data' = data /\ met' = met
    BY <1>1 DEF Read, files
  <1>4. \A to : Skip(r, to) =>
            After(r, to, memo[r]) /\ names' = names /\ data' = data /\ met' = met
    BY <1>2 DEF Skip, files
  <1>5. \A to, left : End(r, to, left) =>
            Settle(r, to) /\ names' = left /\ data' = data /\ met' = met
    BY <1>1 DEF End, Settle
  <1> QED
    BY <1>1, <1>2, <1>3, <1>4, <1>5 DEF Reject, ToWrite

\* The ways in which each step changes its command.
Same == names' = names /\ data' = data
Gains(r, to, field, what) ==
    /\ After(r, to, memo'[r]) /\ DOMAIN memo'[r] = DOMAIN memo[r]
    /\ \A other \in DOMAIN memo[r] \ {field} : memo'[r][other] = memo[r][other]
    /\ field \in DOMAIN memo[r] => memo'[r][field] = what
Asks(r, what) == Gains(r, "open", "todo", what) /\ Same

\* A step that changes one field of what a command holds leaves the others.
LEMMA Gaining ==
    ASSUME NEW r \in Made, DOMAIN memo = Made
    PROVE  /\ \A to, what : After(r, to, [memo[r] EXCEPT !.input = what]) =>
                  Gains(r, to, "input", what)
           /\ \A to, what : After(r, to, [memo[r] EXCEPT !.results = what]) =>
                  Gains(r, to, "results", what)
           /\ \A to, what : After(r, to, [memo[r] EXCEPT !.todo = what]) =>
                  Gains(r, to, "todo", what)
           /\ \A to, what : After(r, to, [memo[r] EXCEPT !.handle = what]) =>
                  Gains(r, to, "handle", what)
           /\ \A what : ToWrite(r, what) => Asks(r, what)
  <1>1. \A to, what : After(r, to, [memo[r] EXCEPT !.input = what]) => Gains(r, to, "input", what)
    BY DEF After, Gains
  <1>2. \A to, what : After(r, to, [memo[r] EXCEPT !.results = what]) =>
            Gains(r, to, "results", what)
    BY DEF After, Gains
  <1>3. \A to, what : After(r, to, [memo[r] EXCEPT !.todo = what]) => Gains(r, to, "todo", what)
    BY DEF After, Gains
  <1>4. \A to, what : After(r, to, [memo[r] EXCEPT !.handle = what]) => Gains(r, to, "handle", what)
    BY DEF After, Gains
  <1>5. ASSUME NEW what, ToWrite(r, what)
        PROVE  Asks(r, what)
    BY Helpers, <1>3, <1>5 DEF Asks, Same
  <1> QED
    BY <1>1, <1>2, <1>3, <1>4, <1>5

\* The steps of all commands,
LEMMA FileOutcome ==
    ASSUME NEW r \in Made, DOMAIN memo = Made
    PROVE  /\ Begin(r) /\ Call[r].op # "download" =>
                  After(r, FirstStep[Call[r].op], memo[r]) /\ Same
           /\ Begin(r) /\ Call[r].op = "download" => Gains(r, "download", "todo", Sources) /\ Same
           /\ Crash(r) => Settle(r, "crashed") /\ Same
           /\ WriteFails(r) => Settle(r, "broken") /\ names' = CleanedUp(r) /\ data' = data
           /\ Written(r) => Settle(r, "done") /\ Same
           /\ OpenFile(r) => \E inode : Gains(r, "write", "handle", inode)
           /\ WriteFile(r) => After(r, Onwards(r),
                                    [memo[r] EXCEPT !.todo = Tail(@), !.handle = NoFile])
  <1> USE Helpers, Gaining DEF Same
  <1>1. Begin(r) /\ Call[r].op # "download" => After(r, FirstStep[Call[r].op], memo[r]) /\ Same
    BY DEF Begin, files, FirstStep
  <1>2. Begin(r) /\ Call[r].op = "download" => Gains(r, "download", "todo", Sources) /\ Same
    BY DEF Begin, files, FirstStep
  <1>3. Crash(r) => Settle(r, "crashed") /\ Same
    BY DEF Crash
  <1>4. WriteFails(r) => Settle(r, "broken") /\ names' = CleanedUp(r) /\ data' = data
    BY DEF WriteFails
  <1>5. Written(r) => Settle(r, "done") /\ Same
    BY DEF Written
  <1>6. OpenFile(r) => \E inode : Gains(r, "write", "handle", inode)
    BY DEF OpenFile
  <1>7. WriteFile(r) => After(r, Onwards(r),
                              [memo[r] EXCEPT !.todo = Tail(@), !.handle = NoFile])
    BY DEF WriteFile
  <1> QED
    BY <1>1, <1>2, <1>3, <1>4, <1>5, <1>6, <1>7

\* those of an evaluation and of the two scripts,
LEMMA EvaluateOutcome ==
    ASSUME NEW r \in Made, DOMAIN memo = Made
    PROVE  /\ EvaluateLoad(r) =>
                  /\ \/ Gains(r, "case", "input", Content(Call[r].path))
                     \/ Settle(r, "error")
                  /\ Same
           /\ EvaluateCase(r) =>
                  /\ \/ \E slow, to : 
                           /\ Gains(r, to, "results", Append(memo[r].results,
                                    ResultOf(r, Cases(r)[Len(memo[r].results) + 1], slow)))
                           /\ to \in {"case", IF Call[r].op = "evaluate" THEN "look" ELSE "written"}
                     \/ Settle(r, "error")
                  /\ Same
           /\ Look(r) =>
                  \/ /\ ~Exists(Artifact(r))
                     /\ Asks(r, << <<Temporary(Artifact(r)), [results |-> memo[r].results]>> >>)
                  \/ SameResults(r) /\ Settle(r, "done") /\ Same
                  \/ Settle(r, "error") /\ Same
           /\ ReplaceArtifact(r) =>
                  /\ \/ /\ Settle(r, "done") /\ names' = Moved(Artifact(r))
                        /\ Exists(Temporary(Artifact(r)))
                     \/ Settle(r, "broken") /\ names' = names
                  /\ data' = data
           /\ LoadJob(r) =>
                  /\ \/ Gains(r, "checkJob", "input", Reconstructed(Imported[Call[r].dataset]))
                     \/ Settle(r, "error")
                  /\ Same
           /\ CheckJob(r) =>
                  /\ \/ After(r, "case", memo[r]) \/ After(r, "written", memo[r])
                     \/ Settle(r, "error")
                  /\ Same
           /\ ReviewGolden(r) =>
                  /\ \/ \E to, x, y : /\ After(r, to, [memo[r] EXCEPT !.input = x, !.results = y])
                                   /\ to \in {"done", "error"}
                     \/ Settle(r, "error")
                  /\ Same
           /\ ApproveGolden(r) =>
                  \/ Asks(r, << <<GoldenJson(r), Approved(Content(GoldenDraft(r)))>> >>)
                  \/ Settle(r, "error") /\ Same
           /\ RecordApproval(r) =>
                  \/ Settle(r, "error") /\ Same
                  \/ \E what : /\ Exists(GoldenReview(r)) /\ Asks(r, << <<GoldenReview(r), what>> >>)
                               /\ Whole(GoldenReview(r)) =>
                                      what = [Content(GoldenReview(r)) EXCEPT !.approvals = @ + 1]
  <1> USE Helpers, Gaining DEF Same
  <1>1. EvaluateLoad(r) =>
            (Gains(r, "case", "input", Content(Call[r].path)) \/ Settle(r, "error")) /\ Same
    BY DEF EvaluateLoad
  <1>2. EvaluateCase(r) =>
            /\ \/ \E slow, to : 
                     /\ Gains(r, to, "results", Append(memo[r].results,
                              ResultOf(r, Cases(r)[Len(memo[r].results) + 1], slow)))
                     /\ to \in {"case", IF Call[r].op = "evaluate" THEN "look" ELSE "written"}
               \/ Settle(r, "error")
            /\ Same
    BY DEF EvaluateCase, files
  <1>3. Look(r) =>
            \/ /\ ~Exists(Artifact(r))
               /\ Asks(r, << <<Temporary(Artifact(r)), [results |-> memo[r].results]>> >>)
            \/ SameResults(r) /\ Settle(r, "done") /\ Same
            \/ Settle(r, "error") /\ Same
    BY DEF Look
  <1>4. ReplaceArtifact(r) =>
            /\ \/ /\ Settle(r, "done") /\ names' = Moved(Artifact(r))
                  /\ Exists(Temporary(Artifact(r)))
               \/ Settle(r, "broken") /\ names' = names
            /\ data' = data
    BY DEF ReplaceArtifact
  <1>5. LoadJob(r) =>
            /\ \/ Gains(r, "checkJob", "input", Reconstructed(Imported[Call[r].dataset]))
               \/ Settle(r, "error")
            /\ Same
    BY DEF LoadJob
  <1>6. CheckJob(r) =>
            /\ After(r, "case", memo[r]) \/ After(r, "written", memo[r]) \/ Settle(r, "error")
            /\ Same
    BY DEF CheckJob
  <1>7. ReviewGolden(r) =>
            /\ \/ \E to, x, y : /\ After(r, to, [memo[r] EXCEPT !.input = x, !.results = y])
                             /\ to \in {"done", "error"}
               \/ Settle(r, "error")
            /\ Same
    <2> DEFINE draft == Content(GoldenDraft(r))
               verdicts == [i \in DOMAIN draft.body.cases |->
                               ReviewVerdict(draft.body.cases[i], Call[r].catalog)]
               to == IF "FAIL" \in ToSet(verdicts) THEN "error" ELSE "done"
    <2>1. ReviewGolden(r) =>
              \/ Read(r, to, [memo[r] EXCEPT !.input = draft, !.results = verdicts])
              \/ Reject(r)
      BY DEF ReviewGolden
    <2>2. to \in {"done", "error"}
      OBVIOUS
    <2> HIDE DEF to, draft, verdicts
    <2> QED
      BY <2>1, <2>2
  <1>8. ApproveGolden(r) =>
            \/ Asks(r, << <<GoldenJson(r), Approved(Content(GoldenDraft(r)))>> >>)
            \/ Settle(r, "error") /\ Same
    BY DEF ApproveGolden
  <1>9. RecordApproval(r) =>
            \/ Settle(r, "error") /\ Same
            \/ \E what : /\ Exists(GoldenReview(r)) /\ Asks(r, << <<GoldenReview(r), what>> >>)
                         /\ Whole(GoldenReview(r)) =>
                                what = [Content(GoldenReview(r)) EXCEPT !.approvals = @ + 1]
    <2> DEFINE path == GoldenReview(r)
               more == [Content(path) EXCEPT !.approvals = @ + 1]
    <2>1. RecordApproval(r) =>
              \/ Reject(r)
              \/ Exists(path) /\ ~Whole(path) /\ \E what : ToWrite(r, << <<path, what>> >>)
              \/ Whole(path) /\ ToWrite(r, << <<path, more>> >>)
      BY DEF RecordApproval
    <2>2. Whole(path) => Exists(path)
      BY DEF Whole
    <2> HIDE DEF path, more
    <2>3. RecordApproval(r) =>
              \/ Settle(r, "error") /\ Same
              \/ \E what : /\ Exists(path) /\ Asks(r, << <<path, what>> >>)
                           /\ Whole(path) => what = more
      BY <2>1, <2>2
    <2> QED
      BY <2>3 DEF path, more
  <1> QED
    BY <1>1, <1>2, <1>3, <1>4, <1>5, <1>6, <1>7, <1>8, <1>9

\* and those of the pipeline.
LEMMA EsciOutcome ==
    ASSUME NEW r \in Made, DOMAIN memo = Made
    PROVE  /\ NextSource(r) =>
                  /\ \/ memo[r].todo = <<>> /\ Settle(r, "done")
                     \/ /\ memo[r].todo # <<>> /\ ~Exists(Raw(Source(r)))
                        /\ After(r, "clear", memo[r])
                     \/ memo[r].todo # <<>> /\ Gains(r, "download", "todo", Tail(memo[r].todo))
                     \/ Settle(r, "error")
                  /\ Same
           /\ ClearPart(r) =>
                  (After(r, "unlink", memo[r]) \/ After(r, "create", memo[r])) /\ Same
           /\ UnlinkPart(r) =>
                  /\ \/ After(r, "create", memo[r]) /\ names' = Unlinked({PartOf(r)})
                     \/ Settle(r, "broken") /\ names' = names
                  /\ data' = data
           /\ CreatePart(r) =>
                  \/ Settle(r, "error") /\ names' = Unlinked({PartOf(r)}) /\ data' = data
                  \/ /\ ~Exists(PartOf(r)) /\ Gains(r, "stream", "handle", <<r, PartOf(r)>>)
                     /\ names' = Named(PartOf(r), <<r, PartOf(r)>>)
                     /\ data' = Filled(<<r, PartOf(r)>>, Partial)
           /\ StreamPart(r) =>
                  /\ \E arrived : data' = Filled(memo[r].handle, <<arrived>>)
                  /\ \/ Gains(r, "place", "handle", NoFile) /\ names' = names
                     \/ Gains(r, "error", "handle", NoFile) /\ names' = Unlinked({PartOf(r)})
           /\ DownloadFails(r) =>
                  Settle(r, "error") /\ names' = Unlinked({PartOf(r)}) /\ data' = data
           /\ PlacePart(r) =>
                  /\ \/ /\ Exists(PartOf(r)) /\ names' = Moved(Raw(Source(r)))
                        /\ Gains(r, "download", "todo", Tail(memo[r].todo))
                     \/ Settle(r, "broken") /\ names' = names
                  /\ data' = data
           /\ VerifySources(r) =>
                  (After(r, "mkdir", memo[r]) \/ Settle(r, "error")) /\ Same
           /\ MakeFolder(r) =>
                  \/ Settle(r, "error") /\ Same
                  \/ LET folder == Folder(Call[r].version)
                     IN  /\ ~Exists(folder) /\ After(r, "select", memo[r])
                         /\ names' = Named(folder, <<r, folder>>)
                         /\ data' = Filled(<<r, folder>>, <<"directory">>)
           /\ SelectSubset(r) =>
                  \/ Settle(r, "error") /\ names' = WithoutFolder(Call[r].version) /\ data' = data
                  \/ \E x, y, z :
                        Asks(r, << <<Processed(Call[r].version, "catalog.json"), x>>,
                                   <<Processed(Call[r].version, "golden-draft.json"), y>>,
                                   <<Processed(Call[r].version, "source-manifest.json"), z>> >>)
           /\ WriteReport(r) =>
                  Asks(r, << <<Processed(Call[r].version, "quality-report.json"),
                              [file \in OutputFiles |-> Content(Processed(Call[r].version, file))]>> >>)
           /\ VerifyProcessed(r) =>
                  \/ Verified(Call[r].version) /\ Settle(r, "done") /\ Same
                  \/ /\ ~Verified(Call[r].version) /\ Settle(r, "error") /\ data' = data
                     /\ names' = IF Call[r].op = "prepare" THEN WithoutFolder(Call[r].version) ELSE names
           /\ CheckPacket(r) =>
                  \/ ~Exists(Draft(r)) /\ ~Exists(Review(r)) /\ After(r, "selectCases", memo[r]) /\ Same
                  \/ Settle(r, "error") /\ Same
           /\ CreatePacket(r) =>
                  \/ \E selected, review : /\ Asks(r, << <<Draft(r), selected>>, <<Review(r), review>> >>)
                                           /\ "of" \in DOMAIN review /\ review.of = selected
                  \/ Settle(r, "error") /\ Same
           /\ MatchDraft(r) =>
                  \/ /\ ~Exists(Published(r)) /\ Gains(r, "verifyRecords", "input", Content(Call[r].path)) /\ Same
                     /\ Whole(Processed(Call[r].artifact, "golden-draft.json"))
                     /\ MatchesSource(Content(Call[r].path),
                                      Content(Processed(Call[r].artifact, "golden-draft.json")))
                  \/ Settle(r, "error") /\ Same
           /\ VerifyRecords(r) =>
                  \/ LET selected == memo[r].input
                         catalog == Content(Processed(Call[r].artifact, "catalog.json"))
                     IN  /\ Verified(Call[r].artifact) /\ Judgments(selected.body.cases) \subseteq catalog.ids
                         /\ Asks(r, << <<Temporary(Published(r)),
                                 Sealed([version |-> selected.body.version, catalog |-> selected.body.catalog,
                                         source_draft |-> selected.hash, source_catalog |-> catalog,
                                         cases |-> selected.body.cases])>> >>)
                  \/ Settle(r, "error") /\ Same
           /\ ReplacePublished(r) =>
                  \/ /\ Exists(Temporary(Published(r))) /\ Settle(r, "done")
                     /\ names' = Moved(Published(r)) /\ data' = data
                  \/ Settle(r, "error") /\ Same
  <1> USE Helpers, Gaining DEF Same
  <1>1. NextSource(r) =>
            /\ \/ memo[r].todo = <<>> /\ Settle(r, "done")
               \/ /\ memo[r].todo # <<>> /\ ~Exists(Raw(Source(r)))
                  /\ After(r, "clear", memo[r])
               \/ memo[r].todo # <<>> /\ Gains(r, "download", "todo", Tail(memo[r].todo))
               \/ Settle(r, "error")
            /\ Same
    BY DEF NextSource, files
  <1>2. ClearPart(r) =>
            (After(r, "unlink", memo[r]) \/ After(r, "create", memo[r])) /\ Same
    BY DEF ClearPart, files
  <1>3. UnlinkPart(r) =>
            /\ \/ After(r, "create", memo[r]) /\ names' = Unlinked({PartOf(r)})
               \/ Settle(r, "broken") /\ names' = names
            /\ data' = data
    BY DEF UnlinkPart, Settle, files
  <1>4. CreatePart(r) =>
            \/ Settle(r, "error") /\ names' = Unlinked({PartOf(r)}) /\ data' = data
            \/ /\ ~Exists(PartOf(r)) /\ Gains(r, "stream", "handle", <<r, PartOf(r)>>)
               /\ names' = Named(PartOf(r), <<r, PartOf(r)>>)
               /\ data' = Filled(<<r, PartOf(r)>>, Partial)
    BY DEF CreatePart, files
  <1>5. StreamPart(r) =>
            /\ \E arrived : data' = Filled(memo[r].handle, <<arrived>>)
            /\ \/ Gains(r, "place", "handle", NoFile) /\ names' = names
               \/ Gains(r, "error", "handle", NoFile) /\ names' = Unlinked({PartOf(r)})
    BY DEF StreamPart, files
  <1>6. DownloadFails(r) =>
            Settle(r, "error") /\ names' = Unlinked({PartOf(r)}) /\ data' = data
    BY DEF DownloadFails, files
  <1>7. PlacePart(r) =>
            /\ \/ /\ Exists(PartOf(r)) /\ names' = Moved(Raw(Source(r)))
                  /\ Gains(r, "download", "todo", Tail(memo[r].todo))
               \/ Settle(r, "broken") /\ names' = names
            /\ data' = data
    BY DEF PlacePart, files
  <1>8. VerifySources(r) =>
            (After(r, "mkdir", memo[r]) \/ Settle(r, "error")) /\ Same
    BY DEF VerifySources, files
  <1>9. MakeFolder(r) =>
            \/ Settle(r, "error") /\ Same
            \/ LET folder == Folder(Call[r].version)
               IN  /\ ~Exists(folder) /\ After(r, "select", memo[r])
                   /\ names' = Named(folder, <<r, folder>>)
                   /\ data' = Filled(<<r, folder>>, <<"directory">>)
    BY DEF MakeFolder, files
  <1>10. SelectSubset(r) =>
            \/ Settle(r, "error") /\ names' = WithoutFolder(Call[r].version) /\ data' = data
            \/ \E x, y, z :
                  Asks(r, << <<Processed(Call[r].version, "catalog.json"), x>>,
                             <<Processed(Call[r].version, "golden-draft.json"), y>>,
                             <<Processed(Call[r].version, "source-manifest.json"), z>> >>)
    BY DEF SelectSubset, WriteSubset, files
  <1>11. WriteReport(r) =>
            Asks(r, << <<Processed(Call[r].version, "quality-report.json"),
                        [file \in OutputFiles |-> Content(Processed(Call[r].version, file))]>> >>)
    BY DEF WriteReport, files
  <1>12. VerifyProcessed(r) =>
            \/ Verified(Call[r].version) /\ Settle(r, "done") /\ Same
            \/ /\ ~Verified(Call[r].version) /\ Settle(r, "error") /\ data' = data
               /\ names' = IF Call[r].op = "prepare" THEN WithoutFolder(Call[r].version) ELSE names
    BY DEF VerifyProcessed, files
  <1>13. CheckPacket(r) =>
            \/ ~Exists(Draft(r)) /\ ~Exists(Review(r)) /\ After(r, "selectCases", memo[r]) /\ Same
            \/ Settle(r, "error") /\ Same
    BY DEF CheckPacket, files
  <1>14. CreatePacket(r) =>
            \/ \E selected, review : /\ Asks(r, << <<Draft(r), selected>>, <<Review(r), review>> >>)
                                     /\ "of" \in DOMAIN review /\ review.of = selected
            \/ Settle(r, "error") /\ Same
    <2> DEFINE from == Call[r].artifact
               selected == SelectCases(Content(Processed(from, "golden-draft.json")),
                               Call[r].case_count, Call[r].seed, Call[r].version)
               review == Rendered(selected, Content(Processed(from, "quality-report.json")))
    <2>1. CreatePacket(r) =>
              \/ ToWrite(r, << <<Draft(r), selected>>, <<Review(r), review>> >>)
              \/ Reject(r)
      BY DEF CreatePacket
    <2>2. "of" \in DOMAIN review /\ review.of = selected
      BY DEF Rendered
    <2> HIDE DEF selected, review
    <2> QED
      BY <2>1, <2>2
  <1>15. MatchDraft(r) =>
            \/ /\ ~Exists(Published(r)) /\ Gains(r, "verifyRecords", "input", Content(Call[r].path)) /\ Same
               /\ Whole(Processed(Call[r].artifact, "golden-draft.json"))
               /\ MatchesSource(Content(Call[r].path),
                                Content(Processed(Call[r].artifact, "golden-draft.json")))
            \/ Settle(r, "error") /\ Same
    <2>1. MatchDraft(r) =>
              \/ /\ ~Exists(Published(r)) /\ Whole(Processed(Call[r].artifact, "golden-draft.json"))
                 /\ MatchesSource(Content(Call[r].path),
                                  Content(Processed(Call[r].artifact, "golden-draft.json")))
                 /\ Read(r, "verifyRecords", [memo[r] EXCEPT !.input = Content(Call[r].path)])
              \/ Reject(r)
      BY DEF MatchDraft, Loadable
    <2> QED
      BY <2>1
  <1>16. VerifyRecords(r) =>
            \/ LET selected == memo[r].input
                   catalog == Content(Processed(Call[r].artifact, "catalog.json"))
               IN  /\ Verified(Call[r].artifact) /\ Judgments(selected.body.cases) \subseteq catalog.ids
                   /\ Asks(r, << <<Temporary(Published(r)),
                           Sealed([version |-> selected.body.version, catalog |-> selected.body.catalog,
                                   source_draft |-> selected.hash, source_catalog |-> catalog,
                                   cases |-> selected.body.cases])>> >>)
            \/ Settle(r, "error") /\ Same
    BY DEF VerifyRecords, files
  <1>17. ReplacePublished(r) =>
            \/ /\ Exists(Temporary(Published(r))) /\ Settle(r, "done")
               /\ names' = Moved(Published(r)) /\ data' = data
            \/ Settle(r, "error") /\ Same
    BY DEF ReplacePublished, files
  <1> QED
    BY <1>1, <1>2, <1>3, <1>4, <1>5, <1>6, <1>7, <1>8, <1>9, <1>10, <1>11, <1>12, <1>13, <1>14,
       <1>15, <1>16, <1>17

\* What these outcomes do to where a command is.
LEMMA Asking ==
    ASSUME NEW r \in Made, Staged(r), NEW what, Asks(r, what)
    PROVE  /\ Frame(r) /\ pc'[r] = "open" /\ memo'[r].todo = what
           /\ memo'[r].input = memo[r].input /\ memo'[r].results = memo[r].results
           /\ memo'[r].handle = memo[r].handle
           /\ "open" \in Stages[Call[r].op] /\ Pending(r)' => Staged(r)'
  BY DEF Asks, Gains, After, Staged

Lands(r, to) ==
    \E what : /\ After(r, to, what) /\ DOMAIN what = DOMAIN memo[r]
              /\ \/ what.handle \in {memo[r].handle, NoFile}
                 \/ to = "stream" /\ what.todo = memo[r].todo /\ what.handle = <<r, PartOf(r)>>

\* The outcomes of steps after which a command holds no file that it did not hold before.
LEMMA Ways ==
    ASSUME NEW r, NEW to, "handle" \in DOMAIN memo[r], "todo" \in DOMAIN memo[r]
    PROVE  /\ After(r, to, memo[r]) => Lands(r, to)
           /\ Settle(r, to) => Lands(r, to)
           /\ \A field, what :
                  Gains(r, to, field, what) /\ (field = "handle" => what = NoFile) => Lands(r, to)
           /\ Gains(r, "stream", "handle", <<r, PartOf(r)>>) => Lands(r, "stream")
           /\ \A x, y : After(r, to, [memo[r] EXCEPT !.input = x, !.results = y]) => Lands(r, to)
  <1>1. After(r, to, memo[r]) => Lands(r, to)
    BY DEF Lands
  <1>2. Settle(r, to) => Lands(r, to)
    <2> DEFINE what == [memo[r] EXCEPT !.todo = <<>>, !.handle = NoFile]
    <2>1. DOMAIN what = DOMAIN memo[r] /\ what.handle = NoFile
      OBVIOUS
    <2> HIDE DEF what
    <2>2. After(r, to, what) => Lands(r, to)
      BY <2>1 DEF Lands
    <2> QED
      BY <2>2 DEF Settle, what
  <1>3. ASSUME NEW field, NEW what, Gains(r, to, field, what), field = "handle" => what = NoFile
        PROVE  Lands(r, to)
    <2>1. memo'[r].handle \in {memo[r].handle, NoFile}
      BY <1>3 DEF Gains
    <2> QED
      BY <1>3, <2>1 DEF Lands, Gains
  <1>4. Gains(r, "stream", "handle", <<r, PartOf(r)>>) => Lands(r, "stream")
    BY DEF Lands, Gains
  <1>5. ASSUME NEW x, NEW y, After(r, to, [memo[r] EXCEPT !.input = x, !.results = y])
        PROVE  Lands(r, to)
    <2> DEFINE what == [memo[r] EXCEPT !.input = x, !.results = y]
    <2>1. DOMAIN what = DOMAIN memo[r] /\ what.handle = memo[r].handle
      OBVIOUS
    <2> HIDE DEF what
    <2>2. After(r, to, what) => Lands(r, to)
      BY <2>1 DEF Lands
    <2> QED
      BY <1>5, <2>2 DEF what
  <1> QED
    BY <1>1, <1>2, <1>3, <1>4, <1>5

\* Who lands at a stage of its operation that has nothing to write is well staged there.
LEMMA Landing ==
    ASSUME NEW r \in Made, Staged(r), NEW to, Lands(r, to), to \notin {"open", "write"},
           to \in Stages[Call[r].op] \union Answers
    PROVE  Frame(r) /\ Staged(r)'
  BY DEF Lands, After, Gains, Settle, Staged, Answers

\* Where each step lands, those aside that leave something to write.
LEMMA Outcomes ==
    ASSUME NEW r \in Made, DOMAIN memo = Made, Staged(r)
    PROVE  /\ Begin(r) => Lands(r, FirstStep[Call[r].op])
           /\ Crash(r) => Lands(r, "crashed")
           /\ WriteFails(r) => Lands(r, "broken")
           /\ Written(r) => Lands(r, "done")
           /\ EvaluateLoad(r) => Lands(r, "case") \/ Lands(r, "error")
           /\ EvaluateCase(r) =>
                  \/ Lands(r, "case") \/ Lands(r, "error")
                  \/ Lands(r, IF Call[r].op = "evaluate" THEN "look" ELSE "written")
           /\ ReplaceArtifact(r) => Lands(r, "done") \/ Lands(r, "broken")
           /\ LoadJob(r) => Lands(r, "checkJob") \/ Lands(r, "error")
           /\ CheckJob(r) => Lands(r, "case") \/ Lands(r, "written") \/ Lands(r, "error")
           /\ ReviewGolden(r) => Lands(r, "done") \/ Lands(r, "error")
           /\ NextSource(r) =>
                  \/ Lands(r, "done") \/ Lands(r, "clear") \/ Lands(r, "download")
                  \/ Lands(r, "error")
           /\ ClearPart(r) => Lands(r, "unlink") \/ Lands(r, "create")
           /\ UnlinkPart(r) => Lands(r, "create") \/ Lands(r, "broken")
           /\ CreatePart(r) => Lands(r, "stream") \/ Lands(r, "error")
           /\ StreamPart(r) => Lands(r, "place") \/ Lands(r, "error")
           /\ DownloadFails(r) => Lands(r, "error")
           /\ PlacePart(r) => Lands(r, "download") \/ Lands(r, "broken")
           /\ VerifySources(r) => Lands(r, "mkdir") \/ Lands(r, "error")
           /\ MakeFolder(r) => Lands(r, "select") \/ Lands(r, "error")
           /\ VerifyProcessed(r) => Lands(r, "done") \/ Lands(r, "error")
           /\ CheckPacket(r) => Lands(r, "selectCases") \/ Lands(r, "error")
           /\ MatchDraft(r) => Lands(r, "verifyRecords") \/ Lands(r, "error")
           /\ ReplacePublished(r) => Lands(r, "done") \/ Lands(r, "error")
           /\ SelectSubset(r) =>
                  \/ Lands(r, "error")
                  \/ \E x, y, z :
                        Asks(r, << <<Processed(Call[r].version, "catalog.json"), x>>,
                                   <<Processed(Call[r].version, "golden-draft.json"), y>>,
                                   <<Processed(Call[r].version, "source-manifest.json"), z>> >>)
           /\ WriteReport(r) =>
                  \E x : Asks(r, << <<Processed(Call[r].version, "quality-report.json"), x>> >>)
           /\ CreatePacket(r) =>
                  \/ Lands(r, "error")
                  \/ \E x, y : Asks(r, << <<Draft(r), x>>, <<Review(r), y>> >>)
           /\ VerifyRecords(r) =>
                  \/ Lands(r, "error")
                  \/ \E x : Asks(r, << <<Temporary(Published(r)), x>> >>)
           /\ Look(r) =>
                  \/ Lands(r, "error") \/ Lands(r, "done")
                  \/ \E x : Asks(r, << <<Temporary(Artifact(r)), x>> >>)
           /\ ApproveGolden(r) =>
                  \/ Lands(r, "error") \/ \E x : Asks(r, << <<GoldenJson(r), x>> >>)
           /\ RecordApproval(r) =>
                  \/ Lands(r, "error") \/ \E x : Asks(r, << <<GoldenReview(r), x>> >>)
  <1>0. "handle" \in DOMAIN memo[r] /\ "todo" \in DOMAIN memo[r]
    BY DEF Staged
  <1> USE <1>0, Ways
  <1>1. Begin(r) => Lands(r, FirstStep[Call[r].op])
    <2>1. FirstStep["download"] = "download"
      BY DEF FirstStep
    <2> QED
      BY <2>1, FileOutcome
  <1>2. Crash(r) => Lands(r, "crashed")
    BY FileOutcome
  <1>3. WriteFails(r) => Lands(r, "broken")
    BY FileOutcome
  <1>4. Written(r) => Lands(r, "done")
    BY FileOutcome
  <1>5. EvaluateLoad(r) => Lands(r, "case") \/ Lands(r, "error")
    BY EvaluateOutcome
  <1>6. EvaluateCase(r) =>
            \/ Lands(r, "case") \/ Lands(r, "error")
            \/ Lands(r, IF Call[r].op = "evaluate" THEN "look" ELSE "written")
    BY EvaluateOutcome
  <1>7. ReplaceArtifact(r) => Lands(r, "done") \/ Lands(r, "broken")
    BY EvaluateOutcome
  <1>8. LoadJob(r) => Lands(r, "checkJob") \/ Lands(r, "error")
    BY EvaluateOutcome
  <1>9. CheckJob(r) => Lands(r, "case") \/ Lands(r, "written") \/ Lands(r, "error")
    BY EvaluateOutcome
  <1>10. ReviewGolden(r) => Lands(r, "done") \/ Lands(r, "error")
    BY EvaluateOutcome
  <1>11. NextSource(r) =>
            \/ Lands(r, "done") \/ Lands(r, "clear") \/ Lands(r, "download")
            \/ Lands(r, "error")
    BY EsciOutcome
  <1>12. ClearPart(r) => Lands(r, "unlink") \/ Lands(r, "create")
    BY EsciOutcome
  <1>13. UnlinkPart(r) => Lands(r, "create") \/ Lands(r, "broken")
    BY EsciOutcome
  <1>14. CreatePart(r) => Lands(r, "stream") \/ Lands(r, "error")
    BY EsciOutcome
  <1>15. StreamPart(r) => Lands(r, "place") \/ Lands(r, "error")
    BY EsciOutcome
  <1>16. DownloadFails(r) => Lands(r, "error")
    BY EsciOutcome
  <1>17. PlacePart(r) => Lands(r, "download") \/ Lands(r, "broken")
    BY EsciOutcome
  <1>18. VerifySources(r) => Lands(r, "mkdir") \/ Lands(r, "error")
    BY EsciOutcome
  <1>19. MakeFolder(r) => Lands(r, "select") \/ Lands(r, "error")
    BY EsciOutcome
  <1>20. VerifyProcessed(r) => Lands(r, "done") \/ Lands(r, "error")
    BY EsciOutcome
  <1>21. CheckPacket(r) => Lands(r, "selectCases") \/ Lands(r, "error")
    BY EsciOutcome
  <1>22. MatchDraft(r) => Lands(r, "verifyRecords") \/ Lands(r, "error")
    BY EsciOutcome
  <1>23. ReplacePublished(r) => Lands(r, "done") \/ Lands(r, "error")
    BY EsciOutcome
  <1>24. SelectSubset(r) =>
            \/ Lands(r, "error")
            \/ \E x, y, z :
                  Asks(r, << <<Processed(Call[r].version, "catalog.json"), x>>,
                             <<Processed(Call[r].version, "golden-draft.json"), y>>,
                             <<Processed(Call[r].version, "source-manifest.json"), z>> >>)
    BY EsciOutcome
  <1>25. WriteReport(r) =>
            \E x : Asks(r, << <<Processed(Call[r].version, "quality-report.json"), x>> >>)
    BY EsciOutcome
  <1>26. CreatePacket(r) =>
            \/ Lands(r, "error")
            \/ \E x, y : Asks(r, << <<Draft(r), x>>, <<Review(r), y>> >>)
    BY EsciOutcome
  <1>27. VerifyRecords(r) =>
            \/ Lands(r, "error")
            \/ \E x : Asks(r, << <<Temporary(Published(r)), x>> >>)
    BY EsciOutcome
  <1>28. Look(r) =>
            \/ Lands(r, "error") \/ Lands(r, "done")
            \/ \E x : Asks(r, << <<Temporary(Artifact(r)), x>> >>)
    BY EvaluateOutcome
  <1>29. ApproveGolden(r) =>
            \/ Lands(r, "error") \/ \E x : Asks(r, << <<GoldenJson(r), x>> >>)
    BY EvaluateOutcome
  <1>30. RecordApproval(r) =>
            \/ Lands(r, "error") \/ \E x : Asks(r, << <<GoldenReview(r), x>> >>)
    BY EvaluateOutcome
  <1> QED
    BY <1>1, <1>2, <1>3, <1>4, <1>5, <1>6, <1>7, <1>8, <1>9, <1>10, <1>11, <1>12, <1>13, <1>14,
       <1>15, <1>16, <1>17, <1>18, <1>19, <1>20, <1>21, <1>22, <1>23, <1>24, <1>25, <1>26, <1>27,
       <1>28, <1>29, <1>30

\* The rest of what is pending is pending.
LEMMA PendingTail ==
    ASSUME NEW r \in Made, Staged(r), pc[r] = "write", Call[r].op \in Operations,
           memo'[r].todo = Tail(memo[r].todo), memo'[r].input = memo[r].input
    PROVE  /\ Onwards(r) \in Stages[Call[r].op] \ {"write"}
           /\ Onwards(r) = "open" => Pending(r)'
  <1>1. Pending(r)
    BY DEF Staged
  <1>2. "write" \in Stages[Call[r].op]
    BY DEF Staged, Answers
  <1>3. Call[r].op \in {"evaluate", "sourceValidate", "reviewCreate", "approve", "prepare"}
    BY <1>2 DEF Stages, Operations
  <1>4. ASSUME NEW path, One(r, path)
        PROVE  Onwards(r) = AfterWriting(r) /\ memo[r].todo[1][1] = path
    BY <1>4 DEF One, Onwards
  <1>5. ASSUME NEW path, NEW next, Two(r, path, next)
        PROVE  Onwards(r) = "open" /\ One(r, next)'
    BY <1>5 DEF Two, One, Onwards
  <1>6. ASSUME NEW path, NEW next, NEW last, Three(r, path, next, last)
        PROVE  Onwards(r) = "open" /\ Two(r, next, last)'
    BY <1>6 DEF Two, Three, Onwards
  <1>7. CASE Call[r].op \in {"evaluate", "sourceValidate"}
    BY <1>1, <1>4, <1>7 DEF Pending, AfterWriting, Stages
  <1>8. CASE Call[r].op = "reviewCreate"
    BY <1>1, <1>4, <1>5, <1>8 DEF Pending, AfterWriting, Stages, Draft, Review, Packet
  <1>9. CASE Call[r].op = "approve"
    BY <1>1, <1>4, <1>9 DEF Pending, AfterWriting, Stages, GoldenJson, GoldenReview
  <1>10. CASE Call[r].op = "prepare"
    BY <1>1, <1>4, <1>5, <1>6, <1>10 DEF Pending, AfterWriting, Stages, Processed
  <1> QED
    BY <1>3, <1>7, <1>8, <1>9, <1>10

\* A step keeps the command that takes it well staged.
LEMMA MoveStaged ==
    ASSUME NEW r \in Made, DOMAIN memo = Made, Staged(r), Call[r].op \in Operations, Moves(r)
    PROVE  Frame(r) /\ Staged(r)'
  <1> DEFINE op == Call[r].op
             ok == Frame(r) /\ Staged(r)'
             Allowed(to) ==
                 to \notin {"open", "write"} /\ to \in Stages[op] \union Answers
  <1>0. \A to : Lands(r, to) /\ Allowed(to) => ok
    BY Landing
  <1>1. Begin(r) => ok
    <2> Allowed(FirstStep[op])
      BY DEF FirstStep, Stages, Operations
    <2> QED
      BY <1>0, Outcomes
  <1>2. Crash(r) \/ WriteFails(r) \/ Written(r) => ok
    <2> Allowed("crashed") /\ Allowed("broken") /\ Allowed("done")
      BY DEF Answers
    <2> QED
      BY <1>0, Outcomes
  <1>5. OpenFile(r) => ok
    <2> SUFFICES ASSUME OpenFile(r)
                 PROVE  ok
      OBVIOUS
    <2>1. PICK inode : Gains(r, "write", "handle", inode)
      BY FileOutcome
    <2>2. /\ memo'[r].todo = memo[r].todo /\ memo'[r].input = memo[r].input
          /\ DOMAIN memo'[r] = DOMAIN memo[r] /\ pc'[r] = "write" /\ Frame(r)
      BY <2>1 DEF Gains, After, Staged
    <2>3. Pending(r) /\ "write" \in Stages[op]
      BY Guards DEF Staged, Stages, Answers, Operations
    <2>4. Pending(r)'
      BY <2>2, <2>3 DEF Pending, One, Two, Three, Artifact, Config
    <2> QED
      BY <2>2, <2>3, <2>4 DEF Staged
  <1>6. WriteFile(r) => ok
    <2> SUFFICES ASSUME WriteFile(r)
                 PROVE  ok
      OBVIOUS
    <2>1. pc[r] = "write" /\ After(r, Onwards(r), [memo[r] EXCEPT !.todo = Tail(@), !.handle = NoFile])
      BY FileOutcome, Guards
    <2>2. /\ memo'[r].todo = Tail(memo[r].todo) /\ memo'[r].input = memo[r].input
          /\ DOMAIN memo'[r] = DOMAIN memo[r] /\ pc'[r] = Onwards(r) /\ Frame(r)
      BY <2>1 DEF After, Staged
    <2> QED
      BY <2>1, <2>2, PendingTail DEF Staged
  <1>7. CASE op = "evaluate"
    <2>1. Allowed("case") /\ Allowed("look") /\ Allowed("done") /\ Allowed("error") /\ Allowed("broken")
      BY <1>7 DEF Stages, Answers
    <2>2. EvaluateLoad(r) \/ EvaluateCase(r) \/ ReplaceArtifact(r) => ok
      BY <1>0, <1>7, <2>1, Outcomes
    <2>3. Look(r) => ok
      <3>1. ASSUME NEW x, Asks(r, << <<Temporary(Artifact(r)), x>> >>)
            PROVE  ok
        <4>1. memo'[r].todo = << <<Temporary(Artifact(r)), x>> >> /\ memo'[r].input = memo[r].input
          BY <3>1, Asking
        <4>2. Artifact(r)' = Artifact(r)
          BY <4>1 DEF Artifact, Config
        <4>3. One(r, Temporary(Artifact(r)))'
          BY <4>1, <4>2 DEF One, Temporary
        <4> QED
          BY <1>7, <3>1, <4>3, Asking DEF Pending, Stages
      <3> QED
        BY <3>1, <1>0, <2>1, Outcomes
    <2> QED
      BY <2>2, <2>3, <1>7, <1>1, <1>2, <1>5, <1>6 DEF Moves
  <1>8. CASE op = "executeJob"
    <2>1. Allowed("case") /\ Allowed("checkJob") /\ Allowed("written") /\ Allowed("error")
      BY <1>8 DEF Stages, Answers
    <2>2. LoadJob(r) \/ CheckJob(r) \/ EvaluateCase(r) => ok
      BY <1>0, <1>8, <2>1, Outcomes
    <2> QED
      BY <2>2, <1>8, <1>1, <1>2 DEF Moves
  <1>9. CASE op = "reviewScript"
    <2>1. Allowed("done") /\ Allowed("error")
      BY DEF Answers
    <2>2. ReviewGolden(r) => ok
      BY <1>0, <2>1, Outcomes
    <2> QED
      BY <2>2, <1>9, <1>1, <1>2 DEF Moves
  <1>10. CASE op = "approve"
    <2>1. Allowed("error")
      BY DEF Answers
    <2>2. ASSUME NEW path \in {GoldenJson(r), GoldenReview(r)}, NEW x, Asks(r, << <<path, x>> >>)
          PROVE  ok
      BY <1>10, <2>2, Asking DEF Pending, One, GoldenJson, GoldenReview, Stages
    <2>3. ApproveGolden(r) \/ RecordApproval(r) => ok
      BY <2>2, <1>0, <2>1, Outcomes
    <2> QED
      BY <2>3, <1>10, <1>1, <1>2, <1>5, <1>6 DEF Moves
  <1>11. CASE op = "download"
    <2>1. /\ Allowed("done") /\ Allowed("error") /\ Allowed("broken") /\ Allowed("clear")
          /\ Allowed("download") /\ Allowed("unlink") /\ Allowed("create") /\ Allowed("stream")
          /\ Allowed("place")
      BY <1>11 DEF Stages, Answers
    <2>2. NextSource(r) \/ ClearPart(r) \/ UnlinkPart(r) \/ CreatePart(r) \/ StreamPart(r)
              \/ DownloadFails(r) \/ PlacePart(r) => ok
      BY <1>0, <2>1, Outcomes
    <2> QED
      BY <2>2, <1>11, <1>1, <1>2 DEF Moves
  <1>12. CASE op = "prepare"
    <2>1. Allowed("mkdir") /\ Allowed("select") /\ Allowed("done") /\ Allowed("error")
      BY <1>12 DEF Stages, Answers
    <2>2. VerifySources(r) \/ MakeFolder(r) \/ VerifyProcessed(r) => ok
      BY <1>0, <2>1, Outcomes
    <2>3. SelectSubset(r) => ok
      <3>1. ASSUME NEW x, NEW y, NEW z,
                   Asks(r, << <<Processed(Call[r].version, "catalog.json"), x>>,
                              <<Processed(Call[r].version, "golden-draft.json"), y>>,
                              <<Processed(Call[r].version, "source-manifest.json"), z>> >>)
            PROVE  ok
        BY <1>12, <3>1, Asking DEF Pending, Three, Stages
      <3> QED
        BY <3>1, <1>0, <2>1, Outcomes
    <2>4. WriteReport(r) => ok
      <3>1. ASSUME NEW x, Asks(r, << <<Processed(Call[r].version, "quality-report.json"), x>> >>)
            PROVE  ok
        BY <1>12, <3>1, Asking DEF Pending, One, Stages
      <3> QED
        BY <3>1, Outcomes
    <2> QED
      BY <2>2, <2>3, <2>4, <1>12, <1>1, <1>2, <1>5, <1>6 DEF Moves
  <1>13. CASE op = "esciVerify"
    <2>1. Allowed("done") /\ Allowed("error")
      BY DEF Answers
    <2>2. VerifyProcessed(r) => ok
      BY <1>0, <2>1, Outcomes
    <2> QED
      BY <2>2, <1>13, <1>1, <1>2 DEF Moves
  <1>14. CASE op = "reviewCreate"
    <2>1. Allowed("selectCases") /\ Allowed("error")
      BY <1>14 DEF Stages, Answers
    <2>2. CheckPacket(r) => ok
      BY <1>0, <2>1, Outcomes
    <2>3. CreatePacket(r) => ok
      <3>1. ASSUME NEW x, NEW y, Asks(r, << <<Draft(r), x>>, <<Review(r), y>> >>)
            PROVE  ok
        BY <1>14, <3>1, Asking DEF Pending, Two, Draft, Review, Stages
      <3> QED
        BY <3>1, <1>0, <2>1, Outcomes
    <2> QED
      BY <2>2, <2>3, <1>14, <1>1, <1>2, <1>5, <1>6 DEF Moves
  <1>15. CASE op = "sourceValidate"
    <2>1. Allowed("verifyRecords") /\ Allowed("done") /\ Allowed("error")
      BY <1>15 DEF Stages, Answers
    <2>2. MatchDraft(r) \/ ReplacePublished(r) => ok
      BY <1>0, <2>1, Outcomes
    <2>3. VerifyRecords(r) => ok
      <3>1. ASSUME NEW x, Asks(r, << <<Temporary(Published(r)), x>> >>)
            PROVE  ok
        BY <1>15, <3>1, Asking DEF Pending, One, Published, Stages
      <3> QED
        BY <3>1, <1>0, <2>1, Outcomes
    <2> QED
      BY <2>2, <2>3, <1>15, <1>1, <1>2, <1>5, <1>6 DEF Moves
  <1> QED
    BY <1>7, <1>8, <1>9, <1>10, <1>11, <1>12, <1>13, <1>14, <1>15 DEF Operations

\* A step keeps all commands well staged, and only changes the one that takes it.
LEMMA StepStaged ==
    ASSUME StagedInv, NEW r \in Made, Step(r)
    PROVE  StagedInv' /\ Frame(r) /\ Moves(r)
  <1>1. Staged(r) /\ DOMAIN memo = Made /\ Made \subseteq Commands
    BY DEF StagedInv
  <1>2. Call[r].op \in Operations
    BY <1>1, FilesAssumption
  <1>3. Moves(r)
    BY <1>1, <1>2, StepMoves
  <1>4. Frame(r) /\ Staged(r)'
    BY <1>1, <1>2, <1>3, MoveStaged
  <1>5. ASSUME NEW q \in Made, q # r
        PROVE  Staged(q)'
    <2>1. Staged(q) /\ pc'[q] = pc[q] /\ memo'[q] = memo[q]
      BY <1>4, <1>5 DEF Frame, StagedInv
    <2>2. Artifact(q)' = Artifact(q)
      BY <2>1 DEF Artifact, Config
    <2>3. Pending(q) => Pending(q)'
      BY <2>1, <2>2 DEF Pending, One, Two, Three
    <2> QED
      BY <2>1, <2>3 DEF Staged
  <1> QED
    BY <1>1, <1>3, <1>4, <1>5 DEF StagedInv, Frame

\* At the start all commands are ready.
LEMMA InitStaged ==
    ASSUME Init
    PROVE  StagedInv
  <1>1. PICK w \in Workloads : pc = [r \in w.commands |-> "ready"]
    BY DEF Init
  <1>2. Made = w.commands /\ Made \subseteq Commands
    BY <1>1, FilesAssumption DEF Made
  <1> QED
    BY <1>1, <1>2 DEF Init, StagedInv, Staged, Blank

-----------------------------------------------------------------------------
(* Who runs at the same time *)

\* A command that begins meets those that run, and nothing else is recorded.
LEMMA Meeting ==
    ASSUME NEW r \in Made, DOMAIN memo = Made, Moves(r)
    PROVE  Begin(r) \/ (met' = met /\ Open(r))
  <1> USE Helpers
  <1>1. EvaluateLoad(r) => met' = met
    BY DEF EvaluateLoad
  <1>2. EvaluateCase(r) => met' = met
    BY DEF EvaluateCase
  <1>3. Look(r) => met' = met
    BY DEF Look
  <1>4. ReplaceArtifact(r) => met' = met
    BY DEF ReplaceArtifact
  <1>5. LoadJob(r) => met' = met
    BY DEF LoadJob
  <1>6. CheckJob(r) => met' = met
    BY DEF CheckJob
  <1>7. ReviewGolden(r) => met' = met
    BY DEF ReviewGolden
  <1>8. ApproveGolden(r) => met' = met
    BY DEF ApproveGolden
  <1>9. RecordApproval(r) => met' = met
    BY DEF RecordApproval
  <1>10. NextSource(r) => met' = met
    BY DEF NextSource
  <1>11. ClearPart(r) => met' = met
    BY DEF ClearPart
  <1>12. UnlinkPart(r) => met' = met
    BY DEF UnlinkPart
  <1>13. CreatePart(r) => met' = met
    BY DEF CreatePart
  <1>14. StreamPart(r) => met' = met
    BY DEF StreamPart
  <1>15. DownloadFails(r) => met' = met
    BY DEF DownloadFails
  <1>16. PlacePart(r) => met' = met
    BY DEF PlacePart
  <1>17. VerifySources(r) => met' = met
    BY DEF VerifySources
  <1>18. MakeFolder(r) => met' = met
    BY DEF MakeFolder
  <1>19. SelectSubset(r) => met' = met
    BY DEF SelectSubset, WriteSubset
  <1>20. WriteReport(r) => met' = met
    BY DEF WriteReport
  <1>21. VerifyProcessed(r) => met' = met
    BY DEF VerifyProcessed
  <1>22. CheckPacket(r) => met' = met
    BY DEF CheckPacket
  <1>23. CreatePacket(r) => met' = met
    BY DEF CreatePacket
  <1>24. MatchDraft(r) => met' = met
    BY DEF MatchDraft
  <1>25. VerifyRecords(r) => met' = met
    BY DEF VerifyRecords
  <1>26. ReplacePublished(r) => met' = met
    BY DEF ReplacePublished
  <1>27. OpenFile(r) => met' = met
    BY DEF OpenFile
  <1>28. WriteFile(r) => met' = met
    BY DEF WriteFile
  <1>29. Written(r) => met' = met
    BY DEF Written
  <1>30. WriteFails(r) => met' = met
    BY DEF WriteFails
  <1>31. Crash(r) => met' = met
    BY DEF Crash
  <1>32. SUFFICES ASSUME ~Begin(r)
        PROVE  met' = met /\ Open(r)
    OBVIOUS
  <1>33. met' = met
    BY <1>1, <1>2, <1>3, <1>4, <1>5, <1>6, <1>7, <1>8, <1>9, <1>10, <1>11, <1>12, <1>13, <1>14,
       <1>15, <1>16, <1>17, <1>18, <1>19, <1>20, <1>21, <1>22, <1>23, <1>24, <1>25, <1>26, <1>27,
       <1>28, <1>29, <1>30, <1>31, <1>32 DEF Moves
  <1>34. Open(r)
    BY <1>32, Guards DEF Moves, Open, Answers
  <1> QED
    BY <1>33, <1>34

AllMet == \A r, q \in Made : r # q /\ Open(r) /\ Open(q) => Met(r, q)

\* The commands that run have met, whatever step one of them takes.
LEMMA StepMet ==
    ASSUME StagedInv, AllMet, NEW r \in Made, Step(r)
    PROVE  AllMet' /\ met \subseteq met'
  <1>1. Frame(r) /\ Moves(r) /\ DOMAIN memo = Made
    BY StepStaged DEF StagedInv
  <1>2. CASE Begin(r)
    <2>1. met' = met \union {{r, q} : q \in {q \in Made \ {r} : Open(q)}}
      BY <1>2 DEF Begin
    <2>2. \A q \in Made \ {r} : Open(q)' => Open(q)
      BY <1>1 DEF Frame, Open
    <2> QED
      BY <1>1, <2>1, <2>2 DEF AllMet, Met, Frame
  <1>3. CASE met' = met /\ Open(r)
    BY <1>1, <1>3 DEF AllMet, Met, Frame, Open
  <1> QED
    BY <1>1, <1>2, <1>3, Meeting

-----------------------------------------------------------------------------
(* What each step does to the files *)

\* The steps that only a command of theirs takes and that change files.
Noisy(r) ==
    LET op == Call[r].op
    IN  \/ OpenFile(r) \/ WriteFile(r) \/ WriteFails(r)
        \/ op = "evaluate" /\ ReplaceArtifact(r)
        \/ op = "sourceValidate" /\ ReplacePublished(r)
        \/ op = "download" /\ (UnlinkPart(r) \/ CreatePart(r) \/ StreamPart(r) \/ DownloadFails(r))
        \/ op = "download" /\ PlacePart(r)
        \/ op = "prepare" /\ (MakeFolder(r) \/ SelectSubset(r) \/ VerifyProcessed(r))

\* All other steps leave the files alone.
LEMMA Noise ==
    ASSUME NEW r \in Made, DOMAIN memo = Made, Moves(r)
    PROVE  Noisy(r) \/ Same
  <1>1. Begin(r) \/ Crash(r) \/ Written(r) => Same
    BY FileOutcome
  <1>2. EvaluateLoad(r) \/ EvaluateCase(r) \/ LoadJob(r) \/ CheckJob(r) => Same
    BY EvaluateOutcome
  <1>3. Look(r) \/ ReviewGolden(r) \/ ApproveGolden(r) \/ RecordApproval(r) => Same
    BY EvaluateOutcome DEF Asks
  <1>4. NextSource(r) \/ ClearPart(r) \/ VerifySources(r) \/ CheckPacket(r) => Same
    BY EsciOutcome
  <1>5. WriteReport(r) \/ CreatePacket(r) \/ MatchDraft(r) \/ VerifyRecords(r) => Same
    BY EsciOutcome DEF Asks
  <1>6. VerifyProcessed(r) /\ Call[r].op # "prepare" => Same
    BY EsciOutcome DEF Same
  <1> QED
    BY <1>1, <1>2, <1>3, <1>4, <1>5, <1>6 DEF Moves, Noisy

\* Nothing is done to the names but those in paths, and to the data but of those inodes.
Leaves(paths) ==
    \A p : p \notin paths => /\ p \in DOMAIN names' <=> p \in DOMAIN names
                             /\ p \in DOMAIN names => names'[p] = names[p]
Keeps(inodes) ==
    /\ DOMAIN data \subseteq DOMAIN data' /\ DOMAIN data' \subseteq DOMAIN data \union inodes
    /\ \A i \in DOMAIN data : i \notin inodes => data'[i] = data[i]

\* What naming, unlinking, moving and filling do to the files.
LEMMA Leaving ==
    /\ names' = names => Leaves({})
    /\ \A p, i : names' = Named(p, i) => Leaves({p}) /\ p \in DOMAIN names' /\ names'[p] = i
    /\ \A paths : names' = Unlinked(paths) =>
           Leaves(paths) /\ \A p \in paths : p \notin DOMAIN names'
    /\ \A d : names' = Moved(d) /\ d # Temporary(d) =>
           /\ Leaves({d, Temporary(d)}) /\ d \in DOMAIN names' /\ Temporary(d) \notin DOMAIN names'
           /\ names'[d] = names[Temporary(d)]
    /\ data' = data => Keeps({})
    /\ \A i, x : data' = Filled(i, x) => Keeps({i}) /\ i \in DOMAIN data' /\ data'[i] = x
  <1>1. names' = names => Leaves({})
    BY DEF Leaves
  <1>2. \A p, i : names' = Named(p, i) => Leaves({p}) /\ p \in DOMAIN names' /\ names'[p] = i
    BY DEF Named, Leaves
  <1>3. \A paths : names' = Unlinked(paths) =>
            Leaves(paths) /\ \A p \in paths : p \notin DOMAIN names'
    BY DEF Unlinked, Leaves
  <1>4. \A d : names' = Moved(d) /\ d # Temporary(d) =>
            /\ Leaves({d, Temporary(d)}) /\ d \in DOMAIN names' /\ Temporary(d) \notin DOMAIN names'
            /\ names'[d] = names[Temporary(d)]
    BY DEF Moved, Leaves
  <1>5. data' = data => Keeps({})
    BY DEF Keeps
  <1>6. \A i, x : data' = Filled(i, x) => Keeps({i}) /\ i \in DOMAIN data' /\ data'[i] = x
    BY DEF Filled, Keeps
  <1> QED
    BY <1>1, <1>2, <1>3, <1>4, <1>5, <1>6

-----------------------------------------------------------------------------
(* Who reaches which files *)

\* The names that only a rename gives to a file.
Destined(path) ==
    \/ \E config : path = <<"runs", config>>
    \/ \E version : path = Packet(version, "published")
    \/ path[1] = "raw"

\* The kinds of paths differ.
LEMMA Paths ==
    /\ \A p : Temporary(p)[1] = "temporary" /\ Temporary(p)[2] = p /\ ~Destined(Temporary(p))
    /\ \A v : Folder(v)[1] = "processed" /\ Folder(v)[2] = v /\ ~Destined(Folder(v))
    /\ \A v, f : /\ Processed(v, f)[1] = "processed" /\ Processed(v, f)[2] = v
                 /\ Processed(v, f)[3] = f /\ ~Destined(Processed(v, f))
                 /\ \A w : Processed(v, f) # Folder(w)
    /\ \A v, f : /\ Packet(v, f)[1] = "goldens" /\ Packet(v, f)[2] = v /\ Packet(v, f)[3] = f
                 /\ Destined(Packet(v, f)) <=> f = "published"
    /\ \A n : Raw(n)[1] = "raw" /\ Raw(n)[2] = n /\ Destined(Raw(n))
    /\ \A c : <<"runs", c>>[1] = "runs" /\ <<"runs", c>>[2] = c /\ Destined(<<"runs", c>>)
  <1> USE DEF Destined, Packet
  <1>1. \A p : Temporary(p)[1] = "temporary" /\ Temporary(p)[2] = p /\ ~Destined(Temporary(p))
    BY DEF Temporary
  <1>2. \A v : Folder(v)[1] = "processed" /\ Folder(v)[2] = v /\ ~Destined(Folder(v))
    BY DEF Folder
  <1>3. \A v, f : /\ Processed(v, f)[1] = "processed" /\ Processed(v, f)[2] = v
                  /\ Processed(v, f)[3] = f /\ ~Destined(Processed(v, f))
                  /\ \A w : Processed(v, f) # Folder(w)
    BY DEF Processed, Folder
  <1>4. \A v, f : /\ Packet(v, f)[1] = "goldens" /\ Packet(v, f)[2] = v /\ Packet(v, f)[3] = f
                  /\ Destined(Packet(v, f)) <=> f = "published"
    OBVIOUS
  <1>5. \A n : Raw(n)[1] = "raw" /\ Raw(n)[2] = n /\ Destined(Raw(n))
    BY DEF Raw
  <1>6. \A c : <<"runs", c>>[1] = "runs" /\ <<"runs", c>>[2] = c /\ Destined(<<"runs", c>>)
    OBVIOUS
  <1> QED
    BY <1>1, <1>2, <1>3, <1>4, <1>5, <1>6

AllFiles == OutputFiles \union {"quality-report.json"}
Touches(r) ==
    LET op == Call[r].op
        writing == {"open", "write"}
    IN  CASE op = "evaluate" /\ pc[r] \in writing \union {"replace"} ->
               {Artifact(r), Temporary(Artifact(r))}
          [] op = "sourceValidate" /\ pc[r] \in writing \union {"replace"} ->
               {Published(r), Temporary(Published(r))}
          [] op = "download" /\ pc[r] \in {"unlink", "create", "stream", "place"} ->
               {Raw(Source(r)), PartOf(r)}
          [] op = "reviewCreate" /\ pc[r] \in writing -> {Draft(r), Review(r)}
          [] op = "approve" /\ pc[r] \in writing -> {Path(r)}
          [] op = "prepare" /\ pc[r] \in writing \union {"mkdir", "select", "verify"} ->
               {Folder(Call[r].version)} \union {Processed(Call[r].version, f) : f \in AllFiles}
          [] OTHER -> {}

\* A command that writes has something to write, to a path of its own.
LEMMA Writing ==
    ASSUME NEW r \in Made, Staged(r), Call[r].op \in Operations, pc[r] \in {"open", "write"}
    PROVE  /\ Path(r) \in Touches(r) /\ ~Destined(Path(r)) /\ memo[r].todo # <<>>
           /\ Call[r].op \in {"evaluate", "sourceValidate", "reviewCreate", "approve", "prepare"}
  <1>1. Pending(r) /\ pc[r] \in Stages[Call[r].op]
    BY DEF Staged, Answers
  <1>2. Call[r].op \in {"evaluate", "sourceValidate", "reviewCreate", "approve", "prepare"}
    BY <1>1 DEF Stages, Operations
  <1>3. \A path : One(r, path) => Path(r) = path /\ memo[r].todo # <<>>
    BY DEF One, Path
  <1>4. \A path, next : Two(r, path, next) => Path(r) = path /\ memo[r].todo # <<>>
    BY DEF Two, Path
  <1>5. \A path, next, last : Three(r, path, next, last) => Path(r) = path /\ memo[r].todo # <<>>
    BY DEF Three, Path
  <1>6. CASE Call[r].op \in {"evaluate", "sourceValidate"}
    BY <1>1, <1>3, <1>6, Paths DEF Pending, Touches
  <1>7. CASE Call[r].op = "reviewCreate"
    BY <1>1, <1>3, <1>4, <1>7, Paths DEF Pending, Touches, Draft, Review
  <1>8. CASE Call[r].op = "approve"
    BY <1>1, <1>3, <1>8, Paths DEF Pending, Touches, GoldenJson, GoldenReview, Packet
  <1>9. CASE Call[r].op = "prepare"
    BY <1>1, <1>3, <1>4, <1>5, <1>9, Paths DEF Pending, Touches, AllFiles, OutputFiles
  <1> QED
    BY <1>2, <1>6, <1>7, <1>8, <1>9

\* The inode of a path was made for it, or for the temporary file that was moved there,
\* and an open file is the one of the path that it was opened by.
FilesInv ==
    /\ \A p \in DOMAIN names : /\ names[p] \in DOMAIN data
                               /\ names[p][2] = p \/ (Destined(p) /\ names[p][2] = Temporary(p))
    /\ \A i \in DOMAIN data : i[1] \in Commands \union {NoFile}
    /\ \A r \in Made :
          LET handle == memo[r].handle
          IN  /\ handle \in DOMAIN data \union {NoFile}
              /\ pc[r] = "write" => handle \in DOMAIN data /\ handle[2] = Path(r)
              /\ pc[r] = "stream" => handle \in DOMAIN data /\ handle[2] = PartOf(r)

\* What a step does to files is done to those that its command touches.
Reaches(r) ==
    /\ Leaves(Touches(r))
    /\ DOMAIN data \subseteq DOMAIN data'
    /\ \A i \in DOMAIN data : i[2] \notin Touches(r) => data'[i] = data[i]
    /\ \A i \in DOMAIN data' \ DOMAIN data : \E p \in Touches(r) : i = <<r, p>>

\* Who leaves all but the paths that it touches reaches no other.
LEMMA Reaching ==
    ASSUME NEW r \in Made, NEW paths, paths \subseteq Touches(r), Leaves(paths),
           NEW inodes, Keeps(inodes),
           \A i \in inodes : i[2] \in Touches(r) /\ (i \in DOMAIN data \/ i = <<r, i[2]>>)
    PROVE  Reaches(r)
  BY DEF Reaches, Leaves, Keeps

\* A step only does something to files that its command touches.
LEMMA Reach ==
    ASSUME StagedInv, FilesInv, NEW r \in Made, Step(r)
    PROVE  Reaches(r)
  <1>1. Staged(r) /\ DOMAIN memo = Made /\ Call[r].op \in Operations /\ Moves(r)
    BY StepStaged, FilesAssumption DEF StagedInv
  <1>2. CASE Same
    BY <1>2, Leaving, Reaching DEF Same
  <1>3. CASE OpenFile(r)
    <2> DEFINE inode == IF Exists(Path(r)) THEN names[Path(r)] ELSE <<r, Path(r)>>
    <2>1. pc[r] = "open" /\ names' = Named(Path(r), inode) /\ data' = Filled(inode, Partial)
      BY <1>3 DEF OpenFile
    <2>2. Path(r) \in Touches(r) /\ ~Destined(Path(r))
      BY <1>1, <2>1, Writing
    <2>3. inode[2] = Path(r) /\ (inode \in DOMAIN data \/ inode = <<r, Path(r)>>)
      BY <2>2 DEF FilesInv, Exists
    <2> HIDE DEF inode
    <2>4. Leaves({Path(r)}) /\ Keeps({inode})
      BY <2>1, Leaving
    <2> QED
      BY <2>2, <2>3, <2>4, Reaching
  <1>4. CASE WriteFile(r)
    <2>1. pc[r] = "write" /\ names' = names /\ \E x : data' = Filled(memo[r].handle, x)
      BY <1>4 DEF WriteFile
    <2>2. Path(r) \in Touches(r) /\ memo[r].handle \in DOMAIN data /\ memo[r].handle[2] = Path(r)
      BY <1>1, <2>1, Writing DEF FilesInv
    <2>3. Leaves({}) /\ Keeps({memo[r].handle})
      BY <2>1, Leaving
    <2> QED
      BY <2>2, <2>3, Reaching
  <1>5. CASE WriteFails(r)
    <2>1. pc[r] \in {"open", "write"} /\ names' = CleanedUp(r) /\ data' = data
      BY <1>1, <1>5, FileOutcome, Guards
    <2>2. CASE Call[r].op = "prepare"
      <3> DEFINE paths == {Folder(Call[r].version)} \union FolderFiles(Call[r].version)
      <3>1. Leaves(paths)
        BY <2>1, <2>2, Leaving DEF CleanedUp, WithoutFolder
      <3>2. paths \subseteq Touches(r)
        BY <2>1, <2>2 DEF Touches, FolderFiles, AllFiles
      <3> HIDE DEF paths
      <3> QED
        BY <2>1, <3>1, <3>2, Leaving, Reaching
    <2>3. CASE Call[r].op = "reviewCreate"
      <3>1. Leaves({Draft(r), Review(r)}) /\ {Draft(r), Review(r)} \subseteq Touches(r)
        BY <2>1, <2>3, Leaving DEF CleanedUp, Touches
      <3> QED
        BY <2>1, <3>1, Leaving, Reaching
    <2>4. CASE Call[r].op = "sourceValidate"
      <3>1. Leaves({Temporary(Published(r))}) /\ {Temporary(Published(r))} \subseteq Touches(r)
        BY <2>1, <2>4, Leaving DEF CleanedUp, Touches
      <3> QED
        BY <2>1, <3>1, Leaving, Reaching
    <2>5. CASE Call[r].op \notin {"prepare", "reviewCreate", "sourceValidate"}
      BY <2>1, <2>5, Leaving, Reaching DEF CleanedUp
    <2> QED
      BY <2>2, <2>3, <2>4, <2>5
  <1>6. CASE Call[r].op = "evaluate" /\ ReplaceArtifact(r)
    <2>1. data' = data /\ (names' = names \/ names' = Moved(Artifact(r))) /\ pc[r] = "replace"
      BY <1>1, <1>6, EvaluateOutcome, Guards
    <2>2. {Artifact(r), Temporary(Artifact(r))} \subseteq Touches(r)
      BY <1>6, <2>1 DEF Touches
    <2>3. Artifact(r) # Temporary(Artifact(r))
      BY Paths DEF Artifact
    <2> QED
      BY <2>1, <2>2, <2>3, Leaving, Reaching
  <1>7. CASE Call[r].op = "sourceValidate" /\ ReplacePublished(r)
    <2>1. data' = data /\ (names' = names \/ names' = Moved(Published(r))) /\ pc[r] = "replace"
      BY <1>1, <1>7, EsciOutcome, Guards DEF Same
    <2>2. {Published(r), Temporary(Published(r))} \subseteq Touches(r)
      BY <1>7, <2>1 DEF Touches
    <2>3. Published(r) # Temporary(Published(r))
      BY Paths DEF Published
    <2> QED
      BY <2>1, <2>2, <2>3, Leaving, Reaching
  <1>8. CASE /\ Call[r].op = "download"
             /\ UnlinkPart(r) \/ CreatePart(r) \/ StreamPart(r) \/ DownloadFails(r) \/ PlacePart(r)
    <2>1. pc[r] \in {"unlink", "create", "stream", "place"}
      BY <1>8, Guards
    <2>2. {Raw(Source(r)), PartOf(r)} \subseteq Touches(r)
      BY <1>8, <2>1 DEF Touches
    <2>3. PartOf(r) = Temporary(Raw(Source(r))) /\ PartOf(r) # Raw(Source(r))
      BY Paths DEF PartOf
    <2>4. CASE UnlinkPart(r) \/ DownloadFails(r)
      <3>1. data' = data /\ (names' = names \/ names' = Unlinked({PartOf(r)}))
        BY <1>1, <2>4, EsciOutcome
      <3> QED
        BY <2>2, <3>1, Leaving, Reaching
    <2>5. CASE CreatePart(r)
      <3>1. \/ names' = Unlinked({PartOf(r)}) /\ data' = data
            \/ /\ names' = Named(PartOf(r), <<r, PartOf(r)>>)
               /\ data' = Filled(<<r, PartOf(r)>>, Partial)
        BY <1>1, <2>5, EsciOutcome
      <3>2. <<r, PartOf(r)>>[2] = PartOf(r)
        OBVIOUS
      <3>3. \/ Leaves({PartOf(r)}) /\ Keeps({})
            \/ Leaves({PartOf(r)}) /\ Keeps({<<r, PartOf(r)>>})
        BY <3>1, Leaving
      <3> QED
        BY <2>2, <3>2, <3>3, Reaching
    <2>6. CASE StreamPart(r)
      <3>1. /\ pc[r] = "stream" /\ \E x : data' = Filled(memo[r].handle, x)
            /\ names' = names \/ names' = Unlinked({PartOf(r)})
        BY <1>1, <2>6, EsciOutcome, Guards
      <3>2. memo[r].handle \in DOMAIN data /\ memo[r].handle[2] = PartOf(r)
        BY <3>1 DEF FilesInv
      <3>3. Keeps({memo[r].handle}) /\ (Leaves({}) \/ Leaves({PartOf(r)}))
        BY <3>1, Leaving
      <3> QED
        BY <2>2, <3>2, <3>3, Reaching
    <2>7. CASE PlacePart(r)
      <3>1. data' = data /\ (names' = names \/ names' = Moved(Raw(Source(r))))
        BY <1>1, <2>7, EsciOutcome
      <3>2. Leaves({}) \/ Leaves({Raw(Source(r)), PartOf(r)})
        BY <2>3, <3>1, Leaving
      <3> QED
        BY <2>2, <3>1, <3>2, Leaving, Reaching
    <2> QED
      BY <1>8, <2>4, <2>5, <2>6, <2>7
  <1>9. CASE Call[r].op = "prepare" /\ (MakeFolder(r) \/ SelectSubset(r) \/ VerifyProcessed(r))
    <2> DEFINE folder == Folder(Call[r].version)
               paths == {folder} \union FolderFiles(Call[r].version)
    <2>1. pc[r] \in {"mkdir", "select", "verify"}
      BY <1>9, Guards
    <2>2. paths \subseteq Touches(r) /\ folder \in Touches(r)
      BY <1>9, <2>1 DEF Touches, FolderFiles, AllFiles
    <2>3. <<r, folder>>[2] = folder
      OBVIOUS
    <2> HIDE DEF paths
    <2>4. \/ data' = data /\ names' = names
          \/ data' = data /\ names' = Unlinked(paths)
          \/ names' = Named(folder, <<r, folder>>) /\ \E x : data' = Filled(<<r, folder>>, x)
      <3>1. MakeFolder(r) =>
                \/ data' = data /\ names' = names
                \/ names' = Named(folder, <<r, folder>>) /\ \E x : data' = Filled(<<r, folder>>, x)
        BY <1>1, EsciOutcome DEF Same
      <3>2. SelectSubset(r) =>
                \/ data' = data /\ names' = names
                \/ data' = data /\ names' = Unlinked(paths)
        BY <1>1, EsciOutcome DEF Same, Asks, WithoutFolder, paths
      <3>3. VerifyProcessed(r) =>
                \/ data' = data /\ names' = names
                \/ data' = data /\ names' = Unlinked(paths)
        BY <1>1, EsciOutcome DEF Same, WithoutFolder, paths
      <3> QED
        BY <1>9, <3>1, <3>2, <3>3
    <2> HIDE DEF folder
    <2>5. CASE data' = data /\ (names' = names \/ names' = Unlinked(paths))
      BY <2>2, <2>5, Leaving, Reaching
    <2>6. CASE names' = Named(folder, <<r, folder>>) /\ \E x : data' = Filled(<<r, folder>>, x)
      <3>1. Leaves({folder}) /\ Keeps({<<r, folder>>})
        BY <2>6, Leaving
      <3> QED
        BY <2>2, <2>3, <3>1, Reaching
    <2> QED
      BY <2>4, <2>5, <2>6
  <1> QED
    BY <1>1, <1>2, <1>3, <1>4, <1>5, <1>6, <1>7, <1>8, <1>9, Noise DEF Noisy

\* What becomes of the file that a command has open.
LEMMA Holding ==
    ASSUME StagedInv, FilesInv, NEW r \in Made, Step(r)
    PROVE  /\ memo'[r].handle \in {memo[r].handle, NoFile} \union DOMAIN data'
           /\ pc'[r] = "write" =>
                  memo'[r].handle \in DOMAIN data' /\ memo'[r].handle[2] = Path(r)'
           /\ pc'[r] = "stream" =>
                  memo'[r].handle \in DOMAIN data' /\ memo'[r].handle[2] = PartOf(r)'
  <1> DEFINE calm == /\ pc'[r] \notin {"write", "stream"}
                     /\ memo'[r].handle \in {memo[r].handle, NoFile}
  <1>1. Staged(r) /\ DOMAIN memo = Made /\ Call[r].op \in Operations /\ Moves(r)
    BY StepStaged, FilesAssumption DEF StagedInv
  <1>2. ASSUME NEW to, to \notin {"write", "stream"}, Lands(r, to)
        PROVE  calm
    BY <1>2 DEF Lands, After
  <1>3. ASSUME NEW what, Asks(r, what)
        PROVE  calm
    BY <1>1, <1>3, Asking
  <1>4. /\ EvaluateLoad(r) \/ EvaluateCase(r) \/ Look(r) \/ ReplaceArtifact(r) => calm
        /\ LoadJob(r) \/ CheckJob(r) \/ ReviewGolden(r) => calm
        /\ ApproveGolden(r) \/ RecordApproval(r) => calm
    <2> HIDE DEF calm
    <2> QED
      BY <1>1, <1>2, <1>3, Outcomes
  <1>5. /\ NextSource(r) \/ ClearPart(r) \/ UnlinkPart(r) \/ StreamPart(r) => calm
        /\ DownloadFails(r) \/ PlacePart(r) => calm
        /\ VerifySources(r) \/ MakeFolder(r) \/ SelectSubset(r) => calm
        /\ WriteReport(r) \/ VerifyProcessed(r) => calm
        /\ CheckPacket(r) \/ CreatePacket(r) => calm
        /\ MatchDraft(r) \/ VerifyRecords(r) \/ ReplacePublished(r) => calm
    <2> HIDE DEF calm
    <2> QED
      BY <1>1, <1>2, <1>3, Outcomes
  <1>6. Begin(r) \/ Crash(r) \/ Written(r) \/ WriteFails(r) => calm
    <2>1. FirstStep[Call[r].op] \notin {"write", "stream"}
      BY <1>1 DEF FirstStep, Operations
    <2> HIDE DEF calm
    <2> QED
      BY <1>1, <1>2, <2>1, Outcomes
  <1>7. CASE CreatePart(r)
    <2>1. CASE Settle(r, "error")
      BY <1>2, <1>1, <2>1, Ways DEF Staged
    <2>2. CASE /\ Gains(r, "stream", "handle", <<r, PartOf(r)>>)
               /\ data' = Filled(<<r, PartOf(r)>>, Partial)
      <3>1. pc'[r] = "stream" /\ memo'[r].todo = memo[r].todo /\ memo'[r].handle = <<r, PartOf(r)>>
        BY <1>1, <2>2 DEF Gains, After, Staged
      <3>2. PartOf(r)' = PartOf(r)
        BY <3>1 DEF PartOf, Source, Temporary, Raw
      <3>3. <<r, PartOf(r)>>[2] = PartOf(r) /\ <<r, PartOf(r)>> \in DOMAIN data'
        BY <2>2, Leaving
      <3> QED
        BY <3>1, <3>2, <3>3
    <2> QED
      BY <1>1, <1>7, <2>1, <2>2, EsciOutcome
  <1>8. CASE WriteFile(r)
    <2>1. After(r, Onwards(r), [memo[r] EXCEPT !.todo = Tail(@), !.handle = NoFile])
      BY <1>1, <1>8, FileOutcome
    <2>2. pc'[r] = Onwards(r) /\ memo'[r].handle = NoFile
      BY <1>1, <2>1 DEF After, Staged
    <2>3. Onwards(r) \notin {"write", "stream"}
      BY <1>1, <1>8, Guards, Writing DEF Onwards, AfterWriting
    <2> QED
      BY <2>2, <2>3
  <1>9. CASE OpenFile(r)
    <2> DEFINE inode == IF Exists(Path(r)) THEN names[Path(r)] ELSE <<r, Path(r)>>
    <2>1. pc[r] = "open" /\ data' = Filled(inode, Partial) /\ Goto(r, "write")
      BY <1>9 DEF OpenFile
    <2>2. memo' = [memo EXCEPT ![r] = [memo[r] EXCEPT !.handle = inode]]
      BY <1>9 DEF OpenFile, Remember
    <2>3. inode[2] = Path(r)
      BY <1>1, <2>1, Writing DEF FilesInv, Exists
    <2> HIDE DEF inode
    <2>4. memo'[r].handle = inode /\ memo'[r].todo = memo[r].todo /\ pc'[r] = "write"
      BY <1>1, <2>1, <2>2 DEF Staged, Goto, Made
    <2>5. Path(r)' = Path(r)
      BY <2>4 DEF Path
    <2> QED
      BY <2>1, <2>3, <2>4, <2>5, Leaving
  <1> QED
    BY <1>1, <1>4, <1>5, <1>6, <1>7, <1>8, <1>9 DEF Moves

\* What becomes of the names.
LEMMA Naming ==
    ASSUME StagedInv, FilesInv, NEW r \in Made, Step(r), NEW p \in DOMAIN names'
    PROVE  \/ p \in DOMAIN names /\ names'[p] = names[p]
           \/ names'[p] \in DOMAIN data' /\ names'[p][2] = p
           \/ /\ Destined(p) /\ Temporary(p) \in DOMAIN names
              /\ names'[p] = names[Temporary(p)]
  <1> DEFINE named == \/ p \in DOMAIN names /\ names'[p] = names[p]
                      \/ names'[p] \in DOMAIN data' /\ names'[p][2] = p
                      \/ /\ Destined(p) /\ Temporary(p) \in DOMAIN names
                         /\ names'[p] = names[Temporary(p)]
  <1>1. Staged(r) /\ DOMAIN memo = Made /\ Call[r].op \in Operations /\ Moves(r)
    BY StepStaged, FilesAssumption DEF StagedInv
  <1>2. ASSUME names' = names \/ \E paths : names' = Unlinked(paths)
        PROVE  named
    BY <1>2, Leaving DEF Leaves
  <1>3. ASSUME NEW path, NEW i, names' = Named(path, i), i \in DOMAIN data', i[2] = path
        PROVE  named
    <2>1. Leaves({path}) /\ names'[path] = i
      BY <1>3, Leaving
    <2> QED
      BY <1>3, <2>1 DEF Leaves
  <1>4. ASSUME NEW path, names' = Moved(path), Destined(path), Exists(Temporary(path))
        PROVE  named
    BY <1>4 DEF Moved, Exists
  <1> SUFFICES named
    OBVIOUS
  <1> HIDE DEF named
  <1>5. CASE Same \/ WriteFile(r) \/ WriteFails(r)
    <2>1. WriteFile(r) => names' = names
      BY DEF WriteFile
    <2>2. WriteFails(r) => names' = names \/ \E paths : names' = Unlinked(paths)
      BY <1>1, FileOutcome DEF CleanedUp, WithoutFolder
    <2> QED
      BY <1>2, <1>5, <2>1, <2>2 DEF Same
  <1>6. CASE OpenFile(r)
    <2> DEFINE inode == IF Exists(Path(r)) THEN names[Path(r)] ELSE <<r, Path(r)>>
    <2>1. pc[r] = "open" /\ names' = Named(Path(r), inode) /\ data' = Filled(inode, Partial)
      BY <1>6 DEF OpenFile
    <2>2. inode[2] = Path(r)
      BY <1>1, <2>1, Writing DEF FilesInv, Exists
    <2> HIDE DEF inode
    <2> QED
      BY <1>3, <2>1, <2>2, Leaving
  <1>7. CASE Call[r].op = "evaluate" /\ ReplaceArtifact(r)
    <2>1. Destined(Artifact(r))
      BY Paths DEF Artifact
    <2> QED
      BY <1>1, <1>2, <1>4, <1>7, <2>1, EvaluateOutcome
  <1>8. CASE Call[r].op = "sourceValidate" /\ ReplacePublished(r)
    <2>1. Destined(Published(r))
      BY Paths DEF Published
    <2> QED
      BY <1>1, <1>2, <1>4, <1>8, <2>1, EsciOutcome DEF Same
  <1>9. CASE UnlinkPart(r) \/ StreamPart(r) \/ DownloadFails(r)
    BY <1>1, <1>2, <1>9, EsciOutcome
  <1>10. CASE CreatePart(r)
    <2> DEFINE inode == <<r, PartOf(r)>>
    <2>1. \/ names' = Unlinked({PartOf(r)})
          \/ names' = Named(PartOf(r), inode) /\ data' = Filled(inode, Partial)
      BY <1>1, <1>10, EsciOutcome
    <2>2. inode[2] = PartOf(r)
      OBVIOUS
    <2> HIDE DEF inode
    <2>3. CASE names' = Unlinked({PartOf(r)})
      BY <1>2, <2>3
    <2>4. CASE names' = Named(PartOf(r), inode) /\ data' = Filled(inode, Partial)
      <3>1. inode \in DOMAIN data'
        BY <2>4, Leaving
      <3> QED
        BY <1>3, <2>2, <2>4, <3>1
    <2> QED
      BY <2>1, <2>3, <2>4
  <1>11. CASE PlacePart(r)
    <2>1. \/ names' = names
          \/ Exists(Temporary(Raw(Source(r)))) /\ names' = Moved(Raw(Source(r)))
      BY <1>1, <1>11, EsciOutcome DEF PartOf
    <2> QED
      BY <1>2, <1>4, <2>1, Paths
  <1>12. CASE MakeFolder(r)
    <2> DEFINE folder == Folder(Call[r].version)
               inode == <<r, folder>>
    <2>1. inode[2] = folder
      OBVIOUS
    <2>2. \/ names' = names
          \/ names' = Named(folder, inode) /\ data' = Filled(inode, <<"directory">>)
      BY <1>1, <1>12, EsciOutcome DEF Same
    <2> HIDE DEF folder, inode
    <2>3. CASE names' = names
      BY <1>2, <2>3
    <2>4. CASE names' = Named(folder, inode) /\ data' = Filled(inode, <<"directory">>)
      <3>1. inode \in DOMAIN data'
        BY <2>4, Leaving
      <3> QED
        BY <1>3, <2>1, <2>4, <3>1
    <2> QED
      BY <2>2, <2>3, <2>4
  <1>13. CASE SelectSubset(r) \/ VerifyProcessed(r)
    <2>1. SelectSubset(r) => names' = names \/ \E paths : names' = Unlinked(paths)
      BY <1>1, EsciOutcome DEF WithoutFolder, Asks, Same
    <2>2. VerifyProcessed(r) => names' = names \/ \E paths : names' = Unlinked(paths)
      BY <1>1, EsciOutcome DEF WithoutFolder, Same
    <2> QED
      BY <1>2, <1>13, <2>1, <2>2
  <1> QED
    BY <1>1, <1>5, <1>6, <1>7, <1>8, <1>9, <1>10, <1>11, <1>12, <1>13, Noise DEF Noisy

\* A step keeps names on inodes that were made for them, and open files on their paths.
LEMMA StepFiles ==
    ASSUME StagedInv, FilesInv, NEW r \in Made, Step(r)
    PROVE  FilesInv'
  <1>1. Staged(r) /\ Frame(r) /\ DOMAIN memo = Made /\ Call[r].op \in Operations /\ Moves(r)
    BY StepStaged, FilesAssumption DEF StagedInv
  <1>2. Reaches(r)
    BY Reach
  <1>3. ASSUME NEW i \in DOMAIN data'
        PROVE  i[1] \in Commands \union {NoFile}
    BY <1>2 DEF Reaches, FilesInv, StagedInv
  <1>4. ASSUME NEW q \in Made
        PROVE  LET handle == memo'[q].handle
               IN  /\ handle \in DOMAIN data' \union {NoFile}
                   /\ pc'[q] = "write" => handle \in DOMAIN data' /\ handle[2] = Path(q)'
                   /\ pc'[q] = "stream" => handle \in DOMAIN data' /\ handle[2] = PartOf(q)'
    <2>1. CASE q = r
      BY <1>2, <2>1, Holding DEF Reaches, FilesInv
    <2>2. CASE q # r
      <3>1. pc'[q] = pc[q] /\ memo'[q] = memo[q]
        BY <1>1, <2>2 DEF Frame
      <3>2. Path(q)' = Path(q) /\ PartOf(q)' = PartOf(q)
        BY <3>1 DEF Path, PartOf, Source, Temporary, Raw
      <3> QED
        BY <1>2, <3>1, <3>2 DEF Reaches, FilesInv
    <2> QED
      BY <2>1, <2>2
  <1>5. ASSUME NEW p \in DOMAIN names'
        PROVE  /\ names'[p] \in DOMAIN data'
               /\ names'[p][2] = p \/ (Destined(p) /\ names'[p][2] = Temporary(p))
    BY <1>2, Naming, Paths DEF Reaches, FilesInv
  <1> QED
    BY <1>1, <1>3, <1>4, <1>5 DEF FilesInv, Frame

-----------------------------------------------------------------------------
(* Type correctness *)

MetInv == \A pair \in met : \E r, q \in Made : r # q /\ pair = {r, q}
IInv == StagedInv /\ FilesInv /\ AllMet /\ MetInv

\* The invariant holds at the start.
LEMMA InitInv ==
    ASSUME Init
    PROVE  IInv
  <1>1. PICK w \in Workloads :
            LET seed == SeedFiles[w.files]
            IN  /\ names = [path \in DOMAIN seed |-> <<NoFile, path>>]
                /\ data = [inode \in {NoFile} \X DOMAIN seed |-> <<seed[inode[2]]>>]
                /\ pc = [r \in w.commands |-> "ready"]
    BY DEF Init
  <1>2. memo = [r \in Made |-> Blank] /\ met = {}
    BY DEF Init
  <1>3. StagedInv
    BY InitStaged
  <1>4. FilesInv
    BY <1>1, <1>2 DEF FilesInv, Blank, Made
  <1>5. AllMet /\ MetInv
    BY <1>1, <1>2 DEF AllMet, MetInv, Open, Made
  <1> QED
    BY <1>3, <1>4, <1>5 DEF IInv

\* A step keeps the invariant.
LEMMA StepInv ==
    ASSUME IInv, NEW r \in Made, Step(r)
    PROVE  IInv'
  <1>1. StagedInv' /\ Frame(r) /\ Moves(r) /\ DOMAIN memo = Made
    BY StepStaged DEF IInv, StagedInv
  <1>2. FilesInv' /\ AllMet'
    BY StepFiles, StepMet DEF IInv
  <1>3. CASE Begin(r)
    <2>1. met' = met \union {{r, q} : q \in {q \in Made \ {r} : Open(q)}}
      BY <1>3 DEF Begin
    <2> QED
      BY <1>1, <1>2, <2>1 DEF IInv, MetInv, Frame
  <1>4. CASE met' = met
    BY <1>1, <1>2, <1>4 DEF IInv, MetInv, Frame
  <1> QED
    BY <1>1, <1>3, <1>4, Meeting

\* So does a step of none of the commands.
LEMMA Stutter ==
    ASSUME IInv, UNCHANGED vars
    PROVE  IInv'
  <1> USE DEF vars
  <1>1. StagedInv'
    <2>1. ASSUME NEW r \in Made
          PROVE  Pending(r)' <=> Pending(r)
      BY DEF Pending, One, Two, Three, Artifact, Config, Draft, Review, Published, GoldenJson,
         GoldenReview, Temporary, Packet
    <2> QED
      BY <2>1 DEF IInv, StagedInv, Staged, Made
  <1>2. FilesInv'
    BY DEF IInv, FilesInv, Path, PartOf, Source, Temporary, Raw, Made, Destined, Packet
  <1>3. AllMet' /\ MetInv'
    BY DEF IInv, AllMet, MetInv, Met, Open, Made
  <1> QED
    BY <1>1, <1>2, <1>3 DEF IInv

\* What the invariant says of types.
LEMMA TypesHold ==
    ASSUME IInv
    PROVE  TypeOK
  <1>1. ASSUME NEW pair \in met
        PROVE  pair \subseteq Made /\ Cardinality(pair) = 2
    <2>1. PICK r, q \in Made : r # q /\ pair = {r, q}
      BY DEF IInv, MetInv
    <2>2. IsFiniteSet({r}) /\ Cardinality({r}) = 1
      BY FS_Singleton
    <2>3. Cardinality({r} \union {q}) = Cardinality({r}) + 1
      <3>1. q \notin {r}
        BY <2>1
      <3> QED
        BY <2>2, <3>1, FS_AddElement
    <2>4. pair = {r} \union {q}
      BY <2>1
    <2> QED
      BY <2>1, <2>2, <2>3, <2>4
  <1>2. ASSUME NEW r \in Made
        PROVE  /\ memo[r].handle \in DOMAIN data \union {NoFile}
               /\ pc[r] \in {"write", "stream"} => memo[r].handle \in DOMAIN data
               /\ pc[r] \in {"open", "write"} => memo[r].todo # <<>>
    BY Writing, FilesAssumption DEF IInv, StagedInv, FilesInv
  <1> QED
    BY <1>1, <1>2 DEF IInv, StagedInv, FilesInv, TypeOK

\* The invariant that the theorems about files use.
THEOREM Inductive == Spec => []IInv
  <1>1. Init => IInv
    BY InitInv
  <1>2. IInv /\ [Next]_vars => IInv'
    BY StepInv, Stutter DEF Next
  <1> QED
    BY <1>1, <1>2, PTL DEF Spec

\* Names are of inodes that there are, a command that writes has a file open and
\* something left to write, and only the calls of the workload are made.
THEOREM TypesOfFiles == Spec => []TypeOK
  BY Inductive, TypesHold, PTL

-----------------------------------------------------------------------------
(* What an evaluation has recorded *)

\* From its first result on, an evaluation has the input that its run id is made of.
Recorded(r) ==
    /\ \E S : memo[r].results \in Seq(S)
    /\ pc[r] \in {"ready", "load"} => memo[r].results = <<>>
    /\ pc[r] \in {"look", "open", "write", "replace"} => memo[r].results # <<>>
RunsInv == \A r \in Made : Call[r].op = "evaluate" => Recorded(r)

\* What the steps of an evaluation do to its record.
LEMMA Recording ==
    ASSUME NEW r \in Made, DOMAIN memo = Made, Staged(r), Moves(r), Call[r].op = "evaluate"
    PROVE  \/ /\ memo'[r].input = memo[r].input /\ memo'[r].results = memo[r].results
              /\ \/ pc'[r] \in Answers \/ (pc[r] = "ready" /\ pc'[r] = "load")
                 \/ /\ pc[r] \in {"look", "open", "write"}
                    /\ pc'[r] \in {"open", "write", "replace"}
           \/ /\ pc[r] = "load" /\ pc'[r] \in {"case", "error"}
              /\ memo'[r].results = memo[r].results
           \/ /\ pc[r] = "case" /\ pc'[r] \in {"case", "look"}
              /\ memo'[r].input = memo[r].input
              /\ \E x : memo'[r].results = Append(memo[r].results, x)
  <1>1. ASSUME NEW to, NEW field, NEW what, Gains(r, to, field, what)
        PROVE  /\ pc'[r] = to
               /\ field # "input" => memo'[r].input = memo[r].input
               /\ field # "results" => memo'[r].results = memo[r].results
               /\ memo'[r][field] = what \/ field \notin DOMAIN memo[r]
    BY <1>1 DEF Gains, After, Staged
  <1>2. ASSUME NEW to, Settle(r, to)
        PROVE  /\ pc'[r] = to
               /\ memo'[r].input = memo[r].input /\ memo'[r].results = memo[r].results
    BY <1>2 DEF Settle, After, Staged
  <1>3. CASE Begin(r)
    <2>1. After(r, FirstStep[Call[r].op], memo[r]) /\ pc[r] = "ready"
      BY <1>3, FileOutcome, Guards
    <2> QED
      BY <2>1 DEF After, FirstStep
  <1>4. CASE Crash(r) \/ WriteFails(r) \/ ReplaceArtifact(r)
    BY <1>2, <1>4, FileOutcome, EvaluateOutcome DEF Answers
  <1>5. CASE OpenFile(r)
    <2>1. pc[r] = "open" /\ \E inode : Gains(r, "write", "handle", inode)
      BY <1>5, FileOutcome, Guards
    <2> QED
      BY <1>1, <2>1
  <1>6. CASE WriteFile(r)
    <2>1. pc[r] = "write" /\ After(r, Onwards(r), [memo[r] EXCEPT !.todo = Tail(@), !.handle = NoFile])
      BY <1>6, FileOutcome, Guards
    <2>2. Onwards(r) \in {"open", "replace"}
      BY DEF Onwards, AfterWriting
    <2> QED
      BY <2>1, <2>2 DEF After, Staged
  <1>7. CASE EvaluateLoad(r)
    <2>1. pc[r] = "load" /\ (Settle(r, "error") \/ \E x : Gains(r, "case", "input", x))
      BY <1>7, EvaluateOutcome, Guards
    <2> QED
      BY <1>1, <1>2, <2>1
  <1>8. CASE EvaluateCase(r)
    <2>1. /\ pc[r] = "case"
          /\ \/ Settle(r, "error")
             \/ \E to, x : /\ Gains(r, to, "results", Append(memo[r].results, x))
                           /\ to \in {"case", "look"}
      BY <1>8, EvaluateOutcome, Guards
    <2>2. CASE Settle(r, "error")
      BY <1>2, <2>2 DEF Answers
    <2>3. CASE \E to, x : /\ Gains(r, to, "results", Append(memo[r].results, x))
                          /\ to \in {"case", "look"}
      <3>1. PICK to, x : /\ Gains(r, to, "results", Append(memo[r].results, x))
                         /\ to \in {"case", "look"}
        BY <2>3
      <3>2. /\ pc'[r] = to /\ memo'[r].input = memo[r].input
            /\ memo'[r].results = Append(memo[r].results, x)
        BY <1>1, <3>1 DEF Staged
      <3> QED
        BY <2>1, <3>1, <3>2
    <2> QED
      BY <2>1, <2>2, <2>3
  <1>9. CASE Look(r)
    <2>1. /\ pc[r] = "look"
          /\ Settle(r, "error") \/ Settle(r, "done") \/ \E x : Asks(r, x)
      BY <1>9, EvaluateOutcome, Guards
    <2> QED
      BY <1>2, <2>1, Asking DEF Answers
  <1> QED
    BY <1>3, <1>4, <1>5, <1>6, <1>7, <1>8, <1>9 DEF Moves

\* Evaluations keep the input of their run, and go on having the results that they have.
LEMMA StepRuns ==
    ASSUME StagedInv, RunsInv, NEW r \in Made, Step(r)
    PROVE  /\ RunsInv'
           /\ \A q \in Evaluations : q \in Evaluations' /\ Artifact(q)' = Artifact(q)
  <1>1. Staged(r) /\ Frame(r) /\ DOMAIN memo = Made /\ Moves(r)
    BY StepStaged DEF StagedInv
  <1>2. ASSUME NEW S, NEW s \in Seq(S), NEW x
        PROVE  Append(s, x) \in Seq(S \union {x}) /\ Append(s, x) # <<>>
    <2>1. s \in Seq(S \union {x})
      OBVIOUS
    <2> QED
      BY <2>1
  <1>3. CASE Call[r].op # "evaluate"
    BY <1>1, <1>3 DEF Frame, RunsInv, Recorded, Evaluations, Artifact, Config
  <1>4. CASE Call[r].op = "evaluate"
    <2>1. Recorded(r)
      BY <1>4 DEF RunsInv
    <2>2. Recorded(r)'
      <3>1. ASSUME NEW x, memo'[r].results = Append(memo[r].results, x),
                   pc'[r] \in {"case", "look"}
            PROVE  Recorded(r)'
        <4>1. PICK S : memo[r].results \in Seq(S)
          BY <2>1 DEF Recorded
        <4>2. memo'[r].results \in Seq(S \union {x})
          BY <1>2, <3>1, <4>1
        <4> QED
          BY <3>1, <4>2 DEF Recorded
      <3>2. ASSUME memo'[r].results = memo[r].results,
                   \/ pc'[r] \in Answers \union {"case"} \/ (pc[r] = "ready" /\ pc'[r] = "load")
                   \/ /\ pc[r] \in {"look", "open", "write"}
                      /\ pc'[r] \in {"open", "write", "replace"}
            PROVE  Recorded(r)'
        BY <2>1, <3>2 DEF Recorded, Answers
      <3> QED
        BY <1>1, <1>4, <3>1, <3>2, Recording DEF Answers
    <2>3. memo[r].results # <<>> =>
              memo'[r].input = memo[r].input /\ memo'[r].results # <<>>
      BY <1>1, <1>2, <1>4, <2>1, Recording DEF Recorded, Answers
    <2>4. \A q \in Made \ {r} : memo'[q] = memo[q] /\ pc'[q] = pc[q]
      BY <1>1 DEF Frame
    <2>5. RunsInv'
      BY <1>1, <2>2, <2>4 DEF RunsInv, Recorded, Frame
    <2> QED
      BY <1>1, <2>3, <2>4, <2>5 DEF Evaluations, Artifact, Config, Frame
  <1> QED
    BY <1>3, <1>4

-----------------------------------------------------------------------------
(* Files that are written through a temporary one *)

Crowded(path) == CrowdAt(WritersOf(path))

\* Where a command will move what it writes, once it knows that nothing is there.
Destination(r) ==
    CASE Call[r].op = "evaluate" -> Artifact(r)
      [] Call[r].op = "sourceValidate" -> Published(r)
      [] Call[r].op = "download" -> Raw(Source(r))
Filling(r) == pc[r] \in {"write", "stream"}
Placing(r) == pc[r] \in {"replace", "place"}
Working(r) ==
    \/ Call[r].op = "evaluate" /\ pc[r] \in {"open", "write", "replace"}
    \/ Call[r].op = "sourceValidate" /\ pc[r] \in {"verifyRecords", "open", "write", "replace"}
    \/ Call[r].op = "download" /\ pc[r] \in {"clear", "unlink", "create", "stream", "place"}

\* What it can count on as long as no other writer has crossed it.
Alone(r) ==
    LET path == Destination(r)
        temporary == Temporary(path)
    IN  /\ ~Exists(path)
        /\ Filling(r) => /\ Exists(temporary) /\ names[temporary] = memo[r].handle
                         /\ data[memo[r].handle] = Partial
        /\ Placing(r) => Whole(temporary)

DestInv ==
    /\ \A p \in DOMAIN names : Destined(p) /\ ~Crowded(p) => Whole(p)
    /\ \A r \in Made : \A d : Working(r) /\ d = Destination(r) /\ ~Crowded(d) => Alone(r)

\* The destinations of the three operations that have one.
LEMMA Destinations ==
    ASSUME NEW r \in Made
    PROVE  /\ Call[r].op = "evaluate" => Destination(r) = Artifact(r)
           /\ Call[r].op = "sourceValidate" => Destination(r) = Published(r)
           /\ Call[r].op = "download" => Destination(r) = Raw(Source(r))
           /\ Working(r) => Destined(Destination(r)) /\ Open(r)
                            /\ Call[r].op \in {"evaluate", "sourceValidate", "download"}
  <1>1. /\ Call[r].op = "evaluate" => Destination(r) = Artifact(r)
        /\ Call[r].op = "sourceValidate" => Destination(r) = Published(r)
        /\ Call[r].op = "download" => Destination(r) = Raw(Source(r))
    BY DEF Destination
  <1>2. Destined(Artifact(r)) /\ Destined(Published(r)) /\ Destined(Raw(Source(r)))
    BY Paths DEF Artifact, Published
  <1>3. Working(r) => Open(r)
    BY DEF Working, Open, Answers
  <1> QED
    BY <1>1, <1>2, <1>3 DEF Working

\* Who works for a destination is one of its writers.
LEMMA WorkersWrite ==
    ASSUME RunsInv, NEW r \in Made, Working(r)
    PROVE  r \in WritersOf(Destination(r))
  <1>1. CASE Call[r].op = "evaluate"
    BY <1>1, Destinations DEF RunsInv, Recorded, Working, WritersOf, Evaluations
  <1>2. CASE Call[r].op = "sourceValidate"
    BY <1>2, Destinations DEF WritersOf
  <1>3. CASE Call[r].op = "download"
    BY <1>3, Destinations, Paths DEF WritersOf
  <1> QED
    BY <1>1, <1>2, <1>3 DEF Working

\* Two that work for one destination have met.
LEMMA Crossing ==
    ASSUME RunsInv, AllMet, NEW r \in Made, NEW q \in Made, r # q, Working(r), Working(q),
           Destination(r) = Destination(q)
    PROVE  Crowded(Destination(q))
  BY WorkersWrite, Destinations DEF AllMet, Crowded, CrowdAt

\* Who touches a destination or its temporary file works for it.
LEMMA TouchDest ==
    ASSUME NEW r \in Made, Staged(r), Call[r].op \in Operations, NEW d, Destined(d),
           d \in Touches(r) \/ Temporary(d) \in Touches(r)
    PROVE  Working(r) /\ Destination(r) = d
  <1>1. CASE Call[r].op = "evaluate"
    <2>1. pc[r] \in {"open", "write", "replace"} /\ Touches(r) = {Artifact(r), Temporary(Artifact(r))}
      BY <1>1 DEF Touches
    <2> QED
      BY <1>1, <2>1, Paths, Destinations DEF Working, Artifact
  <1>2. CASE Call[r].op = "sourceValidate"
    <2>1. pc[r] \in {"open", "write", "replace"} /\ Touches(r) = {Published(r), Temporary(Published(r))}
      BY <1>2 DEF Touches
    <2> QED
      BY <1>2, <2>1, Paths, Destinations DEF Working, Published
  <1>3. CASE Call[r].op = "download"
    <2>1. pc[r] \in {"unlink", "create", "stream", "place"} /\ Touches(r) = {Raw(Source(r)), PartOf(r)}
      BY <1>3 DEF Touches
    <2> QED
      BY <1>3, <2>1, Paths, Destinations DEF Working, PartOf
  <1>4. CASE Call[r].op = "reviewCreate"
    <2>1. Touches(r) \subseteq {Draft(r), Review(r)}
      BY <1>4 DEF Touches
    <2> QED
      BY <2>1, Paths DEF Draft, Review
  <1>5. CASE Call[r].op = "approve"
    <2>1. pc[r] \in {"open", "write"} /\ Touches(r) = {Path(r)}
      BY <1>5 DEF Touches
    <2>2. Path(r) = GoldenJson(r) \/ Path(r) = GoldenReview(r)
      BY <1>5, <2>1 DEF Staged, Pending, One, Path
    <2>3. Path(r)[1] = "goldens" /\ ~Destined(Path(r))
      BY <2>1, <2>2, Writing DEF GoldenJson, GoldenReview
    <2> QED
      BY <2>1, <2>3, Paths
  <1>6. CASE Call[r].op = "prepare"
    <2>1. \A p \in Touches(r) : p[1] = "processed" /\ ~Destined(p)
      BY <1>6, Paths DEF Touches
    <2> QED
      BY <2>1, Paths
  <1>7. CASE Call[r].op \in {"executeJob", "reviewScript", "esciVerify"}
    BY <1>7 DEF Touches
  <1> QED
    BY <1>1, <1>2, <1>3, <1>4, <1>5, <1>6, <1>7 DEF Operations

\* A crowd stays one.
LEMMA CrowdStays ==
    ASSUME StagedInv, RunsInv, AllMet, NEW r \in Made, Step(r), NEW d, Crowded(d)
    PROVE  Crowded(d)'
  <1>1. met \subseteq met' /\ Made' = Made
    BY StepMet, StepStaged DEF Frame
  <1>2. \A q \in WritersOf(d) : q \in WritersOf(d)'
    BY <1>1, StepRuns DEF WritersOf, Published, Packet, Evaluations
  <1> QED
    BY <1>1, <1>2 DEF Crowded, CrowdAt, Met

\* Who keeps its input and what it has to do keeps its paths.
LEMMA Steady ==
    ASSUME NEW r \in Made, memo'[r].input = memo[r].input, memo'[r].todo = memo[r].todo
    PROVE  /\ Destination(r)' = Destination(r) /\ Path(r)' = Path(r)
           /\ Source(r)' = Source(r) /\ Artifact(r)' = Artifact(r)
  <1>1. Artifact(r)' = Artifact(r) /\ Source(r)' = Source(r) /\ Path(r)' = Path(r)
    BY DEF Artifact, Config, Source, Path
  <1> QED
    BY <1>1 DEF Destination, Published, Packet, Raw

\* What there has to be for a command to be alone after a step.
LEMMA AloneThen ==
    ASSUME NEW r \in Made, NEW d, Destination(r)' = d, d \notin DOMAIN names',
           Filling(r)' => /\ Temporary(d) \in DOMAIN names'
                          /\ names'[Temporary(d)] = memo'[r].handle
                          /\ data'[memo'[r].handle] = Partial,
           Placing(r)' => /\ Temporary(d) \in DOMAIN names'
                          /\ data'[names'[Temporary(d)]] # Partial
    PROVE  Alone(r)'
  BY DEF Alone, Exists, Whole

\* A command that writes through a temporary file, whoever it is.
LEMMA WriterWorks ==
    ASSUME StagedInv, FilesInv, NEW r \in Made, Working(r), Alone(r), Call[r].op # "download",
           OpenFile(r) \/ WriteFile(r) \/ WriteFails(r)
    PROVE  /\ Destination(r) \notin DOMAIN names'
           /\ Working(r)' => Alone(r)' /\ Destination(r)' = Destination(r)
  <1>1. Staged(r) /\ DOMAIN memo = Made /\ Call[r].op \in Operations
    BY FilesAssumption DEF StagedInv
  <1>2. pc[r] \in {"open", "write"} /\ Call[r].op \in {"evaluate", "sourceValidate"}
    BY Guards DEF Working
  <1>3. PICK d : d = Destination(r)
    OBVIOUS
  <1>4. One(r, Temporary(d)) /\ d \notin DOMAIN names
    BY <1>1, <1>2, <1>3, Destinations DEF Staged, Pending, Alone, Exists
  <1>5. Path(r) = Temporary(d) /\ d # Temporary(d)
    BY <1>2, <1>3, <1>4, Destinations, Paths DEF One, Path
  <1>6. CASE OpenFile(r)
    <2>1. PICK inode : /\ names' = Named(Path(r), inode) /\ data' = Filled(inode, Partial)
                       /\ Goto(r, "write") /\ Remember(r, [memo[r] EXCEPT !.handle = inode])
      BY <1>6 DEF OpenFile
    <2>2. /\ memo'[r].handle = inode /\ memo'[r].todo = memo[r].todo
          /\ memo'[r].input = memo[r].input /\ pc'[r] = "write"
      BY <1>1, <2>1 DEF Staged, Goto, Remember, Made
    <2>3. /\ d \notin DOMAIN names' /\ Temporary(d) \in DOMAIN names'
          /\ names'[Temporary(d)] = inode /\ data'[inode] = Partial
      BY <1>4, <1>5, <2>1, Leaving DEF Leaves
    <2>4. Destination(r)' = d
      BY <1>3, <2>2, Steady
    <2>5. ~Placing(r)'
      BY <2>2 DEF Placing
    <2> QED
      BY <1>3, <2>2, <2>3, <2>4, <2>5, AloneThen
  <1>7. CASE WriteFile(r)
    <2>1. PICK x : data' = Filled(memo[r].handle, <<x>>) /\ names' = names
      <3>1. data[memo[r].handle] = Partial /\ pc[r] = "write"
        BY <1>7, Guards DEF Alone, Filling
      <3> QED
        BY <1>7, <3>1 DEF WriteFile
    <2>2. names[Temporary(d)] = memo[r].handle /\ Temporary(d) \in DOMAIN names
      BY <1>3, <1>7, Guards DEF Alone, Filling, Exists
    <2>3. After(r, Onwards(r), [memo[r] EXCEPT !.todo = Tail(@), !.handle = NoFile])
      BY <1>1, <1>7, FileOutcome
    <2>4. Onwards(r) = "replace"
      BY <1>2, <1>4 DEF One, Onwards, AfterWriting
    <2>5. pc'[r] = "replace" /\ memo'[r].input = memo[r].input
      BY <1>1, <2>3, <2>4 DEF After, Staged
    <2>6. Destination(r)' = d
      BY <1>2, <1>3, <2>5 DEF Destination, Artifact, Config, Published, Packet
    <2>7. data'[memo[r].handle] = <<x>>
      BY <2>1, Leaving
    <2>8. ~Filling(r)' /\ data'[names'[Temporary(d)]] # Partial
      <3>1. <<x>> # Partial
        BY DEF Partial
      <3> QED
        BY <2>1, <2>2, <2>5, <2>7, <3>1 DEF Filling
    <2> QED
      BY <1>3, <1>4, <2>1, <2>2, <2>6, <2>8, AloneThen
  <1>8. CASE WriteFails(r)
    <2>1. pc'[r] = "broken" /\ names' = CleanedUp(r)
      BY <1>1, <1>8, FileOutcome DEF Settle, After
    <2>2. names' = names \/ names' = Unlinked({Temporary(Published(r))})
      BY <1>2, <2>1 DEF CleanedUp
    <2> QED
      BY <1>3, <1>4, <2>1, <2>2 DEF Unlinked, Working
  <1> QED
    BY <1>6, <1>7, <1>8

\* A command that puts a file in its place.
LEMMA ReplacerWorks ==
    ASSUME StagedInv, NEW r \in Made, Working(r), Alone(r),
           \/ Call[r].op = "evaluate" /\ ReplaceArtifact(r)
           \/ Call[r].op = "sourceValidate" /\ ReplacePublished(r)
    PROVE  /\ Destination(r) \in DOMAIN names' => data'[names'[Destination(r)]] # Partial
           /\ ~Working(r)'
  <1>1. DOMAIN memo = Made /\ Destined(Destination(r)) /\ pc[r] = "replace"
    BY Destinations, Guards DEF StagedInv
  <1>2. PICK d : d = Destination(r)
    OBVIOUS
  <1>3. d \notin DOMAIN names /\ data[names[Temporary(d)]] # Partial /\ d # Temporary(d)
    BY <1>1, <1>2, Paths DEF Alone, Placing, Exists, Whole
  <1>4. /\ data' = data /\ (names' = names \/ names' = Moved(d))
        /\ pc'[r] \in {"done", "error", "broken"}
    <2>1. CASE Call[r].op = "evaluate" /\ ReplaceArtifact(r)
      BY <1>1, <1>2, <2>1, EvaluateOutcome, Destinations DEF Settle, After
    <2>2. CASE Call[r].op = "sourceValidate" /\ ReplacePublished(r)
      BY <1>1, <1>2, <2>2, EsciOutcome, Destinations DEF Settle, After, Same
    <2> QED
      BY <2>1, <2>2
  <1>5. data'[names'[d]] # Partial \/ d \notin DOMAIN names'
    BY <1>3, <1>4, Leaving
  <1> QED
    BY <1>2, <1>4, <1>5 DEF Working

\* A download.
LEMMA DownloadWorks ==
    ASSUME StagedInv, FilesInv, NEW r \in Made, Working(r), Alone(r), Call[r].op = "download",
           \/ ClearPart(r) \/ UnlinkPart(r) \/ CreatePart(r) \/ StreamPart(r)
           \/ DownloadFails(r) \/ PlacePart(r)
    PROVE  /\ Destination(r) \in DOMAIN names' => data'[names'[Destination(r)]] # Partial
           /\ Working(r)' => Alone(r)' /\ Destination(r)' = Destination(r)
  <1>1. Staged(r) /\ DOMAIN memo = Made /\ Destined(Destination(r))
    BY Destinations DEF StagedInv
  <1>2. PICK d : d = Destination(r)
    OBVIOUS
  <1>3. /\ d \notin DOMAIN names /\ d # Temporary(d) /\ d = Raw(Source(r))
        /\ PartOf(r) = Temporary(d)
    BY <1>1, <1>2, Paths, Destinations DEF Alone, Exists, PartOf
  <1>4. ASSUME NEW to, to \in Answers \union {"download"}, pc'[r] = to
        PROVE  ~Working(r)'
    BY <1>4 DEF Working, Answers
  <1>5. ASSUME NEW to, Settle(r, to)
        PROVE  pc'[r] = to
    BY <1>5 DEF Settle, After
  <1>6. CASE ClearPart(r) \/ UnlinkPart(r) \/ DownloadFails(r)
    <2>1. /\ names' = names \/ names' = Unlinked({Temporary(d)})
          /\ \/ Settle(r, "broken") \/ Settle(r, "error")
             \/ \E to \in {"unlink", "create"} : After(r, to, memo[r])
      BY <1>1, <1>3, <1>6, EsciOutcome DEF Same
    <2>2. d \notin DOMAIN names'
      BY <1>3, <2>1 DEF Unlinked
    <2>3. CASE \E to \in {"unlink", "create"} : After(r, to, memo[r])
      <3>1. memo'[r] = memo[r] /\ pc'[r] \in {"unlink", "create"}
        BY <2>3 DEF After
      <3>2. Destination(r)' = d
        BY <1>2, <3>1, Steady
      <3>3. ~Filling(r)' /\ ~Placing(r)'
        BY <3>1 DEF Filling, Placing
      <3> QED
        BY <1>2, <2>2, <3>2, <3>3, AloneThen
    <2> QED
      BY <1>2, <1>4, <1>5, <2>1, <2>2, <2>3 DEF Answers
  <1>7. CASE CreatePart(r)
    <2> DEFINE inode == <<r, PartOf(r)>>
    <2>1. \/ Settle(r, "error") /\ names' = Unlinked({Temporary(d)}) /\ data' = data
          \/ /\ Gains(r, "stream", "handle", inode) /\ names' = Named(Temporary(d), inode)
             /\ data' = Filled(inode, Partial)
      BY <1>1, <1>3, <1>7, EsciOutcome
    <2> HIDE DEF inode
    <2>2. d \notin DOMAIN names'
      BY <1>3, <2>1 DEF Unlinked, Named
    <2>3. CASE /\ Gains(r, "stream", "handle", inode) /\ names' = Named(Temporary(d), inode)
               /\ data' = Filled(inode, Partial)
      <3>1. /\ pc'[r] = "stream" /\ memo'[r].handle = inode
            /\ memo'[r].todo = memo[r].todo /\ memo'[r].input = memo[r].input
        BY <1>1, <2>3 DEF Gains, After, Staged
      <3>2. Destination(r)' = d /\ ~Placing(r)'
        BY <1>2, <3>1, Steady DEF Placing
      <3>3. /\ Temporary(d) \in DOMAIN names' /\ names'[Temporary(d)] = inode
            /\ data'[inode] = Partial
        BY <2>3, Leaving
      <3> QED
        BY <1>2, <2>2, <3>1, <3>2, <3>3, AloneThen
    <2> QED
      BY <1>2, <1>4, <1>5, <2>1, <2>2, <2>3 DEF Answers
  <1>8. CASE StreamPart(r)
    <2>1. PICK x : /\ data' = Filled(memo[r].handle, <<x>>)
                   /\ \/ Gains(r, "place", "handle", NoFile) /\ names' = names
                      \/ /\ Gains(r, "error", "handle", NoFile)
                         /\ names' = Unlinked({Temporary(d)})
      BY <1>1, <1>3, <1>8, EsciOutcome
    <2>2. d \notin DOMAIN names'
      BY <1>3, <2>1 DEF Unlinked
    <2>3. CASE Gains(r, "place", "handle", NoFile) /\ names' = names
      <3>1. /\ pc'[r] = "place" /\ memo'[r].todo = memo[r].todo
            /\ memo'[r].input = memo[r].input
        BY <1>1, <2>3 DEF Gains, After, Staged
      <3>2. Destination(r)' = d /\ ~Filling(r)'
        BY <1>2, <3>1, Steady DEF Filling
      <3>3. names[Temporary(d)] = memo[r].handle /\ Temporary(d) \in DOMAIN names
        BY <1>2, <1>8, Guards DEF Alone, Filling, Exists
      <3>4. data'[names'[Temporary(d)]] # Partial
        <4>1. <<x>> # Partial
          BY DEF Partial
        <4> QED
          BY <2>1, <2>3, <3>3, <4>1, Leaving
      <3> QED
        BY <1>2, <2>2, <2>3, <3>2, <3>3, <3>4, AloneThen
    <2>4. CASE Gains(r, "error", "handle", NoFile)
      BY <1>2, <1>4, <2>2, <2>4 DEF Gains, After, Answers
    <2> QED
      BY <2>1, <2>3, <2>4
  <1>9. CASE PlacePart(r)
    <2>1. /\ data' = data /\ (names' = names \/ names' = Moved(d))
          /\ \/ Settle(r, "broken")
             \/ Gains(r, "download", "todo", Tail(memo[r].todo))
      BY <1>1, <1>3, <1>9, EsciOutcome
    <2>2. ~Working(r)'
      BY <1>4, <1>5, <2>1 DEF Gains, After, Answers
    <2>3. data[names[Temporary(d)]] # Partial
      BY <1>2, <1>9, Guards DEF Alone, Placing, Whole
    <2>4. data'[names'[d]] # Partial \/ d \notin DOMAIN names'
      BY <1>3, <2>1, <2>3, Leaving
    <2> QED
      BY <1>2, <2>2, <2>4
  <1> QED
    BY <1>6, <1>7, <1>8, <1>9

\* Who is alone at its destination leaves a whole file there, or remains alone.
LEMMA WorkerStep ==
    ASSUME StagedInv, FilesInv, NEW r \in Made, Working(r), Alone(r), Step(r)
    PROVE  /\ Destination(r) \in DOMAIN names' => data'[names'[Destination(r)]] # Partial
           /\ Working(r)' => Alone(r)' /\ Destination(r)' = Destination(r)
  <1>1. Staged(r) /\ DOMAIN memo = Made /\ Moves(r) /\ Destination(r) \notin DOMAIN names
    BY StepStaged DEF StagedInv, Alone, Exists
  <1>2. CASE Crash(r)
    BY <1>1, <1>2, FileOutcome DEF Same, Settle, After, Working
  <1>3. CASE VerifyRecords(r) /\ Call[r].op = "sourceValidate"
    <2>1. Same /\ (Settle(r, "error") \/ \E x : Asks(r, x))
      BY <1>1, <1>3, EsciOutcome DEF Asks
    <2>2. CASE Settle(r, "error")
      BY <1>1, <2>1, <2>2 DEF Settle, After, Working, Same
    <2>3. CASE \E x : Asks(r, x)
      <3>1. pc'[r] = "open"
        BY <1>1, <2>3, Asking
      <3>2. Destination(r)' = Destination(r)
        BY <1>3 DEF Destination, Published, Packet
      <3> QED
        BY <1>1, <2>1, <3>1, <3>2, AloneThen DEF Filling, Placing, Same
    <2> QED
      BY <2>1, <2>2, <2>3
  <1>4. CASE /\ Call[r].op \in {"evaluate", "sourceValidate"} /\ ~Crash(r)
             /\ Call[r].op = "sourceValidate" => ~VerifyRecords(r)
    <2>1. \/ OpenFile(r) \/ WriteFile(r) \/ WriteFails(r)
          \/ Call[r].op = "evaluate" /\ ReplaceArtifact(r)
          \/ Call[r].op = "sourceValidate" /\ ReplacePublished(r)
      BY <1>1, <1>4, Guards DEF Moves, Working
    <2> QED
      BY <1>4, <2>1, WriterWorks, ReplacerWorks
  <1>5. CASE Call[r].op = "download" /\ ~Crash(r)
    <2>1. \/ ClearPart(r) \/ UnlinkPart(r) \/ CreatePart(r) \/ StreamPart(r)
          \/ DownloadFails(r) \/ PlacePart(r)
      BY <1>1, <1>5, Guards DEF Moves, Working
    <2> QED
      BY <1>5, <2>1, DownloadWorks
  <1> QED
    BY <1>2, <1>3, <1>4, <1>5 DEF Working

\* A command has one destination in all of its work.
LEMMA SameWork ==
    ASSUME StagedInv, NEW r \in Made, Working(r), Step(r), Working(r)'
    PROVE  Destination(r)' = Destination(r)
  <1>1. Staged(r) /\ DOMAIN memo = Made /\ Moves(r)
    BY StepStaged DEF StagedInv
  <1>2. CASE Call[r].op = "sourceValidate"
    BY <1>2 DEF Destination, Published, Packet
  <1>3. CASE Call[r].op = "evaluate"
    <2>1. memo'[r].input = memo[r].input
      BY <1>1, <1>3, Recording DEF Working
    <2> QED
      BY <1>3, <2>1 DEF Destination, Artifact, Config
  <1>4. CASE Call[r].op = "download"
    <2>1. \A to : Settle(r, to) => pc'[r] = to
      BY DEF Settle, After
    <2>2. ~Crash(r)
      BY <1>1, <1>4, <2>1, FileOutcome DEF Working
    <2>3. \/ ClearPart(r) \/ UnlinkPart(r) \/ CreatePart(r) \/ StreamPart(r)
          \/ DownloadFails(r) \/ PlacePart(r)
      BY <1>1, <1>4, <2>2, Guards DEF Moves, Working
    <2>4. CASE ClearPart(r) \/ UnlinkPart(r)
      BY <1>1, <1>4, <2>1, <2>4, EsciOutcome, Steady DEF Working, After
    <2>5. CASE CreatePart(r) \/ StreamPart(r)
      <3>1. /\ pc'[r] # "error"
            /\ \/ Settle(r, "error") \/ \E to, x : Gains(r, to, "handle", x)
        BY <1>1, <1>4, <2>5, EsciOutcome DEF Working
      <3>2. memo'[r].todo = memo[r].todo /\ memo'[r].input = memo[r].input
        BY <1>1, <2>1, <3>1 DEF Gains, Staged
      <3> QED
        BY <3>2, Steady
    <2>6. CASE DownloadFails(r) \/ PlacePart(r)
      BY <1>1, <1>4, <2>1, <2>6, EsciOutcome DEF Working, Gains, After
    <2> QED
      BY <2>3, <2>4, <2>5, <2>6
  <1> QED
    BY <1>2, <1>3, <1>4 DEF Working

\* Who sets to work has seen that nothing is there.
LEMMA Entering ==
    ASSUME StagedInv, NEW r \in Made, ~Working(r), Step(r), Working(r)'
    PROVE  Alone(r)'
  <1>1. Staged(r) /\ DOMAIN memo = Made /\ Moves(r)
    BY StepStaged DEF StagedInv
  <1>2. ASSUME NEW to, Lands(r, to)
        PROVE  pc'[r] = to
    BY <1>2 DEF Lands, After
  <1>3. CASE Call[r].op = "evaluate"
    <2>1. Look(r)
      <3>1. pc'[r] \in {"open", "write", "replace"} /\ pc[r] \notin {"open", "write", "replace"}
        BY <1>3 DEF Working
      <3>2. pc[r] = "look"
        BY <1>1, <1>3, <3>1, Recording DEF Answers
      <3>3. ~Crash(r)
        BY <1>1, <3>1, FileOutcome DEF Settle, After
      <3> QED
        BY <1>1, <1>3, <3>2, <3>3, Guards DEF Moves
    <2>2. PICK x : /\ ~Exists(Artifact(r)) /\ Asks(r, x) /\ Same
      BY <1>1, <1>3, <2>1, EvaluateOutcome DEF Asks, Settle, After, Working
    <2>3. pc'[r] = "open" /\ memo'[r].input = memo[r].input
      BY <1>1, <2>2, Asking
    <2>4. Destination(r)' = Artifact(r)
      BY <1>3, <2>3 DEF Destination, Artifact, Config
    <2> QED
      BY <2>2, <2>3, <2>4, AloneThen DEF Filling, Placing, Exists, Same
  <1>4. CASE Call[r].op = "sourceValidate"
    <2>1. MatchDraft(r)
      <3>1. pc[r] \notin {"verifyRecords", "open", "write", "replace"}
        BY <1>4 DEF Working
      <3>2. Begin(r) => pc'[r] = "match"
        <4>1. FirstStep["sourceValidate"] = "match"
          BY DEF FirstStep
        <4> QED
          BY <1>1, <1>4, <4>1, FileOutcome DEF After
      <3>3. Crash(r) => pc'[r] = "crashed"
        BY <1>1, FileOutcome DEF Settle, After
      <3> QED
        BY <1>1, <1>4, <3>1, <3>2, <3>3, Guards DEF Moves, Working
    <2>2. /\ ~Exists(Published(r)) /\ Same
          /\ Gains(r, "verifyRecords", "input", Content(Call[r].path))
      BY <1>1, <1>4, <2>1, EsciOutcome DEF Settle, After, Working
    <2>3. pc'[r] = "verifyRecords"
      BY <2>2 DEF Gains, After
    <2>4. Destination(r)' = Published(r)
      BY <1>4 DEF Destination, Published, Packet
    <2> QED
      BY <2>2, <2>3, <2>4, AloneThen DEF Filling, Placing, Exists, Same
  <1>5. CASE Call[r].op = "download"
    <2>1. NextSource(r)
      <3>1. pc[r] \notin {"clear", "unlink", "create", "stream", "place"}
        BY <1>5 DEF Working
      <3>2. Begin(r) => pc'[r] = "download"
        BY <1>1, <1>5, FileOutcome DEF Gains, After
      <3>3. Crash(r) => pc'[r] = "crashed"
        BY <1>1, FileOutcome DEF Settle, After
      <3> QED
        BY <1>1, <1>5, <3>1, <3>2, <3>3, Guards DEF Moves, Working
    <2>2. /\ ~Exists(Raw(Source(r))) /\ Same /\ After(r, "clear", memo[r])
      <3>1. Same /\ pc'[r] \notin {"done", "download", "error"}
        BY <1>1, <1>5, <2>1, EsciOutcome DEF Working
      <3> QED
        BY <1>1, <2>1, <3>1, EsciOutcome DEF Settle, Gains, After
    <2>3. pc'[r] = "clear" /\ memo'[r] = memo[r]
      BY <2>2 DEF After
    <2>4. Destination(r)' = Raw(Source(r))
      BY <1>5, <2>3, Steady, Destinations
    <2> QED
      BY <2>2, <2>3, <2>4, AloneThen DEF Filling, Placing, Exists, Same
  <1> QED
    BY <1>3, <1>4, <1>5 DEF Working

\* What is moved to a destination stays whole, and its only writer is alone, after a step.
LEMMA StepDest ==
    ASSUME IInv, RunsInv, DestInv, NEW r \in Made, Step(r)
    PROVE  DestInv'
  <1>1. /\ StagedInv /\ FilesInv /\ AllMet /\ Staged(r) /\ DOMAIN memo = Made
        /\ Call[r].op \in Operations /\ Frame(r) /\ Reaches(r)
    BY StepStaged, Reach, FilesAssumption DEF IInv, StagedInv
  <1>2. \A d : ~Crowded(d)' => ~Crowded(d)
    BY <1>1, CrowdStays
  <1>3. ASSUME NEW p \in DOMAIN names', Destined(p), ~Crowded(p)'
        PROVE  data'[names'[p]] # Partial
    <2>1. CASE p \in Touches(r) \/ Temporary(p) \in Touches(r)
      <3>1. Working(r) /\ Destination(r) = p
        BY <1>1, <1>3, <2>1, TouchDest
      <3>2. Alone(r)
        BY <1>2, <1>3, <3>1 DEF DestInv
      <3> QED
        BY <1>1, <3>1, <3>2, WorkerStep
    <2>2. CASE p \notin Touches(r) /\ Temporary(p) \notin Touches(r)
      <3>1. p \in DOMAIN names /\ names'[p] = names[p]
        BY <1>1, <2>2 DEF Reaches, Leaves
      <3>2. data[names[p]] # Partial
        BY <1>2, <1>3, <3>1 DEF DestInv, Whole
      <3>3. data'[names[p]] = data[names[p]]
        BY <1>1, <2>2, <3>1 DEF Reaches, FilesInv
      <3> QED
        BY <3>1, <3>2, <3>3
    <2> QED
      BY <2>1, <2>2
  <1>4. ASSUME NEW q \in Made, q # r, Working(q), ~Crowded(Destination(q))
        PROVE  Destination(q) \notin Touches(r) /\ Temporary(Destination(q)) \notin Touches(r)
    BY <1>1, <1>4, TouchDest, Crossing, Destinations
  <1>5. ASSUME NEW q \in Made, NEW d, Working(q)', d = Destination(q)', ~Crowded(d)'
        PROVE  Alone(q)'
    <2>1. CASE q = r
      <3>1. CASE ~Working(r)
        BY <1>1, <1>5, <2>1, <3>1, Entering
      <3>2. CASE Working(r)
        <4>1. Destination(r) = d
          BY <1>1, <1>5, <2>1, <3>2, SameWork
        <4>2. Alone(r)
          BY <1>2, <1>5, <3>2, <4>1 DEF DestInv
        <4> QED
          BY <1>1, <1>5, <2>1, <3>2, <4>2, WorkerStep
      <3> QED
        BY <3>1, <3>2
    <2>2. CASE q # r
      <3>1. pc'[q] = pc[q] /\ memo'[q] = memo[q]
        BY <1>1, <2>2 DEF Frame
      <3>2. Destination(q)' = Destination(q) /\ Working(q)
        BY <1>5, <3>1, Steady DEF Working
      <3>3. d = Destination(q)
        BY <1>5, <3>2
      <3>4. ~Crowded(d)
        BY <1>2, <1>5
      <3>5. Alone(q) /\ d \notin Touches(r) /\ Temporary(d) \notin Touches(r)
        BY <1>4, <2>2, <3>2, <3>3, <3>4 DEF DestInv
      <3>6. /\ d \notin DOMAIN names'
            /\ Temporary(d) \in DOMAIN names =>
                   /\ Temporary(d) \in DOMAIN names' /\ names'[Temporary(d)] = names[Temporary(d)]
        BY <1>1, <3>3, <3>5 DEF Alone, Exists, Reaches, Leaves
      <3>7. Temporary(d) \in DOMAIN names =>
                data'[names[Temporary(d)]] = data[names[Temporary(d)]]
        BY <1>1, <3>5, Paths DEF Reaches, FilesInv
      <3> QED
        BY <1>5, <3>1, <3>3, <3>5, <3>6, <3>7, AloneThen
           DEF Alone, Filling, Placing, Exists, Whole
    <2> QED
      BY <2>1, <2>2
  <1>6. \A p \in DOMAIN names' : Destined(p) /\ ~Crowded(p)' => Whole(p)'
    BY <1>3 DEF Whole, Exists
  <1> QED
    BY <1>1, <1>5, <1>6 DEF DestInv, Frame

-----------------------------------------------------------------------------
(* The packets for review *)

\* The review of a draft, and a packet at the paths d and v that is as it should be.
IsReview(review, draft) == "of" \in DOMAIN review /\ review.of = draft
Absent(d, v) == ~Exists(d) /\ ~Exists(v)
Complete(d, v) == Whole(d) /\ Whole(v) /\ IsReview(Content(v), Content(d))
Spoilt(writers) ==
    \E q \in writers : pc[q] = "crashed" \/ (Call[q].op = "approve" /\ pc[q] = "broken")

\* q writes the packet, and has got so far.
InPacket(q, d, v) == pc[q] \in {"open", "write"} /\ Path(q) \in {d, v}
Held(q, path) == Exists(path) /\ names[path] = memo[q].handle /\ data[names[path]] = Partial
PacketWork(q, d, v) ==
    \/ \E x, y : /\ memo[q].todo = << <<d, x>>, <<v, y>> >> /\ IsReview(y, x)
                 /\ pc[q] = "write" => Held(q, d)
                 /\ Call[q].op = "reviewCreate"
    \/ \E y : /\ memo[q].todo = << <<v, y>> >> /\ Whole(d) /\ IsReview(y, Content(d))
              /\ pc[q] = "write" => Held(q, v)

PacketState(writers, d, v) ==
    /\ Absent(d, v) \/ Complete(d, v) \/ \E q \in writers : InPacket(q, d, v)
    /\ \A q \in writers : InPacket(q, d, v) => PacketWork(q, d, v)
PacketInv ==
    \A r \in Made : Call[r].op = "reviewCreate" =>
        \A writers, d, v :
            writers = PacketWriters(r) /\ d = Draft(r) /\ v = Review(r) /\ ~Given(d) /\ ~Given(v) =>
                CrowdAt(writers) \/ Spoilt(writers) \/ PacketState(writers, d, v)

\* The writers of a packet write both of its files or the review, and not its dataset.
LEMMA PacketsOf ==
    ASSUME NEW r \in Made, Call[r].op = "reviewCreate", NEW q \in PacketWriters(r)
    PROVE  /\ q \in Made /\ Call[q].op \in {"reviewCreate", "approve"}
           /\ Call[q].version = Call[r].version
           /\ Draft(q) = Draft(r) /\ Review(q) = Review(r) /\ GoldenReview(q) = Review(r)
           /\ GoldenJson(q) \notin {Draft(r), Review(r)}
  <1>1. \A v, w, f : Packet(v, f) = Packet(w, f) => v = w
    BY Paths
  <1>2. GoldenReview(q) = Packet(Call[q].version, "review")
    BY DEF GoldenReview, Packet
  <1>3. Call[q].version = Call[r].version
    BY <1>1, <1>2 DEF PacketWriters, Draft, Review
  <1>4. GoldenJson(q) = Packet(Call[q].version, "json")
    BY DEF GoldenJson, Packet
  <1>5. GoldenJson(q)[3] = "json" /\ Draft(r)[3] = "draft" /\ Review(r)[3] = "review"
    BY <1>4, Paths DEF Draft, Review
  <1> QED
    BY <1>2, <1>3, <1>5 DEF PacketWriters, Draft, Review

\* Only its writers touch a packet.
LEMMA TouchPacket ==
    ASSUME NEW r \in Made, Call[r].op = "reviewCreate",
           NEW q \in Made, Staged(q), Call[q].op \in Operations,
           Draft(r) \in Touches(q) \/ Review(r) \in Touches(q)
    PROVE  q \in PacketWriters(r)
  <1>1. /\ Draft(r)[1] = "goldens" /\ Draft(r)[2] = Call[r].version /\ Draft(r)[3] = "draft"
        /\ Review(r)[1] = "goldens" /\ Review(r)[2] = Call[r].version /\ Review(r)[3] = "review"
    BY Paths DEF Draft, Review
  <1>2. Call[q].op \notin {"evaluate", "download", "prepare", "sourceValidate"}
    <2>1. Call[q].op = "evaluate" => \A p \in Touches(q) : p[1] \in {"runs", "temporary"}
      BY Paths DEF Touches, Artifact
    <2>2. Call[q].op = "download" => \A p \in Touches(q) : p[1] \in {"raw", "temporary"}
      BY Paths DEF Touches, PartOf
    <2>3. Call[q].op = "prepare" => \A p \in Touches(q) : p[1] = "processed"
      BY Paths DEF Touches
    <2>4. Call[q].op = "sourceValidate" =>
              \A p \in Touches(q) : p[1] = "temporary" \/ p[3] = "published"
      BY Paths DEF Touches, Published
    <2> QED
      BY <1>1, <2>1, <2>2, <2>3, <2>4
  <1>3. CASE Call[q].op = "reviewCreate"
    <2>1. Touches(q) \subseteq {Draft(q), Review(q)}
      BY <1>3 DEF Touches
    <2>2. Call[q].version = Call[r].version
      BY <1>1, <2>1, Paths DEF Draft, Review
    <2> QED
      BY <1>3, <2>2 DEF PacketWriters, Draft
  <1>4. CASE Call[q].op = "approve"
    <2>1. pc[q] \in {"open", "write"} /\ Touches(q) = {Path(q)}
      BY <1>4 DEF Touches
    <2>2. Path(q) = GoldenJson(q) \/ Path(q) = GoldenReview(q)
      BY <1>4, <2>1 DEF Staged, Pending, One, Path
    <2>3. GoldenJson(q)[3] = "json" /\ GoldenReview(q)[3] = "review" /\ GoldenReview(q)[2] = Call[q].version
      BY DEF GoldenJson, GoldenReview
    <2>4. Path(q) = Review(r)
      BY <1>1, <2>1, <2>2, <2>3
    <2>5. GoldenReview(q) = Review(r)
      BY <1>1, <2>2, <2>3, <2>4
    <2> QED
      BY <1>4, <2>5 DEF PacketWriters
  <1>5. CASE Call[q].op \in {"executeJob", "reviewScript", "esciVerify"}
    BY <1>5 DEF Touches
  <1> QED
    BY <1>2, <1>3, <1>4, <1>5 DEF Operations

\* Nobody else disturbs it.
LEMMA Undisturbed ==
    ASSUME FilesInv, NEW s \in Made, Reaches(s), NEW d, ~Destined(d), d \notin Touches(s)
    PROVE  /\ d \in DOMAIN names' <=> d \in DOMAIN names
           /\ d \in DOMAIN names => names'[d] = names[d] /\ data'[names[d]] = data[names[d]]
  BY DEF Reaches, Leaves, FilesInv

\* Who touches none of its files leaves a packet as it is.
LEMMA OthersPacket ==
    ASSUME FilesInv, NEW s \in Made, Reaches(s), Frame(s), NEW writers \in SUBSET Made, s \notin writers,
           NEW d, NEW v, ~Destined(d), ~Destined(v), d \notin Touches(s), v \notin Touches(s),
           PacketState(writers, d, v)
    PROVE  PacketState(writers, d, v)'
  <1>1. ASSUME NEW p \in {d, v}
        PROVE  /\ p \in DOMAIN names' <=> p \in DOMAIN names
               /\ p \in DOMAIN names => names'[p] = names[p] /\ data'[names[p]] = data[names[p]]
    BY Undisturbed
  <1>2. \A q \in writers : pc'[q] = pc[q] /\ memo'[q] = memo[q]
    BY DEF Frame
  <1>3. Absent(d, v) => Absent(d, v)'
    BY <1>1 DEF Absent, Exists
  <1>4. Complete(d, v) => Complete(d, v)'
    BY <1>1 DEF Complete, Exists, Whole, Content
  <1>5. \A q \in writers : InPacket(q, d, v)' <=> InPacket(q, d, v)
    BY <1>2 DEF InPacket, Path
  <1>6. ASSUME NEW q \in writers, PacketWork(q, d, v)
        PROVE  PacketWork(q, d, v)'
    <2>1. Whole(d) => Whole(d)' /\ Content(d)' = Content(d)
      BY <1>1 DEF Whole, Exists, Content
    <2>2. \A p \in {d, v} : Held(q, p) => Held(q, p)'
      BY <1>1, <1>2 DEF Held, Exists
    <2> QED
      BY <1>2, <1>6, <2>1, <2>2 DEF PacketWork
  <1> QED
    BY <1>3, <1>4, <1>5, <1>6 DEF PacketState

\* The last file of the packet is opened and written.
LEMMA LastFile ==
    ASSUME StagedInv, FilesInv, NEW q \in Made, NEW d, NEW v, NEW y,
           ~Destined(d), ~Destined(v), d # v, v[3] = "review",
           memo[q].todo = << <<v, y>> >>, Whole(d), IsReview(y, Content(d)),
           pc[q] = "write" => Held(q, v),
           Call[q].op \in {"reviewCreate", "approve"},
           OpenFile(q) \/ WriteFile(q)
    PROVE  (InPacket(q, d, v) /\ PacketWork(q, d, v))' \/ (Complete(d, v) /\ ~InPacket(q, d, v))'
  <1>1. Staged(q) /\ DOMAIN memo = Made /\ Path(q) = v
    BY DEF StagedInv, Path
  <1>2. d \in DOMAIN names /\ names[d] \in DOMAIN data /\ names[d][2] = d /\ data[names[d]] # Partial
    BY DEF FilesInv, Whole, Exists
  <1>3. CASE OpenFile(q)
    <2>1. PICK inode : /\ inode = IF Exists(Path(q)) THEN names[Path(q)] ELSE <<q, Path(q)>>
                       /\ names' = Named(v, inode) /\ data' = Filled(inode, Partial)
                       /\ Goto(q, "write") /\ Remember(q, [memo[q] EXCEPT !.handle = inode])
      BY <1>1, <1>3 DEF OpenFile
    <2>2. inode[2] = v
      BY <1>1, <2>1 DEF FilesInv, Exists
    <2>3. memo'[q].handle = inode /\ memo'[q].todo = memo[q].todo /\ pc'[q] = "write"
      BY <1>1, <2>1 DEF Staged, Goto, Remember, Made
    <2>4. v \in DOMAIN names' /\ names'[v] = inode /\ data'[inode] = Partial
      BY <2>1, Leaving
    <2>5. d \in DOMAIN names' /\ names'[d] = names[d] /\ data'[names[d]] = data[names[d]]
      <3>1. Leaves({v}) /\ Keeps({inode})
        BY <2>1, Leaving
      <3> QED
        BY <1>2, <2>2, <3>1 DEF Leaves, Keeps
    <2>6. Held(q, v)'
      BY <2>3, <2>4 DEF Held, Exists
    <2>7. Whole(d)' /\ Content(d)' = Content(d)
      BY <1>2, <2>5 DEF Whole, Exists, Content
    <2>8. PacketWork(q, d, v)'
      BY <2>3, <2>6, <2>7 DEF PacketWork
    <2>9. InPacket(q, d, v)'
      BY <2>3 DEF InPacket, Path
    <2> QED
      BY <2>8, <2>9
  <1>4. CASE WriteFile(q)
    <2>1. pc[q] = "write" /\ v \in DOMAIN names /\ names[v] = memo[q].handle
          /\ data[memo[q].handle] = Partial
      BY <1>4, Guards DEF Held, Exists
    <2>2. data' = Filled(memo[q].handle, <<y>>) /\ names' = names
      BY <1>4, <2>1 DEF WriteFile
    <2>3. Onwards(q) = "written"
      BY DEF Onwards, AfterWriting
    <2>4. pc'[q] = "written"
      BY <1>1, <1>4, <2>3, FileOutcome DEF After
    <2>5. names[v][2] = v
      BY <2>1 DEF FilesInv
    <2>6. data'[names[v]] = <<y>> /\ data'[names[d]] = data[names[d]]
      <3>1. Keeps({memo[q].handle}) /\ data'[memo[q].handle] = <<y>>
        BY <2>2, Leaving
      <3> QED
        BY <1>2, <2>1, <2>5, <3>1 DEF Keeps
    <2>7. <<y>> # Partial /\ <<y>>[1] = y
      BY DEF Partial
    <2>8. Complete(d, v)'
      BY <1>2, <2>1, <2>2, <2>6, <2>7 DEF Complete, Whole, Exists, Content
    <2> QED
      BY <2>4, <2>8 DEF InPacket
  <1> QED
    BY <1>3, <1>4

\* Of the writers of a packet q takes a step, and no other one runs.
LEMMA CreatorStep ==
    ASSUME StagedInv, FilesInv, NEW q \in Made, Step(q), NEW d, NEW v,
           Call[q].op = "reviewCreate", d = Draft(q), v = Review(q),
           Absent(d, v) \/ Complete(d, v) \/ InPacket(q, d, v),
           InPacket(q, d, v) => PacketWork(q, d, v)
    PROVE  \/ (Absent(d, v) \/ Complete(d, v))' /\ ~InPacket(q, d, v)'
           \/ (InPacket(q, d, v) /\ PacketWork(q, d, v))'
           \/ pc'[q] = "crashed"
  <1>1. Staged(q) /\ DOMAIN memo = Made /\ Moves(q) /\ Reaches(q)
    BY StepStaged, Reach DEF StagedInv
  <1>2. ~Destined(d) /\ ~Destined(v) /\ d # v /\ v[3] = "review"
    BY Paths DEF Draft, Review
  <1>3. \A to : Settle(q, to) => pc'[q] = to
    BY DEF Settle, After
  <1>4. CASE ~InPacket(q, d, v)
    <2>1. pc[q] \notin {"open", "write"}
      BY <1>1, <1>4 DEF Staged, Pending, One, Two, InPacket, Path
    <2>2. Begin(q) \/ Crash(q) \/ Written(q) \/ CheckPacket(q) \/ CreatePacket(q)
      BY <1>1, <2>1, Guards DEF Moves
    <2>3. ASSUME Same, pc'[q] \notin {"open", "write"}
          PROVE  (Absent(d, v) \/ Complete(d, v))' /\ ~InPacket(q, d, v)'
      BY <1>4, <2>3 DEF Same, Absent, Complete, Whole, Exists, Content, InPacket
    <2>4. CASE Begin(q) \/ Crash(q) \/ Written(q) \/ CheckPacket(q)
      <3>1. Same
        BY <1>1, <2>4, FileOutcome, EsciOutcome
      <3>2. pc'[q] \notin {"open", "write"}
        <4>1. FirstStep["reviewCreate"] = "exists"
          BY DEF FirstStep
        <4>2. Begin(q) => pc'[q] = "exists"
          BY <1>1, <4>1, FileOutcome DEF After
        <4>3. CheckPacket(q) => pc'[q] \in {"selectCases", "error"}
          BY <1>1, <1>3, EsciOutcome DEF After
        <4> QED
          BY <1>1, <1>3, <2>4, <4>2, <4>3, FileOutcome
      <3> QED
        BY <2>3, <3>1, <3>2
    <2>5. CASE CreatePacket(q)
      <3>1. CASE Settle(q, "error") /\ Same
        BY <1>3, <2>3, <3>1
      <3>2. CASE \E selected, review :
                     /\ Asks(q, << <<Draft(q), selected>>, <<Review(q), review>> >>)
                     /\ "of" \in DOMAIN review /\ review.of = selected
        <4>1. PICK x, y : Asks(q, << <<d, x>>, <<v, y>> >>) /\ IsReview(y, x)
          BY <3>2 DEF IsReview
        <4>2. pc'[q] = "open" /\ memo'[q].todo = << <<d, x>>, <<v, y>> >>
          BY <1>1, <4>1, Asking
        <4> QED
          BY <4>1, <4>2 DEF InPacket, PacketWork, Path
      <3> QED
        BY <1>1, <2>5, <3>1, <3>2, EsciOutcome
    <2> QED
      BY <2>2, <2>4, <2>5
  <1>5. CASE InPacket(q, d, v)
    <2>1. pc[q] \in {"open", "write"}
      BY <1>5 DEF InPacket
    <2>2. OpenFile(q) \/ WriteFile(q) \/ WriteFails(q) \/ Crash(q)
      BY <1>1, <2>1, Guards DEF Moves
    <2>3. CASE Crash(q)
      BY <1>1, <1>3, <2>3, FileOutcome
    <2>4. CASE WriteFails(q)
      <3>1. names' = Unlinked({d, v}) /\ pc'[q] = "broken"
        BY <1>1, <1>3, <2>4, FileOutcome DEF CleanedUp
      <3>2. d \notin DOMAIN names' /\ v \notin DOMAIN names'
        BY <3>1, Leaving
      <3> QED
        BY <3>1, <3>2 DEF Absent, Exists, InPacket
    <2>5. CASE /\ OpenFile(q) \/ WriteFile(q)
               /\ \E y : /\ memo[q].todo = << <<v, y>> >> /\ Whole(d) /\ IsReview(y, Content(d))
                         /\ pc[q] = "write" => Held(q, v)
      BY <1>2, <2>5, LastFile
    <2>6. CASE /\ OpenFile(q)
               /\ \E x, y : /\ memo[q].todo = << <<d, x>>, <<v, y>> >> /\ IsReview(y, x)
                            /\ pc[q] = "write" => Held(q, d)
      <3>1. PICK x, y : memo[q].todo = << <<d, x>>, <<v, y>> >> /\ IsReview(y, x)
        BY <2>6
      <3>2. Path(q) = d
        BY <3>1 DEF Path
      <3>3. PICK inode : /\ names' = Named(d, inode) /\ data' = Filled(inode, Partial)
                         /\ Goto(q, "write") /\ Remember(q, [memo[q] EXCEPT !.handle = inode])
        BY <2>6, <3>2 DEF OpenFile
      <3>4. memo'[q].handle = inode /\ memo'[q].todo = memo[q].todo /\ pc'[q] = "write"
        BY <1>1, <3>3 DEF Staged, Goto, Remember, Made
      <3>5. d \in DOMAIN names' /\ names'[d] = inode /\ data'[inode] = Partial
        BY <3>3, Leaving
      <3>6. Held(q, d)'
        BY <3>4, <3>5 DEF Held, Exists
      <3> QED
        BY <3>1, <3>4, <3>6 DEF InPacket, PacketWork, Path
    <2>7. CASE /\ WriteFile(q)
               /\ \E x, y : /\ memo[q].todo = << <<d, x>>, <<v, y>> >> /\ IsReview(y, x)
                            /\ pc[q] = "write" => Held(q, d)
      <3>1. PICK x, y : /\ memo[q].todo = << <<d, x>>, <<v, y>> >> /\ IsReview(y, x)
                        /\ pc[q] = "write" => Held(q, d)
        BY <2>7
      <3>2. pc[q] = "write" /\ d \in DOMAIN names /\ names[d] = memo[q].handle
            /\ data[memo[q].handle] = Partial
        BY <2>7, <3>1, Guards DEF Held, Exists
      <3>3. data' = Filled(memo[q].handle, <<x>>) /\ names' = names
        BY <2>7, <3>1, <3>2 DEF WriteFile
      <3>4. Onwards(q) = "open" /\ Tail(memo[q].todo) = << <<v, y>> >>
        BY <3>1 DEF Onwards
      <3>5. pc'[q] = "open" /\ memo'[q].todo = << <<v, y>> >>
        BY <1>1, <2>7, <3>4, FileOutcome DEF After, Staged
      <3>6. data'[memo[q].handle] = <<x>>
        BY <3>3, Leaving
      <3>7. <<x>> # Partial /\ <<x>>[1] = x
        BY DEF Partial
      <3>8. Whole(d)' /\ Content(d)' = x
        BY <3>2, <3>3, <3>6, <3>7 DEF Whole, Exists, Content
      <3> QED
        BY <3>1, <3>5, <3>8 DEF InPacket, PacketWork, Path
    <2> QED
      BY <1>5, <2>2, <2>3, <2>4, <2>5, <2>6, <2>7 DEF PacketWork
  <1> QED
    BY <1>4, <1>5

\* A step of an approval that is alone with a packet.
LEMMA ApproverStep ==
    ASSUME StagedInv, FilesInv, NEW q \in Made, Step(q), NEW d, NEW v,
           Call[q].op = "approve", v = GoldenReview(q), ~Destined(d), ~Destined(v), d # v,
           GoldenJson(q) \notin {d, v}, GoldenReview(q) # d,
           Absent(d, v) \/ Complete(d, v) \/ InPacket(q, d, v),
           InPacket(q, d, v) => PacketWork(q, d, v)
    PROVE  \/ (Absent(d, v) \/ Complete(d, v))' /\ ~InPacket(q, d, v)'
           \/ (InPacket(q, d, v) /\ PacketWork(q, d, v))'
           \/ pc'[q] \in {"crashed", "broken"}
  <1>1. Staged(q) /\ DOMAIN memo = Made /\ Moves(q) /\ Reaches(q)
    BY StepStaged, Reach DEF StagedInv
  <1>2. v[3] = "review"
    BY DEF GoldenReview
  <1>3. \A to : Settle(q, to) => pc'[q] = to
    BY DEF Settle, After
  <1>4. ASSUME ~InPacket(q, d, v), ~InPacket(q, d, v)', d \notin Touches(q), v \notin Touches(q)
        PROVE  (Absent(d, v) \/ Complete(d, v))' /\ ~InPacket(q, d, v)'
    <2>1. \A p \in {d, v} :
              /\ p \in DOMAIN names' <=> p \in DOMAIN names
              /\ p \in DOMAIN names => names'[p] = names[p] /\ data'[names[p]] = data[names[p]]
      BY <1>1, <1>4, Undisturbed
    <2> QED
      BY <1>4, <2>1 DEF Absent, Complete, Whole, Exists, Content
  <1>5. CASE pc[q] \notin {"open", "write"}
    <2>1. ~InPacket(q, d, v) /\ Touches(q) = {}
      BY <1>5 DEF InPacket, Touches
    <2>2. Begin(q) \/ Crash(q) \/ Written(q) \/ ApproveGolden(q) \/ RecordApproval(q)
      BY <1>1, <1>5, Guards DEF Moves
    <2>3. CASE Begin(q) \/ Crash(q) \/ Written(q)
      <3>1. pc'[q] \notin {"open", "write"}
        <4>1. FirstStep["approve"] = "approve"
          BY DEF FirstStep
        <4>2. Begin(q) => pc'[q] = "approve"
          BY <1>1, <4>1, FileOutcome DEF After
        <4> QED
          BY <1>1, <1>3, <2>3, <4>2, FileOutcome
      <3> QED
        BY <1>4, <2>1, <3>1 DEF InPacket
    <2>4. CASE ApproveGolden(q)
      <3>1. CASE Settle(q, "error")
        BY <1>3, <1>4, <2>1, <3>1 DEF InPacket
      <3>2. ASSUME NEW x, Asks(q, << <<GoldenJson(q), x>> >>)
            PROVE  ~InPacket(q, d, v)'
        <4>1. memo'[q].todo = << <<GoldenJson(q), x>> >>
          BY <1>1, <3>2, Asking
        <4> QED
          BY <4>1 DEF InPacket, Path
      <3> QED
        BY <1>1, <1>4, <2>1, <2>4, <3>1, <3>2, EvaluateOutcome
    <2>5. CASE RecordApproval(q)
      <3>1. CASE Settle(q, "error")
        BY <1>3, <1>4, <2>1, <3>1 DEF InPacket
      <3>2. CASE \E what : /\ Exists(v) /\ Asks(q, << <<v, what>> >>)
                           /\ Whole(v) => what = [Content(v) EXCEPT !.approvals = @ + 1]
        <4>1. Complete(d, v)
          BY <2>1, <3>2 DEF Absent
        <4>2. PICK what : /\ Asks(q, << <<v, what>> >>)
                          /\ what = [Content(v) EXCEPT !.approvals = @ + 1]
          BY <3>2, <4>1 DEF Complete
        <4>3. IsReview(what, Content(d))
          BY <4>1, <4>2 DEF Complete, IsReview
        <4>4. pc'[q] = "open" /\ memo'[q].todo = << <<v, what>> >> /\ Same
          BY <1>1, <4>2, Asking DEF Asks
        <4>5. Whole(d)' /\ Content(d)' = Content(d)
          BY <4>1, <4>4 DEF Complete, Whole, Exists, Content, Same
        <4> QED
          BY <4>3, <4>4, <4>5 DEF InPacket, PacketWork, Path
      <3> QED
        BY <1>1, <2>5, <3>1, <3>2, EvaluateOutcome
    <2> QED
      BY <2>2, <2>3, <2>4, <2>5
  <1>6. CASE pc[q] \in {"open", "write"} /\ ~InPacket(q, d, v)
    <2>1. Touches(q) = {Path(q)}
      BY <1>6 DEF Touches
    <2>2. d \notin Touches(q) /\ v \notin Touches(q)
      BY <1>6, <2>1 DEF InPacket
    <2>3. OpenFile(q) \/ WriteFile(q) \/ WriteFails(q) \/ Crash(q)
      BY <1>1, <1>6, Guards DEF Moves
    <2>4. CASE WriteFails(q) \/ Crash(q)
      BY <1>1, <1>3, <2>4, FileOutcome
    <2>5. CASE OpenFile(q)
      <3>1. PICK inode : Gains(q, "write", "handle", inode)
        BY <1>1, <2>5, FileOutcome
      <3>2. memo'[q].todo = memo[q].todo
        BY <1>1, <3>1 DEF Gains, Staged
      <3> QED
        BY <1>4, <1>6, <2>2, <3>2 DEF InPacket, Path
    <2>6. CASE WriteFile(q)
      <3>1. One(q, GoldenJson(q)) \/ One(q, GoldenReview(q))
        BY <1>1, <1>6 DEF Staged, Pending
      <3>2. Onwards(q) = AfterWriting(q)
        <4>1. PICK path, x : memo[q].todo = << <<path, x>> >>
          BY <3>1 DEF One
        <4> QED
          BY <4>1 DEF Onwards
      <3>3. AfterWriting(q) \in {"readReview", "written"}
        BY DEF AfterWriting
      <3>4. pc'[q] = Onwards(q)
        BY <1>1, <2>6, FileOutcome DEF After
      <3> QED
        BY <1>4, <1>6, <2>2, <3>2, <3>3, <3>4 DEF InPacket
    <2> QED
      BY <2>3, <2>4, <2>5, <2>6
  <1>7. CASE InPacket(q, d, v)
    <2>1. OpenFile(q) \/ WriteFile(q) \/ WriteFails(q) \/ Crash(q)
      BY <1>1, <1>7, Guards DEF Moves, InPacket
    <2>2. CASE WriteFails(q) \/ Crash(q)
      BY <1>1, <1>3, <2>2, FileOutcome
    <2>3. CASE OpenFile(q) \/ WriteFile(q)
      BY <1>2, <1>7, <2>3, LastFile DEF PacketWork
    <2> QED
      BY <2>1, <2>2, <2>3
  <1> QED
    BY <1>5, <1>6, <1>7

\* What was there at the start was there before the step.
LEMMA Givens ==
    ASSUME NEW s \in Made, Made \subseteq Commands, Reaches(s), NEW d, ~Given(d)'
    PROVE  ~Given(d)
  BY DEF Reaches, Given

\* A packet is absent, complete or being written by the only one of its writers that runs.
LEMMA StepPacket ==
    ASSUME IInv, PacketInv, NEW s \in Made, Step(s)
    PROVE  PacketInv'
  <1>1. /\ StagedInv /\ FilesInv /\ AllMet /\ Staged(s) /\ DOMAIN memo = Made
        /\ Made \subseteq Commands /\ Call[s].op \in Operations /\ Frame(s) /\ Reaches(s) /\ Moves(s)
    BY StepStaged, Reach, FilesAssumption DEF IInv, StagedInv
  <1>2. AllMet' /\ met \subseteq met'
    BY <1>1, StepMet
  <1>3. ASSUME NEW r \in Made, Call[r].op = "reviewCreate", NEW writers, NEW d, NEW v,
               writers = PacketWriters(r)', d = Draft(r)', v = Review(r)',
               ~Given(d)', ~Given(v)', ~CrowdAt(writers)', ~Spoilt(writers)'
        PROVE  PacketState(writers, d, v)'
    <2>1. writers = PacketWriters(r) /\ d = Draft(r) /\ v = Review(r)
      BY <1>1, <1>3 DEF PacketWriters, Draft, Review, Packet, GoldenReview, Frame
    <2>2. ~Given(d) /\ ~Given(v)
      BY <1>1, <1>3, Givens
    <2>3. ~CrowdAt(writers)
      BY <1>2, <1>3 DEF CrowdAt, Met
    <2>4. ~Spoilt(writers)
      <3>1. ASSUME NEW q \in Made, pc[q] \in {"crashed", "broken"}
            PROVE  pc'[q] = pc[q]
        <4>1. CASE q = s
          BY <1>1, <3>1, <4>1, Meeting, Guards DEF Open, Answers
        <4> QED
          BY <1>1, <4>1 DEF Frame
      <3> QED
        BY <1>3, <2>1, <3>1 DEF Spoilt, PacketWriters
    <2>5. PacketState(writers, d, v)
      BY <1>3, <2>1, <2>2, <2>3, <2>4 DEF PacketInv
    <2>6. ~Destined(d) /\ ~Destined(v) /\ d # v /\ writers \subseteq Made
      BY <2>1, Paths DEF Draft, Review, PacketWriters
    <2>7. CASE s \notin writers
      <3>1. d \notin Touches(s) /\ v \notin Touches(s)
        BY <1>1, <1>3, <2>1, <2>7, TouchPacket
      <3> QED
        BY <1>1, <2>5, <2>6, <2>7, <3>1, OthersPacket
    <2>8. CASE s \in writers
      <3>1. ASSUME NEW q \in writers, q # s
            PROVE  ~InPacket(q, d, v) /\ ~InPacket(q, d, v)'
        <4>1. pc'[q] = pc[q]
          BY <1>1, <2>6, <3>1 DEF Frame
        <4>2. ~Open(q)
          <5>1. CASE Begin(s)
            <6>1. Open(q) => Met(s, q)'
              BY <2>6, <3>1, <5>1 DEF Begin, Met
            <6> QED
              BY <1>3, <2>8, <3>1, <6>1 DEF CrowdAt
          <5>2. CASE Open(s)
            BY <1>1, <2>3, <2>6, <2>8, <3>1, <5>2 DEF AllMet, CrowdAt
          <5> QED
            BY <1>1, <5>1, <5>2, Meeting
        <4> QED
          BY <4>1, <4>2 DEF InPacket, Open, Answers
      <3>2. Absent(d, v) \/ Complete(d, v) \/ InPacket(s, d, v)
        BY <2>5, <3>1 DEF PacketState
      <3>3. InPacket(s, d, v) => PacketWork(s, d, v)
        BY <2>5, <2>8 DEF PacketState
      <3>4. /\ Call[s].op \in {"reviewCreate", "approve"}
            /\ Draft(s) = d /\ Review(s) = v /\ GoldenReview(s) = v /\ GoldenJson(s) \notin {d, v}
        BY <1>3, <2>1, <2>8, PacketsOf
      <3>5. \/ (Absent(d, v) \/ Complete(d, v))' /\ ~InPacket(s, d, v)'
            \/ (InPacket(s, d, v) /\ PacketWork(s, d, v))'
        <4>1. CASE Call[s].op = "reviewCreate"
          <5>1. pc'[s] # "crashed"
            BY <1>3, <2>8 DEF Spoilt
          <5> QED
            BY <1>1, <3>2, <3>3, <3>4, <4>1, <5>1, CreatorStep
        <4>2. CASE Call[s].op = "approve"
          <5>1. pc'[s] \notin {"crashed", "broken"}
            BY <1>3, <2>8, <4>2 DEF Spoilt
          <5> QED
            BY <1>1, <2>6, <3>2, <3>3, <3>4, <4>2, <5>1, ApproverStep
        <4> QED
          BY <3>4, <4>1, <4>2
      <3> QED
        BY <2>8, <3>1, <3>5 DEF PacketState
    <2> QED
      BY <2>7, <2>8
  <1> QED
    BY <1>1, <1>3 DEF PacketInv, Frame

-----------------------------------------------------------------------------
(* The processed folders *)

\* A command that prepares a subset has made the folder, until it fails.
Prepares(r) ==
    Call[r].op = "prepare" /\ pc[r] \in {"select", "open", "write", "report", "verify"}
Owned(r) ==
    LET folder == Folder(Call[r].version)
    IN  folder \in DOMAIN names /\ names[folder] = <<r, folder>>
FolderAt(v) ==
    /\ ~Exists(Folder(v)) => \A f \in AllFiles : ~Exists(Processed(v, f))
    /\ Exists(Folder(v)) =>
          \E q \in Preparers(v) :
              /\ Owned(q) /\ (Prepares(q) \/ pc[q] \in {"done", "crashed"})
              /\ pc[q] = "done" => Verified(v)
FolderInv ==
    /\ \A r \in Made : Prepares(r) => Owned(r)
    /\ \A r \in Made : \A v :
          Call[r].op = "prepare" /\ v = Call[r].version /\ ~Given(Folder(v)) => FolderAt(v)

FolderPaths(v) == {Folder(v)} \union {Processed(v, f) : f \in AllFiles}

\* Only who prepares that version touches its folder.
LEMMA TouchFolder ==
    ASSUME NEW s \in Made, Staged(s), Call[s].op \in Operations, NEW v, NEW p \in FolderPaths(v),
           p \in Touches(s)
    PROVE  Call[s].op = "prepare" /\ Call[s].version = v
  <1>1. p[1] = "processed" /\ p[2] = v
    BY Paths DEF FolderPaths
  <1>2. Call[s].op = "evaluate" => p[1] \in {"runs", "temporary"}
    BY Paths DEF Touches, Artifact
  <1>3. Call[s].op = "download" => p[1] \in {"raw", "temporary"}
    BY Paths DEF Touches, PartOf
  <1>4. Call[s].op = "sourceValidate" => p[1] \in {"goldens", "temporary"}
    BY Paths DEF Touches, Published
  <1>5. Call[s].op = "reviewCreate" => p[1] = "goldens"
    BY Paths DEF Touches, Draft, Review
  <1>6. Call[s].op = "approve" => p[1] = "goldens"
    <2> SUFFICES ASSUME Call[s].op = "approve"
                 PROVE  p[1] = "goldens"
      OBVIOUS
    <2>1. pc[s] \in {"open", "write"} /\ Touches(s) = {Path(s)}
      BY DEF Touches
    <2>2. Path(s) = GoldenJson(s) \/ Path(s) = GoldenReview(s)
      BY <2>1 DEF Staged, Pending, One, Path
    <2> QED
      BY <2>1, <2>2 DEF GoldenJson, GoldenReview
  <1>7. Call[s].op \in {"executeJob", "reviewScript", "esciVerify"} => FALSE
    BY DEF Touches
  <1>8. Call[s].op = "prepare" => p[2] = Call[s].version
    BY Paths DEF Touches
  <1> QED
    BY <1>1, <1>2, <1>3, <1>4, <1>5, <1>6, <1>7, <1>8 DEF Operations

\* What no step touches stays.
LEMMA FolderStays ==
    ASSUME FilesInv, NEW s \in Made, Reaches(s), NEW v, FolderPaths(v) \intersect Touches(s) = {}
    PROVE  /\ Folder(v) \in DOMAIN names' <=> Folder(v) \in DOMAIN names
           /\ Folder(v) \in DOMAIN names => names'[Folder(v)] = names[Folder(v)]
           /\ \A f \in AllFiles : Exists(Processed(v, f))' <=> Exists(Processed(v, f))
           /\ \A f \in AllFiles :
                  /\ Whole(Processed(v, f))' <=> Whole(Processed(v, f))
                  /\ Whole(Processed(v, f)) => Content(Processed(v, f))' = Content(Processed(v, f))
           /\ Verified(v)' <=> Verified(v)
  <1>1. ASSUME NEW p \in FolderPaths(v)
        PROVE  /\ p \in DOMAIN names' <=> p \in DOMAIN names
               /\ p \in DOMAIN names => names'[p] = names[p] /\ data'[names[p]] = data[names[p]]
    <2>1. ~Destined(p) /\ p \notin Touches(s)
      BY Paths DEF FolderPaths
    <2> QED
      BY <2>1, Undisturbed
  <1>2. Folder(v) \in FolderPaths(v) /\ \A f \in AllFiles : Processed(v, f) \in FolderPaths(v)
    BY DEF FolderPaths
  <1>3. ASSUME NEW f \in AllFiles
        PROVE  /\ Exists(Processed(v, f))' <=> Exists(Processed(v, f))
               /\ Whole(Processed(v, f))' <=> Whole(Processed(v, f))
               /\ Whole(Processed(v, f)) => Content(Processed(v, f))' = Content(Processed(v, f))
    <2>1. PICK p : p = Processed(v, f)
      OBVIOUS
    <2>2. /\ Exists(p)' <=> Exists(p)
          /\ Whole(p)' <=> Whole(p)
          /\ Whole(p) => Content(p)' = Content(p)
      BY <1>1, <1>2, <2>1 DEF Exists, Whole, Content
    <2>3. Processed(v, f)' = p
      BY <2>1 DEF Processed
    <2> QED
      BY <2>1, <2>2, <2>3 DEF Exists, Whole, Content
  <1>4. Verified(v)' <=> Verified(v)
    <2>1. "quality-report.json" \in AllFiles /\ OutputFiles \subseteq AllFiles
      BY DEF AllFiles
    <2>2. ASSUME Whole(Processed(v, "quality-report.json"))
          PROVE  \A f \in OutputFiles : Matches(v, f)' <=> Matches(v, f)
      BY <1>3, <2>1, <2>2 DEF Matches
    <2> QED
      BY <1>3, <2>1, <2>2 DEF Verified
  <1> QED
    BY <1>1, <1>2, <1>3, <1>4

\* A step of a command that prepares a subset in the folder that it has made.
LEMMA PreparerStep ==
    ASSUME StagedInv, FilesInv, NEW s \in Made, Step(s), Prepares(s), Owned(s),
           NEW v, v = Call[s].version
    PROVE  \/ /\ Folder(v) \in DOMAIN names' /\ names'[Folder(v)] = <<s, Folder(v)>>
              /\ Prepares(s)' \/ pc'[s] \in {"done", "crashed"}
              /\ pc'[s] = "done" => Verified(v)'
           \/ /\ Folder(v) \notin DOMAIN names' /\ ~Prepares(s)'
              /\ \A f \in AllFiles : Processed(v, f) \notin DOMAIN names'
  <1> DEFINE kept == /\ Folder(v) \in DOMAIN names' /\ names'[Folder(v)] = <<s, Folder(v)>>
                     /\ Prepares(s)' \/ pc'[s] \in {"done", "crashed"}
                     /\ pc'[s] = "done" => Verified(v)'
             gone == /\ Folder(v) \notin DOMAIN names' /\ ~Prepares(s)'
                     /\ \A f \in AllFiles : Processed(v, f) \notin DOMAIN names'
  <1>1. /\ Staged(s) /\ DOMAIN memo = Made /\ Moves(s) /\ Call[s].op = "prepare"
        /\ Folder(v) \in DOMAIN names /\ names[Folder(v)] = <<s, Folder(v)>>
    BY StepStaged DEF StagedInv, Prepares, Owned
  <1>2. \A to : Settle(s, to) => pc'[s] = to
    BY DEF Settle, After
  <1>3. ASSUME Same, Prepares(s)' \/ pc'[s] = "crashed"
        PROVE  kept
    BY <1>1, <1>3 DEF Same, Prepares
  <1>4. ASSUME names' = WithoutFolder(v), pc'[s] \in {"error", "broken"}
        PROVE  gone
    <2>1. names' = Unlinked({Folder(v)} \union FolderFiles(v))
      BY <1>4 DEF WithoutFolder
    <2>2. \A f \in AllFiles : Processed(v, f) \notin DOMAIN names'
      BY <2>1 DEF Unlinked, FolderFiles, AllFiles
    <2>3. Folder(v) \notin DOMAIN names'
      BY <2>1, Leaving
    <2> QED
      BY <1>4, <2>2, <2>3 DEF Prepares
  <1>5. CASE Crash(s)
    BY <1>1, <1>2, <1>3, <1>5, FileOutcome
  <1>6. CASE WriteFails(s)
    BY <1>1, <1>2, <1>4, <1>6, FileOutcome DEF CleanedUp
  <1>7. CASE OpenFile(s) \/ WriteFile(s)
    <2>1. Prepares(s)'
      <3>1. OpenFile(s) => pc'[s] = "write"
        BY <1>1, FileOutcome DEF Gains, After
      <3>2. WriteFile(s) => pc'[s] = Onwards(s)
        BY <1>1, FileOutcome DEF After
      <3>3. Onwards(s) \in {"open", "verify", "report"}
        BY <1>1 DEF Onwards, AfterWriting
      <3> QED
        BY <1>1, <1>7, <3>1, <3>2, <3>3 DEF Prepares
    <2>2. Path(s) # Folder(v)
      <3>1. PICK f : Path(s) = Processed(v, f)
        BY <1>1, <1>7, Guards DEF Staged, Pending, One, Two, Three, Path
      <3> QED
        BY <3>1, Paths
    <2>3. names' = names \/ \E inode : names' = Named(Path(s), inode)
      BY <1>7 DEF OpenFile, WriteFile
    <2>4. Folder(v) \in DOMAIN names' /\ names'[Folder(v)] = names[Folder(v)]
      BY <1>1, <2>2, <2>3 DEF Named
    <2> QED
      BY <1>1, <2>1, <2>4 DEF Prepares
  <1>8. CASE SelectSubset(s)
    <2>1. \/ Settle(s, "error") /\ names' = WithoutFolder(v)
          \/ \E x : Asks(s, x)
      BY <1>1, <1>8, EsciOutcome
    <2>2. CASE \E x : Asks(s, x)
      BY <1>1, <1>3, <2>2, Asking DEF Prepares, Asks
    <2> QED
      BY <1>2, <1>4, <2>1, <2>2
  <1>9. CASE WriteReport(s)
    <2>1. \E x : Asks(s, x)
      BY <1>1, <1>9, EsciOutcome
    <2> QED
      BY <1>1, <1>3, <2>1, Asking DEF Prepares, Asks
  <1>10. CASE VerifyProcessed(s)
    <2>1. \/ Verified(v) /\ Settle(s, "done") /\ Same
          \/ Settle(s, "error") /\ names' = WithoutFolder(v)
      BY <1>1, <1>10, EsciOutcome
    <2>2. CASE Verified(v) /\ Settle(s, "done") /\ Same
      <3>1. Verified(v)'
        BY <2>2 DEF Same, Verified, Matches, Whole, Exists, Content, Processed
      <3> QED
        BY <1>1, <1>2, <2>2, <3>1 DEF Same
    <2> QED
      BY <1>2, <1>4, <2>1, <2>2
  <1> QED
    BY <1>1, <1>5, <1>6, <1>7, <1>8, <1>9, <1>10, Guards DEF Moves, Prepares

\* Others only make a folder that is not there.
LEMMA FolderMade ==
    ASSUME StagedInv, NEW s \in Made, Step(s), Call[s].op = "prepare", ~Prepares(s),
           NEW v, v = Call[s].version
    PROVE  \/ Same /\ ~Prepares(s)' /\ pc'[s] # "done"
           \/ /\ Folder(v) \notin DOMAIN names /\ pc'[s] = "select"
              /\ names' = Named(Folder(v), <<s, Folder(v)>>)
              /\ \A p \in DOMAIN names : names'[p] = names[p]
  <1>1. Staged(s) /\ DOMAIN memo = Made /\ Moves(s)
    BY StepStaged DEF StagedInv
  <1>2. \A to : Settle(s, to) => pc'[s] = to
    BY DEF Settle, After
  <1>3. CASE Begin(s)
    <2>1. FirstStep["prepare"] = "verifySources"
      BY DEF FirstStep
    <2> QED
      BY <1>1, <1>3, <2>1, FileOutcome DEF After, Prepares
  <1>4. CASE Crash(s) \/ VerifySources(s)
    BY <1>1, <1>2, <1>4, FileOutcome, EsciOutcome DEF After, Prepares
  <1>5. CASE MakeFolder(s)
    <2>1. CASE Settle(s, "error") /\ Same
      BY <1>2, <2>1 DEF Prepares
    <2>2. CASE /\ ~Exists(Folder(v)) /\ After(s, "select", memo[s])
               /\ names' = Named(Folder(v), <<s, Folder(v)>>)
      BY <2>2 DEF Exists, After, Named
    <2> QED
      BY <1>1, <1>5, <2>1, <2>2, EsciOutcome
  <1> QED
    BY <1>1, <1>3, <1>4, <1>5, Guards DEF Moves, Prepares

\* The folder of another version, and the folder that another command has made, stay.
LEMMA FolderKept ==
    ASSUME FilesInv, NEW s \in Made, Frame(s), Reaches(s), NEW v, FolderAt(v),
           FolderPaths(v) \intersect Touches(s) = {},
           ~(Call[s].op = "prepare" /\ Call[s].version = v)
    PROVE  FolderAt(v)'
  <1>1. /\ Folder(v) \in DOMAIN names' <=> Folder(v) \in DOMAIN names
        /\ Folder(v) \in DOMAIN names => names'[Folder(v)] = names[Folder(v)]
        /\ \A f \in AllFiles : Exists(Processed(v, f))' <=> Exists(Processed(v, f))
        /\ Verified(v)' <=> Verified(v)
    BY FolderStays
  <1>2. Exists(Folder(v))' <=> Exists(Folder(v))
    BY <1>1 DEF Exists, Folder
  <1>3. CASE ~Exists(Folder(v))
    BY <1>1, <1>2, <1>3 DEF FolderAt
  <1>4. CASE Exists(Folder(v))
    <2>1. PICK q \in Preparers(v) :
              /\ Owned(q) /\ (Prepares(q) \/ pc[q] \in {"done", "crashed"})
              /\ pc[q] = "done" => Verified(v)
      BY <1>4 DEF FolderAt
    <2>2. q \in Made /\ q # s /\ pc'[q] = pc[q] /\ Call[q].op = "prepare" /\ Call[q].version = v
      BY <2>1 DEF Preparers, Frame
    <2>3. q \in Preparers(v)' /\ (Prepares(q)' <=> Prepares(q))
      BY <2>2 DEF Preparers, Prepares, Frame
    <2>4. Owned(q)'
      BY <1>1, <2>1, <2>2 DEF Owned, Folder
    <2> QED
      BY <1>1, <1>2, <1>4, <2>1, <2>2, <2>3, <2>4 DEF FolderAt
  <1> QED
    BY <1>3, <1>4

\* The folder of a version has the one owner that made it.
LEMMA StepFolder ==
    ASSUME StagedInv, FilesInv, FolderInv, NEW s \in Made, Step(s)
    PROVE  FolderInv'
  <1>1. /\ Staged(s) /\ DOMAIN memo = Made /\ Made \subseteq Commands
        /\ Call[s].op \in Operations /\ Frame(s) /\ Reaches(s) /\ Moves(s)
    BY StepStaged, Reach, FilesAssumption DEF StagedInv
  <1>2. ASSUME NEW v, ~(Call[s].op = "prepare" /\ Call[s].version = v)
        PROVE  FolderPaths(v) \intersect Touches(s) = {}
    BY <1>1, <1>2, TouchFolder
  <1>3. ASSUME NEW r \in Made, Prepares(r)'
        PROVE  Owned(r)'
    <2>1. PICK v : v = Call[r].version
      OBVIOUS
    <2>2. CASE r = s /\ Prepares(s)
      BY <1>3, <2>1, <2>2, PreparerStep DEF Owned, FolderInv
    <2>3. CASE r = s /\ ~Prepares(s)
      <3>1. Call[s].op = "prepare" /\ v = Call[s].version
        BY <1>3, <2>1, <2>3 DEF Prepares
      <3>2. names' = Named(Folder(v), <<s, Folder(v)>>)
        BY <1>3, <2>3, <3>1, FolderMade
      <3> QED
        BY <2>3, <3>1, <3>2 DEF Owned, Named, Folder
    <2>4. CASE r # s
      <3>1. Prepares(r) /\ Owned(r)
        BY <1>1, <1>3, <2>4 DEF Prepares, Frame, FolderInv
      <3>2. Folder(v) \in DOMAIN names /\ names[Folder(v)] = <<r, Folder(v)>>
        BY <2>1, <3>1 DEF Owned
      <3>3. CASE Call[s].op = "prepare" /\ Call[s].version = v
        <4>1. ~Prepares(s)
          BY <2>4, <3>2, <3>3 DEF FolderInv, Owned
        <4>2. Same
          BY <3>2, <3>3, <4>1, FolderMade
        <4> QED
          BY <2>1, <3>2, <4>2 DEF Same, Owned
      <3>4. CASE ~(Call[s].op = "prepare" /\ Call[s].version = v)
        <4>1. Folder(v) \in DOMAIN names' /\ names'[Folder(v)] = <<r, Folder(v)>>
          BY <1>1, <1>2, <3>2, <3>4, FolderStays
        <4> QED
          BY <2>1, <4>1 DEF Owned
      <3> QED
        BY <3>3, <3>4
    <2> QED
      BY <2>2, <2>3, <2>4
  <1>4. ASSUME NEW r \in Made, NEW v, Call[r].op = "prepare", v = Call[r].version, ~Given(Folder(v))'
        PROVE  FolderAt(v)'
    <2>1. PICK d : d = Folder(v)
      OBVIOUS
    <2>2. ~Given(d)
      BY <1>1, <1>4, <2>1, Givens DEF Folder
    <2>3. FolderAt(v)
      BY <1>4, <2>1, <2>2 DEF FolderInv
    <2>4. CASE ~(Call[s].op = "prepare" /\ Call[s].version = v)
      BY <1>1, <1>2, <2>3, <2>4, FolderKept
    <2>5. CASE Call[s].op = "prepare" /\ Call[s].version = v /\ Prepares(s)
      <3>1. Owned(s) /\ s \in Preparers(v)'
        BY <1>1, <2>5 DEF FolderInv, Preparers, Frame
      <3>2. CASE /\ Folder(v) \in DOMAIN names' /\ names'[Folder(v)] = <<s, Folder(v)>>
                 /\ Prepares(s)' \/ pc'[s] \in {"done", "crashed"}
                 /\ pc'[s] = "done" => Verified(v)'
        <4>1. Owned(s)' /\ Exists(Folder(v))'
          BY <2>5, <3>2 DEF Owned, Exists, Folder
        <4> QED
          BY <3>1, <3>2, <4>1 DEF FolderAt
      <3>3. CASE /\ Folder(v) \notin DOMAIN names'
                 /\ \A f \in AllFiles : Processed(v, f) \notin DOMAIN names'
        BY <3>3 DEF FolderAt, Exists, Folder, Processed
      <3> QED
        BY <2>5, <3>1, <3>2, <3>3, PreparerStep
    <2>6. CASE Call[s].op = "prepare" /\ Call[s].version = v /\ ~Prepares(s)
      <3>1. CASE Same /\ ~Prepares(s)' /\ pc'[s] # "done"
        <4>1. CASE ~Exists(Folder(v))
          <5>1. (Exists(Folder(v)))' <=> Exists(Folder(v))
            BY <3>1 DEF Same, Exists, Folder
          <5>2. \A f \in AllFiles : ~Exists(Processed(v, f))'
            BY <2>3, <3>1, <4>1 DEF FolderAt, Same, Exists, Processed
          <5> QED
            BY <4>1, <5>1, <5>2 DEF FolderAt
        <4>2. CASE Exists(Folder(v))
          <5>1. PICK q \in Preparers(v) :
                    /\ Owned(q) /\ (Prepares(q) \/ pc[q] \in {"done", "crashed"})
                    /\ pc[q] = "done" => Verified(v)
            BY <2>3, <4>2 DEF FolderAt
          <5>2. pc[s] \notin {"done", "crashed"}
            BY <1>1, Meeting, Guards DEF Open, Answers
          <5>3. q # s /\ q \in Made /\ pc'[q] = pc[q]
            BY <1>1, <2>6, <5>1, <5>2 DEF Preparers, Frame
          <5>4. q \in Preparers(v)' /\ (Prepares(q)' <=> Prepares(q))
            BY <1>1, <5>1, <5>3 DEF Preparers, Prepares, Frame
          <5>5. Owned(q)' /\ Exists(Folder(v))'
            BY <3>1, <4>2, <5>1 DEF Owned, Exists, Folder, Same
          <5>6. Verified(v)' <=> Verified(v)
            BY <3>1 DEF Same, Verified, Matches, Whole, Exists, Content, Processed
          <5> QED
            BY <5>1, <5>3, <5>4, <5>5, <5>6 DEF FolderAt
        <4> QED
          BY <4>1, <4>2
      <3>2. CASE pc'[s] = "select" /\ names' = Named(Folder(v), <<s, Folder(v)>>)
        <4>1. s \in Preparers(v)' /\ Prepares(s)'
          BY <1>1, <2>6, <3>2 DEF Preparers, Prepares, Frame
        <4>2. Owned(s)' /\ Exists(Folder(v))'
          BY <2>6, <3>2 DEF Owned, Exists, Folder, Named
        <4> QED
          BY <3>2, <4>1, <4>2 DEF FolderAt
      <3> QED
        BY <2>6, <3>1, <3>2, FolderMade
    <2> QED
      BY <2>4, <2>5, <2>6
  <1> QED
    BY <1>1, <1>3, <1>4 DEF FolderInv, Frame

-----------------------------------------------------------------------------
(* Whole files *)

WholeInv == IInv /\ RunsInv /\ DestInv /\ PacketInv /\ FolderInv

\* The invariant of whole files holds at the start.
LEMMA InitWhole ==
    ASSUME Init
    PROVE  WholeInv
  <1>1. PICK w \in Workloads :
            LET seed == SeedFiles[w.files]
            IN  /\ names = [path \in DOMAIN seed |-> <<NoFile, path>>]
                /\ data = [inode \in {NoFile} \X DOMAIN seed |-> <<seed[inode[2]]>>]
                /\ pc = [r \in w.commands |-> "ready"]
    BY DEF Init
  <1>2. memo = [r \in Made |-> Blank] /\ \A r \in Made : pc[r] = "ready"
    BY <1>1 DEF Init, Made
  <1>3. \A p : p \in DOMAIN names => Given(p)
    BY <1>1 DEF Given
  <1>4. RunsInv
    <2>1. ASSUME NEW r \in Made
          PROVE  memo[r].results = <<>> /\ pc[r] = "ready"
      BY <1>2 DEF Blank
    <2>2. <<>> \in Seq({})
      OBVIOUS
    <2> QED
      BY <2>1, <2>2 DEF RunsInv, Recorded
  <1>5. DestInv
    <2>1. ASSUME NEW p \in DOMAIN names
          PROVE  Whole(p)
      <3>1. data[names[p]] = <<SeedFiles[w.files][p]>>
        BY <1>1
      <3>2. \A x : <<x>> # Partial
        BY DEF Partial
      <3> QED
        BY <3>1, <3>2 DEF Whole, Exists
    <2> QED
      BY <1>2, <2>1 DEF DestInv, Working
  <1>6. PacketInv
    <2>1. ASSUME NEW r \in Made, NEW writers, NEW d, NEW v, writers = PacketWriters(r),
                 ~Given(d), ~Given(v)
          PROVE  PacketState(writers, d, v)
      <3>1. Absent(d, v)
        BY <1>3, <2>1 DEF Absent, Exists
      <3> QED
        BY <1>2, <2>1, <3>1 DEF PacketState, PacketWriters, InPacket
    <2> QED
      BY <2>1 DEF PacketInv
  <1>7. FolderInv
    <2>1. ASSUME NEW r \in Made, NEW v, ~Given(Folder(v))
          PROVE  FolderAt(v)
      <3>1. Folder(v) \notin DOMAIN names
        BY <1>3, <2>1
      <3>2. ASSUME NEW f \in AllFiles
            PROVE  Processed(v, f) \notin DOMAIN names
        <4>1. w.files \in DOMAIN SeedFiles /\ DOMAIN names = DOMAIN SeedFiles[w.files]
          BY <1>1, FilesAssumption
        <4>2. Processed(v, f)[1] = "processed" /\ Processed(v, f)[2] = v
          BY Paths
        <4> QED
          BY <3>1, <4>1, <4>2, EsciAssumption
      <3> QED
        BY <3>1, <3>2 DEF FolderAt, Exists
    <2> QED
      BY <1>2, <2>1 DEF FolderInv, Prepares
  <1> QED
    BY <1>4, <1>5, <1>6, <1>7, InitInv DEF WholeInv

\* A step keeps it.
LEMMA StepWhole ==
    ASSUME WholeInv, NEW r \in Made, Step(r)
    PROVE  WholeInv'
  <1>1. IInv /\ RunsInv /\ DestInv /\ PacketInv /\ FolderInv /\ StagedInv /\ FilesInv
    BY DEF WholeInv, IInv
  <1>2. IInv'
    BY <1>1, StepInv
  <1>3. RunsInv'
    BY <1>1, StepRuns
  <1>4. DestInv'
    BY <1>1, StepDest
  <1>5. PacketInv'
    BY <1>1, StepPacket
  <1>6. FolderInv'
    BY <1>1, StepFolder
  <1> QED
    BY <1>2, <1>3, <1>4, <1>5, <1>6 DEF WholeInv

\* So does a step of none of the commands.
LEMMA StutterWhole ==
    ASSUME WholeInv, UNCHANGED vars
    PROVE  WholeInv'
  <1> USE DEF vars
  <1>1. IInv'
    BY Stutter DEF WholeInv
  <1>2. Made' = Made /\ \A x : Exists(x)' <=> Exists(x)
    BY DEF Made, Exists
  <1>3. \A x : (Whole(x)' <=> Whole(x)) /\ Content(x)' = Content(x)
    BY DEF Whole, Exists, Content
  <1>4. RunsInv'
    BY <1>2 DEF WholeInv, RunsInv, Recorded
  <1>5. DestInv'
    <2>1. ASSUME NEW r \in Made
          PROVE  /\ Artifact(r)' = Artifact(r) /\ Published(r)' = Published(r)
                 /\ Destination(r)' = Destination(r)
      BY DEF Artifact, Config, Published, Destination, Source, Raw, Packet
    <2>2. ASSUME NEW p
          PROVE  Crowded(p)' <=> Crowded(p)
      BY <1>2, <2>1 DEF Crowded, CrowdAt, WritersOf, Evaluations, Met
    <2>3. ASSUME NEW r \in Made
          PROVE  (Working(r)' <=> Working(r)) /\ (Alone(r)' <=> Alone(r))
      BY <1>2, <1>3, <2>1 DEF Working, Alone, Filling, Placing, Temporary
    <2> QED
      BY <1>2, <1>3, <2>1, <2>2, <2>3 DEF WholeInv, DestInv, Destined
  <1>6. PacketInv'
    <2>1. ASSUME NEW r \in Made
          PROVE  PacketWriters(r)' = PacketWriters(r) /\ Draft(r)' = Draft(r) /\ Review(r)' = Review(r)
      BY <1>2 DEF PacketWriters, Draft, Review, GoldenReview, Packet
    <2>2. ASSUME NEW q, NEW d, NEW v
          PROVE  /\ InPacket(q, d, v)' <=> InPacket(q, d, v)
                 /\ PacketWork(q, d, v)' <=> PacketWork(q, d, v)
      BY <1>2, <1>3 DEF InPacket, PacketWork, Path, Held
    <2>3. ASSUME NEW writers, NEW d, NEW v
          PROVE  /\ PacketState(writers, d, v)' <=> PacketState(writers, d, v)
                 /\ CrowdAt(writers)' <=> CrowdAt(writers)
                 /\ Spoilt(writers)' <=> Spoilt(writers)
      BY <1>2, <1>3, <2>2 DEF PacketState, Absent, Complete, CrowdAt, Met, Spoilt
    <2>4. \A d : Given(d)' <=> Given(d)
      BY DEF Given
    <2> QED
      BY <1>2, <2>1, <2>3, <2>4 DEF WholeInv, PacketInv
  <1>7. FolderInv'
    <2>1. ASSUME NEW r \in Made
          PROVE  (Prepares(r)' <=> Prepares(r)) /\ (Owned(r)' <=> Owned(r))
      BY DEF Prepares, Owned
    <2>2. ASSUME NEW v
          PROVE  /\ Verified(v)' <=> Verified(v)
                 /\ Exists(Folder(v))' <=> Exists(Folder(v))
                 /\ Preparers(v)' = Preparers(v)
                 /\ Given(Folder(v))' <=> Given(Folder(v))
                 /\ \A f : Exists(Processed(v, f))' <=> Exists(Processed(v, f))
      BY <1>2 DEF Verified, Matches, Whole, Exists, Content, Processed, Folder, Preparers, Given
    <2>3. ASSUME NEW v
          PROVE  FolderAt(v)' <=> FolderAt(v)
      BY <2>1, <2>2 DEF FolderAt, Preparers
    <2> QED
      BY <1>2, <2>1, <2>2, <2>3 DEF WholeInv, FolderInv
  <1> QED
    BY <1>1, <1>4, <1>5, <1>6, <1>7 DEF WholeInv

\* What it says of whole files.
LEMMA WholeFiles ==
    ASSUME WholeInv
    PROVE  FilesWhole
  <1>1. ASSUME NEW path \in DOMAIN names, ~Whole(path), WritersOf(path) # {}
        PROVE  CrowdAt(WritersOf(path))
    <2>1. Destined(path)
      BY <1>1, Paths DEF WritersOf, Artifact, Published, Evaluations, Destined
    <2> QED
      BY <1>1, <2>1 DEF WholeInv, DestInv, Crowded
  <1>2. ASSUME NEW r \in Made, Call[r].op = "reviewCreate", ~Given(Draft(r)), ~Given(Review(r)),
               ~CrowdAt(PacketWriters(r)), \A q \in PacketWriters(r) : ~Unfinished(q)
        PROVE  \/ ~Exists(Draft(r)) /\ ~Exists(Review(r))
               \/ Whole(Draft(r)) /\ Whole(Review(r)) /\ Content(Review(r)).of = Content(Draft(r))
    <2>1. ~Spoilt(PacketWriters(r))
      BY <1>2 DEF Spoilt, Unfinished
    <2>2. PacketState(PacketWriters(r), Draft(r), Review(r))
      BY <1>2, <2>1 DEF WholeInv, PacketInv
    <2>3. \A q \in PacketWriters(r) : ~InPacket(q, Draft(r), Review(r))
      BY <1>2 DEF InPacket, Unfinished, Open, Answers
    <2> QED
      BY <2>2, <2>3 DEF PacketState, Absent, Complete, IsReview
  <1>3. ASSUME NEW r \in Made, NEW v, Call[r].op = "prepare", v = Call[r].version,
               ~Given(Folder(v)), \A q \in Preparers(v) : ~Open(q) /\ pc[q] # "crashed"
        PROVE  \/ ~Exists(Folder(v)) /\ FolderFiles(v) = {}
               \/ Exists(Folder(v)) /\ Verified(v)
    <2>1. FolderAt(v)
      BY <1>3 DEF WholeInv, FolderInv
    <2>2. ~Exists(Folder(v)) => FolderFiles(v) = {}
      BY <2>1 DEF FolderAt, FolderFiles, AllFiles, Exists
    <2>3. \A q \in Preparers(v) : ~Prepares(q)
      BY <1>3 DEF Prepares, Open, Answers
    <2> QED
      BY <1>3, <2>1, <2>2, <2>3 DEF FolderAt
  <1> QED
    BY <1>1, <1>2, <1>3 DEF FilesWhole

\* What is written through a temporary file is whole unless two writers crossed, the two
\* files of a packet are there together, and a processed folder verifies.
THEOREM FilesAreWhole == Spec => []FilesWhole
  <1>1. Init => WholeInv
    BY InitWhole
  <1>2. WholeInv /\ [Next]_vars => WholeInv'
    BY StepWhole, StutterWhole DEF Next
  <1>3. WholeInv => FilesWhole
    BY WholeFiles
  <1> QED
    BY <1>1, <1>2, <1>3, PTL DEF Spec

-----------------------------------------------------------------------------
(* What a preparation has written *)

\* Of the files that a preparation still has to write, the report and the draft are not there
\* or empty.
NotYet(r) ==
    LET file(name) == Processed(Call[r].version, name)
    IN  /\ pc[r] # "verify" => ~Whole(file("quality-report.json"))
        /\ \/ pc[r] = "select"
           \/ /\ pc[r] \in {"open", "write"}
              /\ \/ Three(r, file("catalog.json"), file("golden-draft.json"),
                          file("source-manifest.json"))
                 \/ Two(r, file("golden-draft.json"), file("source-manifest.json"))
           => ~Whole(file("golden-draft.json"))
BlankInv == \A r \in Made : Prepares(r) => NotYet(r)

\* There is nothing in a folder that is not there.
BareInv == \A v : ~Exists(Folder(v)) => \A f \in AllFiles : ~Exists(Processed(v, f))

\* The files of a folder are there, whole and filled as before.
Untouched(v) ==
    /\ Folder(v) \in DOMAIN names' <=> Folder(v) \in DOMAIN names
    /\ \A f \in AllFiles :
           /\ Exists(Processed(v, f))' <=> Exists(Processed(v, f))
           /\ Whole(Processed(v, f))' <=> Whole(Processed(v, f))
           /\ Whole(Processed(v, f)) => Content(Processed(v, f))' = Content(Processed(v, f))

\* Who changes no file changes no folder.
LEMMA SameKeeps ==
    ASSUME Same, NEW v
    PROVE  Untouched(v)
  BY DEF Same, Untouched, Exists, Whole, Content, Processed

\* A folder stays as it is in steps of those that do not prepare in it.
LEMMA OthersFolder ==
    ASSUME StagedInv, FilesInv, NEW s \in Made, Step(s), NEW v,
           \/ ~(Call[s].op = "prepare" /\ Call[s].version = v)
           \/ ~Prepares(s) /\ Exists(Folder(v))
    PROVE  Untouched(v)
  <1>1. Staged(s) /\ Call[s].op \in Operations /\ Reaches(s)
    BY StepStaged, Reach, FilesAssumption DEF StagedInv
  <1>2. CASE ~(Call[s].op = "prepare" /\ Call[s].version = v)
    <2>1. FolderPaths(v) \intersect Touches(s) = {}
      BY <1>1, <1>2, TouchFolder
    <2> QED
      BY <1>1, <2>1, FolderStays DEF Untouched
  <1>3. CASE Call[s].op = "prepare" /\ Call[s].version = v /\ ~Prepares(s) /\ Exists(Folder(v))
    BY <1>3, FolderMade, SameKeeps DEF Exists
  <1> QED
    BY <1>2, <1>3

\* Who opens or writes one file leaves the others, but those that a rename names.
LEMMA WritesOne ==
    ASSUME StagedInv, FilesInv, NEW s \in Made, OpenFile(s) \/ WriteFile(s),
           NEW p, ~Destined(p), p # Path(s)
    PROVE  /\ p \in DOMAIN names' <=> p \in DOMAIN names
           /\ p \in DOMAIN names => names'[p] = names[p] /\ data'[names[p]] = data[names[p]]
  <1>1. pc[s] \in {"open", "write"} /\ Staged(s) /\ Call[s].op \in Operations
    BY Guards, FilesAssumption DEF StagedInv
  <1>2. ~Destined(Path(s))
    BY <1>1, Writing
  <1>3. CASE OpenFile(s)
    <2>1. PICK i : /\ i = IF Exists(Path(s)) THEN names[Path(s)] ELSE <<s, Path(s)>>
                   /\ names' = Named(Path(s), i) /\ data' = Filled(i, Partial)
      BY <1>3 DEF OpenFile
    <2>2. i[2] = Path(s)
      BY <1>2, <2>1 DEF FilesInv, Exists
    <2>3. p \in DOMAIN names => names[p] # i /\ names[p] \in DOMAIN data
      BY <2>2 DEF FilesInv
    <2> QED
      BY <2>1, <2>3 DEF Named, Filled
  <1>4. CASE WriteFile(s)
    <2>1. PICK x : data' = Filled(memo[s].handle, x) /\ names' = names
      BY <1>4 DEF WriteFile
    <2>2. memo[s].handle[2] = Path(s)
      BY <1>4, Guards DEF FilesInv
    <2>3. p \in DOMAIN names => names[p] # memo[s].handle /\ names[p] \in DOMAIN data
      BY <2>2 DEF FilesInv
    <2> QED
      BY <2>1, <2>3 DEF Filled
  <1> QED
    BY <1>3, <1>4

\* A step puts nothing in a folder that is not there.
LEMMA StepBare ==
    ASSUME StagedInv, FilesInv, FolderInv, BareInv, NEW s \in Made, Step(s)
    PROVE  BareInv'
  <1>1. ASSUME NEW v, Folder(v) \notin DOMAIN names', NEW f \in AllFiles
        PROVE  Processed(v, f) \notin DOMAIN names'
    <2>1. CASE ~(Call[s].op = "prepare" /\ Call[s].version = v)
      <3>1. Untouched(v)
        BY <2>1, OthersFolder
      <3> QED
        BY <1>1, <3>1 DEF Untouched, BareInv, Exists, Processed
    <2>2. CASE Call[s].op = "prepare" /\ Call[s].version = v /\ Prepares(s)
      BY <1>1, <2>2, PreparerStep DEF FolderInv
    <2>3. CASE Call[s].op = "prepare" /\ Call[s].version = v /\ ~Prepares(s)
      <3>1. \A i : names' # Named(Folder(v), i)
        BY <1>1 DEF Named
      <3>2. Same
        BY <2>3, <3>1, FolderMade
      <3> QED
        BY <1>1, <3>2 DEF Same, BareInv, Exists
    <2> QED
      BY <2>1, <2>2, <2>3
  <1> QED
    BY <1>1 DEF BareInv, Exists, Folder, Processed

\* A preparation writes the draft before the report, and each of them once.
LEMMA StepBlank ==
    ASSUME StagedInv, FilesInv, FolderInv, BareInv, BlankInv, NEW s \in Made, Step(s)
    PROVE  BlankInv'
  <1>1. /\ Staged(s) /\ DOMAIN memo = Made /\ Call[s].op \in Operations /\ Frame(s) /\ Moves(s)
    BY StepStaged, FilesAssumption DEF StagedInv
  <1>2. {"quality-report.json", "golden-draft.json"} \subseteq AllFiles
    BY DEF AllFiles, OutputFiles
  <1>3. ASSUME NEW r \in Made, Prepares(r)', r # s
        PROVE  NotYet(r)'
    <2>1. pc'[r] = pc[r] /\ memo'[r] = memo[r]
      BY <1>1, <1>3 DEF Frame
    <2>2. PICK v : v = Call[r].version
      OBVIOUS
    <2>3. Prepares(r) /\ NotYet(r) /\ Owned(r)
      BY <1>3, <2>1 DEF Prepares, BlankInv, FolderInv
    <2>4. ~(Call[s].op = "prepare" /\ Call[s].version = v) \/ ~Prepares(s)
      BY <1>3, <2>2, <2>3 DEF FolderInv, Owned
    <2>5. Untouched(v)
      BY <2>2, <2>3, <2>4, OthersFolder DEF Owned, Exists
    <2> QED
      BY <1>2, <2>1, <2>2, <2>3, <2>5 DEF NotYet, Untouched, Three, Two, Processed
  <1>4. ASSUME Prepares(s)', ~Prepares(s)
        PROVE  NotYet(s)'
    <2>1. PICK v : v = Call[s].version /\ Call[s].op = "prepare"
      BY <1>4 DEF Prepares
    <2>2. /\ Folder(v) \notin DOMAIN names /\ pc'[s] = "select"
          /\ names' = Named(Folder(v), <<s, Folder(v)>>)
      BY <1>4, <2>1, FolderMade
    <2>3. \A f \in AllFiles : Processed(v, f) \notin DOMAIN names'
      BY <2>2, Paths DEF BareInv, Exists, Named
    <2>4. \A f \in AllFiles : ~Whole(Processed(v, f))'
      BY <2>3 DEF Whole, Exists, Processed
    <2> QED
      BY <1>2, <2>1, <2>4 DEF NotYet
  <1>5. ASSUME Prepares(s)', Prepares(s)
        PROVE  NotYet(s)'
    <2>1. PICK v, report, draft, catalog, manifest :
              /\ v = Call[s].version /\ Call[s].op = "prepare"
              /\ report = Processed(v, "quality-report.json")
              /\ draft = Processed(v, "golden-draft.json")
              /\ catalog = Processed(v, "catalog.json")
              /\ manifest = Processed(v, "source-manifest.json")
      BY <1>5 DEF Prepares
    <2>2. /\ ~Destined(report) /\ ~Destined(draft)
          /\ report \notin {draft, catalog, manifest} /\ draft \notin {catalog, manifest}
      <3>1. /\ report[3] = "quality-report.json" /\ draft[3] = "golden-draft.json"
            /\ catalog[3] = "catalog.json" /\ manifest[3] = "source-manifest.json"
        BY <2>1, Paths
      <3> QED
        BY <2>1, <3>1, Paths
    <2>3. /\ pc[s] # "verify" => ~Whole(report)
          /\ \/ pc[s] = "select"
             \/ /\ pc[s] \in {"open", "write"}
                /\ Three(s, catalog, draft, manifest) \/ Two(s, draft, manifest)
             => ~Whole(draft)
      BY <1>5, <2>1 DEF BlankInv, NotYet
    <2>4. SUFFICES /\ pc'[s] # "verify" => ~Whole(report)'
                   /\ \/ pc'[s] = "select"
                      \/ /\ pc'[s] \in {"open", "write"}
                         /\ Three(s, catalog, draft, manifest)' \/ Two(s, draft, manifest)'
                      => ~Whole(draft)'
      BY <2>1 DEF NotYet, Processed
    <2>5. ASSUME Same
          PROVE  (Whole(report)' <=> Whole(report)) /\ (Whole(draft)' <=> Whole(draft))
      BY <2>5 DEF Same, Whole, Exists
    <2>6. \A to : Settle(s, to) => pc'[s] = to
      BY DEF Settle, After
    <2>7. ASSUME NEW p \in {report, draft}, p # Path(s), OpenFile(s) \/ WriteFile(s)
          PROVE  Whole(p)' <=> Whole(p)
      BY <2>2, <2>7, WritesOne DEF Whole, Exists
    <2>8. CASE Crash(s) \/ WriteFails(s) \/ VerifyProcessed(s)
      BY <1>1, <1>5, <2>1, <2>6, <2>8, FileOutcome, EsciOutcome DEF Prepares
    <2>9. CASE SelectSubset(s)
      <3>1. pc[s] = "select" /\ Same /\ pc'[s] = "open"
        <4>1. CASE \E x : Asks(s, x)
          BY <1>1, <2>9, <4>1, Asking, Guards DEF Asks
        <4>2. CASE Settle(s, "error")
          BY <1>5, <2>6, <4>2 DEF Prepares
        <4> QED
          BY <1>1, <2>1, <2>9, <4>1, <4>2, EsciOutcome
      <3> QED
        BY <2>3, <2>5, <3>1
    <2>10. CASE WriteReport(s)
      <3>1. PICK x : pc[s] = "report" /\ Asks(s, << <<report, x>> >>)
        BY <1>1, <2>1, <2>10, EsciOutcome, Guards
      <3>2. memo'[s].todo = << <<report, x>> >> /\ pc'[s] = "open" /\ Same
        BY <1>1, <3>1, Asking DEF Asks
      <3>3. ~Three(s, catalog, draft, manifest)' /\ ~Two(s, draft, manifest)'
        BY <3>2 DEF Three, Two
      <3> QED
        BY <2>3, <2>5, <3>1, <3>2, <3>3
    <2>11. CASE OpenFile(s)
      <3>1. pc[s] = "open" /\ pc'[s] = "write" /\ memo'[s].todo = memo[s].todo
        BY <1>1, <2>11, FileOutcome, Guards, ZenonT(60) DEF Gains, After, Staged
      <3>2. PICK i : names' = Named(Path(s), i) /\ data' = Filled(i, Partial)
        BY <2>11 DEF OpenFile
      <3>3. ~Whole(Path(s))'
        <4>1. PICK p : p = Path(s)
          OBVIOUS
        <4>2. names'[p] = i /\ data'[i] = Partial
          BY <3>2, <4>1, Leaving
        <4>3. Path(s)' = p
          BY <3>1, <4>1 DEF Path
        <4> QED
          BY <4>2, <4>3 DEF Whole
      <3>4. \A p \in {report, draft} : p = Path(s) => ~Whole(p)'
        <4>1. Path(s)' = Path(s)
          BY <3>1 DEF Path
        <4> QED
          BY <3>3, <4>1 DEF Whole, Exists
      <3>5. /\ Three(s, catalog, draft, manifest)' <=> Three(s, catalog, draft, manifest)
            /\ Two(s, draft, manifest)' <=> Two(s, draft, manifest)
        BY <3>1 DEF Three, Two
      <3> QED
        BY <2>3, <2>7, <2>11, <3>1, <3>4, <3>5
    <2>12. CASE WriteFile(s)
      <3>1. /\ pc[s] = "write" /\ pc'[s] = Onwards(s) /\ memo'[s].todo = Tail(memo[s].todo)
        BY <1>1, <2>12, FileOutcome, Guards DEF After, Staged
      <3>2. \/ Three(s, catalog, draft, manifest) \/ Two(s, draft, manifest)
            \/ One(s, manifest) \/ One(s, report)
        BY <1>1, <2>1, <3>1 DEF Staged, Pending
      <3>3. CASE Three(s, catalog, draft, manifest)
        <4>1. Path(s) = catalog
          BY <3>3 DEF Three, Path
        <4> QED
          BY <2>2, <2>3, <2>7, <2>12, <3>1, <3>3, <4>1
      <3>4. CASE Two(s, draft, manifest)
        <4>1. Path(s) = draft /\ \E x : memo'[s].todo = << <<manifest, x>> >>
          BY <3>1, <3>4 DEF Two, Path
        <4>2. ~Three(s, catalog, draft, manifest)' /\ ~Two(s, draft, manifest)'
          BY <4>1 DEF Three, Two
        <4>3. pc'[s] # "select"
          BY <2>1, <3>1 DEF Onwards, AfterWriting
        <4> QED
          BY <2>2, <2>3, <2>7, <2>12, <3>1, <3>4, <4>1, <4>2, <4>3
      <3>5. CASE One(s, manifest) \/ One(s, report)
        <4>1. \/ Path(s) = manifest /\ One(s, manifest)
              \/ Path(s) = report /\ One(s, report)
          BY <3>5 DEF One, Path
        <4>2. Len(memo[s].todo) = 1
          BY <3>5 DEF One
        <4>3. pc'[s] = IF Path(s)[3] = "quality-report.json" THEN "verify" ELSE "report"
          BY <2>1, <3>1, <4>2 DEF Onwards, AfterWriting, Path
        <4>4. manifest[3] = "source-manifest.json" /\ report[3] = "quality-report.json"
          BY <2>1, Paths
        <4> QED
          BY <2>2, <2>3, <2>7, <2>12, <3>1, <4>1, <4>3, <4>4
      <3> QED
        BY <3>2, <3>3, <3>4, <3>5
    <2> QED
      BY <1>1, <1>5, <2>1, <2>8, <2>9, <2>10, <2>11, <2>12, Guards DEF Moves, Prepares
  <1> QED
    BY <1>1, <1>3, <1>4, <1>5 DEF BlankInv, Frame

\* What verifies goes on to: the report is written last, so nobody writes after it.
LEMMA VerifiedLasts ==
    ASSUME StagedInv, FilesInv, FolderInv, BareInv, BlankInv, NEW s \in Made, Step(s),
           NEW v, Verified(v)
    PROVE  Untouched(v) /\ Verified(v)'
  <1>1. Staged(s) /\ DOMAIN memo = Made /\ Call[s].op \in Operations /\ Moves(s)
    BY StepStaged, FilesAssumption DEF StagedInv
  <1>2. "quality-report.json" \in AllFiles /\ OutputFiles \subseteq AllFiles
    BY DEF AllFiles
  <1>3. Whole(Processed(v, "quality-report.json")) /\ Exists(Folder(v))
    BY <1>2 DEF Verified, BareInv, Whole
  <1>4. ASSUME Call[s].op = "prepare", Call[s].version = v, Prepares(s)
        PROVE  Untouched(v)
    <2>1. pc[s] = "verify"
      BY <1>3, <1>4 DEF BlankInv, NotYet
    <2>2. Crash(s) \/ VerifyProcessed(s)
      BY <1>1, <1>4, <2>1, Guards DEF Moves
    <2>3. VerifyProcessed(s) => Same
      BY <1>4 DEF VerifyProcessed, End, Same
    <2> QED
      BY <1>1, <2>2, <2>3, FileOutcome, SameKeeps
  <1>5. Untouched(v)
    BY <1>3, <1>4, OthersFolder
  <1>6. \A f \in OutputFiles : Matches(v, f)' <=> Matches(v, f)
    BY <1>2, <1>3, <1>5 DEF Untouched, Matches
  <1>7. Whole(Processed(v, "quality-report.json"))'
    BY <1>2, <1>3, <1>5 DEF Untouched
  <1> QED
    BY <1>5, <1>6, <1>7 DEF Verified

\* A draft that was written stays until its folder goes.
LEMMA DraftLasts ==
    ASSUME StagedInv, FilesInv, FolderInv, BareInv, BlankInv, NEW s \in Made, Step(s),
           NEW v, NEW d, d = Processed(v, "golden-draft.json"), Whole(d)
    PROVE  \/ Whole(d)' /\ Content(d)' = Content(d)
           \/ /\ Call[s].op = "prepare" /\ Call[s].version = v /\ Prepares(s)
              /\ pc'[s] \in Answers /\ Folder(v) \notin DOMAIN names'
  <1>1. Staged(s) /\ DOMAIN memo = Made /\ Call[s].op \in Operations /\ Moves(s)
    BY StepStaged, FilesAssumption DEF StagedInv
  <1>2. "golden-draft.json" \in AllFiles /\ Exists(Folder(v))
    BY DEF AllFiles, OutputFiles, BareInv, Whole
  <1>3. ASSUME Untouched(v)
        PROVE  Whole(d)' /\ Content(d)' = Content(d)
    BY <1>2, <1>3 DEF Untouched, Processed, Whole, Content, Exists
  <1>4. CASE Call[s].op = "prepare" /\ Call[s].version = v /\ Prepares(s)
    <2>1. \A to : Settle(s, to) => pc'[s] = to
      BY DEF Settle, After
    <2>2. names' = WithoutFolder(v) => Folder(v) \notin DOMAIN names'
      BY DEF WithoutFolder, Unlinked
    <2>3. CASE OpenFile(s) \/ WriteFile(s)
      <3>1. Path(s) # d
        <4>1. PICK report, catalog, manifest :
                  /\ report = Processed(v, "quality-report.json")
                  /\ catalog = Processed(v, "catalog.json")
                  /\ manifest = Processed(v, "source-manifest.json")
          OBVIOUS
        <4>2. d \notin {report, catalog, manifest}
          <5>1. /\ report[3] = "quality-report.json" /\ d[3] = "golden-draft.json"
                /\ catalog[3] = "catalog.json" /\ manifest[3] = "source-manifest.json"
            BY <4>1, Paths
          <5> QED
            BY <5>1
        <4>3. pc[s] \in {"open", "write"}
          BY <2>3, Guards
        <4>4. \/ Three(s, catalog, d, manifest) \/ Two(s, d, manifest)
              \/ One(s, manifest) \/ One(s, report)
          BY <1>1, <1>4, <4>1, <4>3 DEF Staged, Pending
        <4>5. ~Two(s, d, manifest)
          BY <1>4, <4>1, <4>3 DEF BlankInv, NotYet
        <4> QED
          BY <4>2, <4>4, <4>5 DEF Three, One, Path
      <3> QED
        BY <2>3, <3>1, Paths, WritesOne DEF Whole, Exists, Content
    <2>4. CASE Crash(s) \/ WriteReport(s)
      BY <1>1, <1>3, <2>4, FileOutcome, EsciOutcome, SameKeeps DEF Asks
    <2>5. CASE WriteFails(s)
      BY <1>1, <1>4, <2>1, <2>2, <2>5, FileOutcome DEF CleanedUp, Answers
    <2>6. CASE SelectSubset(s)
      <3>1. \/ Settle(s, "error") /\ names' = WithoutFolder(v)
            \/ \E x : Asks(s, x)
        BY <1>1, <1>4, <2>6, EsciOutcome
      <3> QED
        BY <1>3, <1>4, <2>1, <2>2, <3>1, SameKeeps DEF Answers, Asks
    <2>7. CASE VerifyProcessed(s)
      <3>1. \/ Same
            \/ Settle(s, "error") /\ names' = WithoutFolder(v)
        BY <1>1, <1>4, <2>7, EsciOutcome
      <3> QED
        BY <1>3, <1>4, <2>1, <2>2, <3>1, SameKeeps DEF Answers
    <2> QED
      BY <1>1, <1>4, <2>3, <2>4, <2>5, <2>6, <2>7, Guards DEF Moves, Prepares
  <1> QED
    BY <1>2, <1>3, <1>4, OthersFolder
-----------------------------------------------------------------------------
(* What a publication has read of its source *)

\* The draft that q reads; two preparations of it that crossed q; a preparation of it
\* that crossed q and has left no folder.
DraftOf(q) == Processed(Call[q].artifact, "golden-draft.json")
Rivals(q) ==
    \E o, p \in Preparers(Call[q].artifact) : o # p /\ Met(o, q) /\ Met(p, q)
Gone(q) ==
    /\ ~Exists(Folder(Call[q].artifact))
    /\ \E o \in Preparers(Call[q].artifact) : Met(o, q) /\ pc[o] \in Answers
\* What q holds is of the draft, and what it is about to publish comes from the source.
Matched(q) ==
    \/ Whole(DraftOf(q)) /\ MatchesSource(memo[q].input, Content(DraftOf(q)))
    \/ Gone(q) \/ Rivals(q)
Sound(x, q) ==
    \/ Verified(Call[q].artifact) /\ FromSource(x, Call[q].artifact)
    \/ Rivals(q)
SourceInv ==
    \A q \in Made : Call[q].op = "sourceValidate" =>
        /\ pc[q] = "verifyRecords" => Matched(q)
        /\ pc[q] \in {"open", "write"} =>
               \E x : memo[q].todo = << <<Temporary(Published(q)), x>> >> /\ Sound(x, q)
PrepareInv == IInv /\ FolderInv /\ BareInv /\ BlankInv

\* Rivals stay, and so does what comes from a source that verified.
LEMMA SoundLasts ==
    ASSUME PrepareInv, NEW s \in Made, Step(s), NEW q, NEW x, Sound(x, q)
    PROVE  Sound(x, q)'
  <1>1. PICK v : v = Call[q].artifact
    OBVIOUS
  <1>2. StagedInv /\ FilesInv /\ FolderInv /\ BareInv /\ BlankInv /\ AllMet
    BY DEF PrepareInv, IInv
  <1>3. met \subseteq met' /\ Made' = Made
    BY <1>2, StepMet, StepStaged DEF Frame
  <1>4. Rivals(q) => Rivals(q)'
    BY <1>3 DEF Rivals, Met, Preparers
  <1>5. ASSUME Verified(v), FromSource(x, v)
        PROVE  Verified(v)' /\ FromSource(x, v)'
    <2>1. Untouched(v) /\ Verified(v)'
      BY <1>2, <1>5, VerifiedLasts
    <2>2. \A f \in {"golden-draft.json", "catalog.json"} :
              Content(Processed(v, f))' = Content(Processed(v, f))
      BY <1>5, <2>1 DEF Verified, Matches, OutputFiles, AllFiles, Untouched
    <2>3. /\ Content(Processed(v, "golden-draft.json"))' = Content(Processed(v, "golden-draft.json"))
          /\ Content(Processed(v, "catalog.json"))' = Content(Processed(v, "catalog.json"))
      BY <2>2
    <2>4. FromSource(x, v)'
      BY <1>5, <2>3 DEF FromSource
    <2> QED
      BY <2>1, <2>4
  <1> QED
    BY <1>1, <1>4, <1>5 DEF Sound

\* While it is decided on, the draft is the one that was read, or its folder went.
LEMMA MatchLasts ==
    ASSUME PrepareInv, NEW s \in Made, Step(s), NEW q \in Made, q # s,
           Call[q].op = "sourceValidate", pc[q] = "verifyRecords", Matched(q)
    PROVE  Matched(q)'
  <1>1. /\ StagedInv /\ FilesInv /\ FolderInv /\ BareInv /\ BlankInv /\ AllMet
        /\ Frame(s) /\ Moves(s) /\ DOMAIN memo = Made
    BY StepStaged DEF PrepareInv, IInv, StagedInv
  <1>2. met \subseteq met' /\ AllMet'
    BY <1>1, StepMet
  <1>3. pc'[q] = pc[q] /\ memo'[q] = memo[q] /\ Open(q) /\ Open(q)'
    BY <1>1 DEF Frame, Open, Answers
  <1>4. PICK v, d : v = Call[q].artifact /\ d = DraftOf(q)
    OBVIOUS
  <1>5. CASE Rivals(q)
    <2>1. Rivals(q)'
      BY <1>1, <1>2, <1>5 DEF Rivals, Met, Preparers, Frame
    <2> QED
      BY <2>1 DEF Matched
  <1>6. CASE Whole(d) /\ MatchesSource(memo[q].input, Content(d))
    <2>1. CASE Whole(d)' /\ Content(d)' = Content(d)
      <3>1. MatchesSource(memo[q].input, Content(d))'
        BY <1>3, <1>6, <2>1 DEF MatchesSource
      <3>2. DraftOf(q)' = d
        BY <1>4 DEF DraftOf, Processed
      <3> QED
        BY <1>4, <2>1, <3>1, <3>2 DEF Matched, Whole, Exists, Content, MatchesSource
    <2>2. CASE /\ Call[s].op = "prepare" /\ Call[s].version = v /\ Prepares(s)
               /\ pc'[s] \in Answers /\ Folder(v) \notin DOMAIN names'
      <3>1. Met(s, q) /\ s \in Preparers(v)'
        BY <1>1, <1>3, <2>2 DEF Prepares, Open, Answers, AllMet, Preparers, Frame
      <3>2. Met(s, q)'
        BY <1>2, <3>1 DEF Met
      <3>3. Gone(q)'
        BY <1>4, <2>2, <3>1, <3>2 DEF Gone, Exists, Folder
      <3> QED
        BY <3>3 DEF Matched
    <2> QED
      BY <1>1, <1>4, <1>6, <2>1, <2>2, DraftLasts DEF DraftOf
  <1>7. CASE Gone(q)
    <2>1. PICK o \in Preparers(v) : Met(o, q) /\ pc[o] \in Answers
      BY <1>4, <1>7 DEF Gone
    <2>2. o \in Made /\ o # s
      BY <1>1, <2>1, Meeting, Guards DEF Preparers, Open, Answers
    <2>3. pc'[o] \in Answers /\ Met(o, q)' /\ o \in Preparers(v)'
      BY <1>1, <1>2, <2>1, <2>2 DEF Frame, Met, Preparers
    <2>4. CASE Folder(v) \notin DOMAIN names'
      <3>1. Gone(q)'
        BY <1>4, <2>3, <2>4 DEF Gone, Exists, Folder
      <3> QED
        BY <3>1 DEF Matched
    <2>5. CASE Folder(v) \in DOMAIN names'
      <3>1. Folder(v) \notin DOMAIN names
        BY <1>4, <1>7 DEF Gone, Exists
      <3>2. Call[s].op = "prepare" /\ Call[s].version = v
        BY <1>1, <2>5, <3>1, OthersFolder DEF Untouched
      <3>3. ~Prepares(s)
        BY <1>1, <3>1, <3>2 DEF FolderInv, Owned
      <3>4. pc'[s] = "select"
        BY <1>1, <2>5, <3>1, <3>2, <3>3, FolderMade DEF Same
      <3>5. Met(s, q)' /\ s \in Preparers(v)'
        BY <1>1, <1>2, <1>3, <3>2, <3>4 DEF AllMet, Open, Answers, Preparers, Frame
      <3>6. Rivals(q)'
        BY <1>4, <2>2, <2>3, <3>5 DEF Rivals
      <3> QED
        BY <3>6 DEF Matched
    <2> QED
      BY <2>4, <2>5
  <1> QED
    BY <1>4, <1>5, <1>6, <1>7 DEF Matched

\* What is about to be published comes from the source.
LEMMA StepSource ==
    ASSUME PrepareInv, SourceInv, NEW s \in Made, Step(s)
    PROVE  SourceInv'
  <1>1. /\ StagedInv /\ FilesInv /\ FolderInv /\ BareInv /\ BlankInv /\ AllMet /\ Staged(s)
        /\ Frame(s) /\ Moves(s) /\ DOMAIN memo = Made
    BY StepStaged DEF PrepareInv, IInv, StagedInv
  <1>2. \A to : Settle(s, to) => pc'[s] = to
    BY DEF Settle, After
  <1>3. ASSUME NEW q \in Made, q # s, Call[q].op = "sourceValidate"
        PROVE  /\ pc'[q] = "verifyRecords" => Matched(q)'
               /\ pc'[q] \in {"open", "write"} =>
                      \E x : /\ memo'[q].todo = << <<Temporary(Published(q)), x>> >>
                             /\ Sound(x, q)'
    <2>1. pc'[q] = pc[q] /\ memo'[q] = memo[q]
      BY <1>1, <1>3 DEF Frame
    <2> QED
      BY <1>3, <2>1, MatchLasts, SoundLasts DEF SourceInv
  <1>4. ASSUME Call[s].op = "sourceValidate", pc'[s] = "verifyRecords"
        PROVE  Matched(s)'
    <2>1. MatchDraft(s)
      <3>1. Begin(s) => pc'[s] = "match"
        <4>1. FirstStep["sourceValidate"] = "match"
          BY DEF FirstStep
        <4> QED
          BY <1>1, <1>4, <4>1, FileOutcome DEF After
      <3>2. OpenFile(s) => pc'[s] = "write"
        BY DEF OpenFile, Goto, Made
      <3>3. WriteFile(s) => pc'[s] \in {"open", "replace"}
        BY <1>1, <1>4, FileOutcome DEF After, Onwards, AfterWriting
      <3>4. VerifyRecords(s) => pc'[s] \in {"open", "error"}
        BY <1>1, <1>2, EsciOutcome, Asking DEF Asks, Gains, After
      <3>5. ReplacePublished(s) => pc'[s] \in {"done", "error"}
        BY <1>1, <1>2, EsciOutcome
      <3>6. WriteFails(s) \/ Crash(s) => pc'[s] \in {"broken", "crashed"}
        BY <1>1, <1>2, FileOutcome
      <3> QED
        BY <1>1, <1>4, <3>1, <3>2, <3>3, <3>4, <3>5, <3>6 DEF Moves
    <2>2. PICK d : d = DraftOf(s)
      OBVIOUS
    <2>3. /\ Same /\ Whole(d) /\ MatchesSource(Content(Call[s].path), Content(d))
          /\ Gains(s, "verifyRecords", "input", Content(Call[s].path))
      BY <1>1, <1>2, <1>4, <2>1, <2>2, EsciOutcome DEF DraftOf
    <2>4. memo'[s].input = Content(Call[s].path)
      BY <1>1, <2>3 DEF Gains, Staged
    <2>5. DraftOf(s)' = d /\ Whole(d)' /\ Content(d)' = Content(d)
      BY <2>2, <2>3 DEF DraftOf, Processed, Whole, Exists, Content, Same
    <2>6. Whole(DraftOf(s))' /\ Content(DraftOf(s))' = Content(d)
      BY <2>5 DEF Whole, Exists, Content
    <2> QED
      BY <2>3, <2>4, <2>6 DEF Matched, MatchesSource
  <1>5. ASSUME Call[s].op = "sourceValidate", pc'[s] \in {"open", "write"}
        PROVE  \E x : /\ memo'[s].todo = << <<Temporary(Published(s)), x>> >>
                      /\ Sound(x, s)'
    <2>1. CASE OpenFile(s)
      <3>1. pc[s] = "open" /\ memo'[s].todo = memo[s].todo
        BY <1>1, <2>1, FileOutcome, Guards DEF Gains, Staged
      <3> QED
        BY <1>5, <3>1, SoundLasts DEF SourceInv
    <2>2. CASE VerifyRecords(s)
      <3>1. PICK v : v = Call[s].artifact
        OBVIOUS
      <3>2. PICK catalog, selected : /\ catalog = Content(Processed(v, "catalog.json"))
                                     /\ selected = memo[s].input
        OBVIOUS
      <3>3. PICK x : x = Sealed([version |-> selected.body.version, catalog |-> selected.body.catalog,
                                 source_draft |-> selected.hash, source_catalog |-> catalog,
                                 cases |-> selected.body.cases])
        OBVIOUS
      <3>4. /\ Verified(v) /\ Judgments(selected.body.cases) \subseteq catalog.ids
            /\ Asks(s, << <<Temporary(Published(s)), x>> >>)
        BY <1>1, <1>2, <1>5, <2>2, <3>1, <3>2, <3>3, EsciOutcome
      <3>5. memo'[s].todo = << <<Temporary(Published(s)), x>> >>
        BY <1>1, <3>4, Asking
      <3>6. Matched(s)
        BY <1>1, <1>5, <2>2, Guards DEF SourceInv
      <3>7. ~Gone(s)
        BY <1>1, <3>1, <3>4 DEF Gone, BareInv, Verified, Whole, AllFiles
      <3>8. Whole(DraftOf(s)) /\ MatchesSource(memo[s].input, Content(DraftOf(s))) => FromSource(x, v)
        <4>1. x.body.cases = selected.body.cases /\ x.body.source_catalog = catalog /\ ValidHash(x)
          BY <3>3 DEF Sealed, ValidHash
        <4> QED
          BY <3>1, <3>2, <3>4, <4>1 DEF FromSource, DraftOf, MatchesSource
      <3>9. Sound(x, s)
        BY <3>1, <3>4, <3>6, <3>7, <3>8 DEF Sound, Matched
      <3> QED
        BY <3>5, <3>9, SoundLasts
    <2>3. OpenFile(s) \/ VerifyRecords(s)
      <3>1. Begin(s) => pc'[s] = "match"
        <4>1. FirstStep["sourceValidate"] = "match"
          BY DEF FirstStep
        <4> QED
          BY <1>1, <1>5, <4>1, FileOutcome DEF After
      <3>2. WriteFile(s) => pc'[s] = "replace"
        <4>1. ASSUME WriteFile(s)
              PROVE  Onwards(s) = "replace"
          <5>1. One(s, Temporary(Published(s)))
            BY <1>1, <1>5, <4>1, Guards DEF Staged, Pending
          <5> QED
            BY <1>5, <5>1 DEF Onwards, AfterWriting, One
        <4> QED
          BY <1>1, <4>1, FileOutcome DEF After
      <3>3. MatchDraft(s) => pc'[s] \in {"verifyRecords", "error"}
        BY <1>1, <1>2, EsciOutcome DEF Gains, After
      <3>4. ReplacePublished(s) => pc'[s] \in {"done", "error"}
        BY <1>1, <1>2, EsciOutcome
      <3>5. WriteFails(s) \/ Crash(s) => pc'[s] \in {"broken", "crashed"}
        BY <1>1, <1>2, FileOutcome
      <3> QED
        BY <1>1, <1>5, <3>1, <3>2, <3>3, <3>4, <3>5 DEF Moves
    <2> QED
      BY <2>1, <2>2, <2>3
  <1>6. ASSUME NEW q \in Made, Call[q].op = "sourceValidate"
        PROVE  (/\ pc[q] = "verifyRecords" => Matched(q)
                /\ pc[q] \in {"open", "write"} =>
                      \E x : memo[q].todo = << <<Temporary(Published(q)), x>> >> /\ Sound(x, q))'
    <2>1. Temporary(Published(q))' = Temporary(Published(q))
      BY DEF Temporary, Published, Packet
    <2> QED
      BY <1>3, <1>4, <1>5, <1>6, <2>1
  <1> QED
    BY <1>1, <1>6 DEF SourceInv, Frame
-----------------------------------------------------------------------------
(* What is published *)

\* What is found under the names of r comes from its source, or from that of one it met.
Holds(path, what) == path \in DOMAIN names /\ what = data[names[path]]
Fine(what, r) ==
    \/ what = Partial
    \/ \E q \in Publishers(Published(r)) : (q = r \/ Met(q, r)) /\ Sound(what[1], q)
PublishedAt(r, d) ==
    /\ pc[r] \in {"write", "replace", "done"} =>
           \A what : Holds(Temporary(d), what) => Fine(what, r)
    /\ pc[r] = "done" => /\ Exists(d) /\ \A what : Holds(d, what) => Fine(what, r)
                         /\ \A q \in Publishers(d) : Working(q) => Met(q, r)
PublishInv ==
    \A r \in Made : \A d : Call[r].op = "sourceValidate" /\ d = Published(r) => PublishedAt(r, d)

\* What was fine stays so.
LEMMA FineLasts ==
    ASSUME PrepareInv, NEW s \in Made, Step(s), NEW r, NEW what, Fine(what, r)
    PROVE  Fine(what, r)'
  <1>1. met \subseteq met' /\ Made' = Made
    BY StepMet, StepStaged DEF PrepareInv, IInv, Frame
  <1>2. CASE what = Partial
    BY <1>2 DEF Fine, Partial
  <1>3. CASE \E q \in Publishers(Published(r)) : (q = r \/ Met(q, r)) /\ Sound(what[1], q)
    <2>1. PICK q \in Publishers(Published(r)) : (q = r \/ Met(q, r)) /\ Sound(what[1], q)
      BY <1>3
    <2>2. q \in Publishers(Published(r))' /\ (q = r \/ Met(q, r)')
      BY <1>1, <2>1 DEF Publishers, Published, Packet, Met
    <2>3. Sound(what[1], q)'
      BY <2>1, SoundLasts
    <2> QED
      BY <2>2, <2>3 DEF Fine
  <1> QED
    BY <1>2, <1>3 DEF Fine

\* What another command does to the files of a publication: nothing.
LEMMA OthersPublish ==
    ASSUME PrepareInv, PublishInv, NEW s \in Made, Step(s), NEW r \in Made, NEW d,
           Call[r].op = "sourceValidate", d = Published(r), s \notin Publishers(d)
    PROVE  PublishedAt(r, d)'
  <1>1. /\ StagedInv /\ FilesInv /\ Staged(s) /\ Frame(s) /\ Reaches(s) /\ DOMAIN memo = Made
        /\ Call[s].op \in Operations /\ met \subseteq met'
    BY StepStaged, StepMet, Reach, FilesAssumption DEF PrepareInv, IInv, StagedInv
  <1>2. Destined(d) /\ ~Destined(Temporary(d))
    BY Paths DEF Published
  <1>3. d \notin Touches(s) /\ Temporary(d) \notin Touches(s)
    <2> SUFFICES ASSUME Working(s), Destination(s) = d
                 PROVE  FALSE
      BY <1>1, <1>2, TouchDest
    <2>1. d[1] = "goldens"
      BY Paths DEF Published
    <2>2. Call[s].op = "evaluate" => d[1] = "runs"
      BY Destinations, Paths DEF Artifact
    <2>3. Call[s].op = "download" => d[1] = "raw"
      BY Destinations, Paths
    <2>4. Call[s].op = "sourceValidate"
      BY <2>1, <2>2, <2>3, Destinations
    <2> QED
      BY <2>4, Destinations DEF Publishers
  <1>4. ASSUME NEW p \in {d, Temporary(d)}, NEW what
        PROVE  Holds(p, what)' <=> Holds(p, what)
    <2>1. names[p][2] \notin Touches(s) \/ p \notin DOMAIN names
      BY <1>1, <1>2, <1>3, <1>4 DEF FilesInv
    <2> QED
      BY <1>1, <1>3, <1>4, <2>1 DEF Reaches, Leaves, FilesInv, Holds
  <1>5. Exists(d)' <=> Exists(d)
    BY <1>1, <1>3 DEF Reaches, Leaves, Exists
  <1>6. r # s /\ pc'[r] = pc[r] /\ PublishedAt(r, d)
    BY <1>1 DEF Publishers, Frame, PublishInv
  <1>7. \A what : Fine(what, r) => Fine(what, r)'
    BY FineLasts
  <1>8. ASSUME pc[r] = "done", NEW q \in Publishers(d)', Working(q)'
        PROVE  Met(q, r)'
    <2>1. q \in Publishers(d) /\ q # s /\ q \in Made
      BY <1>1 DEF Publishers, Published, Packet, Frame
    <2>2. Working(q)
      BY <1>1, <1>8, <2>1 DEF Working, Frame
    <2> QED
      BY <1>1, <1>6, <1>8, <2>1, <2>2 DEF PublishedAt, Met
  <1>9. Temporary(d)' = Temporary(d)
    BY DEF Temporary
  <1>10. \A what : Holds(Temporary(d), what)' <=> Holds(Temporary(d), what)
    BY <1>4
  <1>11. \A what : Holds(d, what)' <=> Holds(d, what)
    BY <1>4
  <1> QED
    BY <1>5, <1>6, <1>7, <1>8, <1>9, <1>10, <1>11 DEF PublishedAt

\* What a publication itself does to its files.
Writes(s, what) == Working(s) /\ (what = Partial \/ \E x : what = <<x>> /\ Sound(x, s))
LEMMA Publishing ==
    ASSUME PrepareInv, SourceInv, NEW s \in Made, Step(s), NEW d, NEW t,
           Call[s].op = "sourceValidate", d = Published(s), t = Temporary(d)
    PROVE  /\ \A what : Holds(t, what)' => Holds(t, what) \/ Writes(s, what)
           /\ \A what : Holds(d, what)' =>
                  Holds(d, what) \/ Writes(s, what) \/ (pc'[s] = "done" /\ Holds(t, what))
           /\ d \in DOMAIN names \/ pc'[s] = "done" => d \in DOMAIN names'
           /\ Working(s)' => Working(s) \/ d \notin DOMAIN names
           /\ pc'[s] = "write" => \A what : Holds(t, what)' => what = Partial
           /\ pc'[s] = "replace" => pc[s] = "write"
           /\ pc'[s] = "done" => pc[s] = "replace" /\ \A what : Holds(d, what)' => Holds(t, what)
  <1>1. /\ StagedInv /\ FilesInv /\ Staged(s) /\ Moves(s) /\ DOMAIN memo = Made
    BY StepStaged DEF PrepareInv, IInv, StagedInv
  <1>2. d # t /\ Destined(d) /\ ~Destined(t)
    BY Paths DEF Published
  <1>3. \A to : Settle(s, to) => pc'[s] = to
    BY DEF Settle, After
  <1>4. \/ Begin(s) \/ Crash(s) \/ MatchDraft(s) \/ VerifyRecords(s)
        \/ OpenFile(s) \/ WriteFile(s) \/ WriteFails(s) \/ ReplacePublished(s)
    BY <1>1 DEF Moves
  <1>5. ASSUME Same
        PROVE  /\ \A p, what : Holds(p, what)' => Holds(p, what)
               /\ d \in DOMAIN names => d \in DOMAIN names'
    BY <1>5 DEF Same, Holds
  <1>6. CASE Begin(s) \/ Crash(s)
    <2>1. Begin(s) => pc'[s] = "match"
      <3>1. FirstStep["sourceValidate"] = "match"
        BY DEF FirstStep
      <3> QED
        BY <1>1, <3>1, FileOutcome DEF After
    <2>2. Crash(s) => pc'[s] = "crashed"
      BY <1>1, <1>3, FileOutcome
    <2>3. Same
      BY <1>1, <1>6, FileOutcome
    <2> QED
      BY <1>5, <1>6, <2>1, <2>2, <2>3 DEF Working
  <1>7. CASE MatchDraft(s)
    <2>1. \A x : Gains(s, "verifyRecords", "input", x) => pc'[s] = "verifyRecords"
      BY DEF Gains, After
    <2>2. Same /\ ((~Exists(d) /\ pc'[s] = "verifyRecords") \/ Settle(s, "error"))
      BY <1>1, <1>7, <2>1, EsciOutcome
    <2> QED
      BY <1>3, <1>5, <2>2 DEF Working, Exists
  <1>8. CASE VerifyRecords(s)
    <2>1. Same /\ pc'[s] \in {"error", "open"} /\ pc[s] = "verifyRecords"
      BY <1>1, <1>3, <1>8, EsciOutcome, Asking, Guards DEF Asks
    <2> QED
      BY <1>5, <2>1 DEF Working
  <1>9. CASE OpenFile(s) \/ WriteFile(s)
    <2>1. pc[s] \in {"open", "write"} /\ Working(s)
      BY <1>9, Guards DEF Working
    <2>2. Path(s) = t
      <3>1. One(s, t)
        BY <1>1, <2>1 DEF Staged, Pending
      <3> QED
        BY <3>1 DEF One, Path
    <2>3. CASE OpenFile(s)
      <3>1. PICK i : names' = Named(t, i) /\ data' = Filled(i, Partial)
        BY <2>2, <2>3 DEF OpenFile
      <3>2. pc'[s] = "write"
        BY <1>1, <2>3, FileOutcome DEF Gains, After
      <3>3. \A what : Holds(t, what)' => what = Partial
        BY <3>1 DEF Holds, Named, Filled
      <3>4. \A what : Holds(d, what)' => Holds(d, what) \/ what = Partial
        BY <1>1, <1>2, <3>1 DEF Holds, Named, Filled, FilesInv
      <3>5. d \in DOMAIN names => d \in DOMAIN names'
        BY <3>1 DEF Named
      <3> QED
        BY <2>1, <3>2, <3>3, <3>4, <3>5 DEF Writes
    <2>4. CASE WriteFile(s)
      <3>1. PICK x : /\ memo[s].todo = << <<t, x>> >> /\ Sound(x, s)
        BY <2>1 DEF SourceInv
      <3>2. memo[s].todo[1][2] = x
        BY <3>1
      <3>3. PICK what : /\ what = Partial \/ what = <<x>>
                        /\ data' = Filled(memo[s].handle, what) /\ names' = names
        BY <2>4, <3>2 DEF WriteFile
      <3>4. Writes(s, what)
        BY <2>1, <3>1, <3>3 DEF Writes
      <3>5. \A p, other : Holds(p, other)' => Holds(p, other) \/ other = what
        BY <1>1, <3>3 DEF Holds, Filled, FilesInv
      <3>6. pc'[s] = "replace" /\ pc[s] = "write"
        <4>1. Len(memo[s].todo) = 1
          BY <3>1
        <4>2. Onwards(s) = "replace"
          BY <4>1 DEF Onwards, AfterWriting
        <4> QED
          BY <1>1, <2>4, <4>2, FileOutcome, Guards DEF After
      <3> QED
        BY <2>1, <3>3, <3>4, <3>5, <3>6
    <2> QED
      BY <1>9, <2>3, <2>4
  <1>10. CASE WriteFails(s)
    <2>1. names' = Unlinked({t}) /\ data' = data /\ pc'[s] = "broken"
      BY <1>1, <1>3, <1>10, FileOutcome DEF CleanedUp
    <2>2. \A p, what : Holds(p, what)' => Holds(p, what)
      BY <2>1 DEF Holds, Unlinked
    <2>3. d \in DOMAIN names => d \in DOMAIN names'
      BY <1>2, <2>1 DEF Unlinked
    <2> QED
      BY <2>1, <2>2, <2>3 DEF Working
  <1>11. CASE ReplacePublished(s)
    <2>1. pc[s] = "replace" /\ Working(s)
      BY <1>11, Guards DEF Working
    <2>2. CASE Same /\ pc'[s] = "error"
      BY <1>5, <2>1, <2>2
    <2>3. CASE /\ t \in DOMAIN names /\ pc'[s] = "done" /\ names' = Moved(d) /\ data' = data
      <3>1. t \notin DOMAIN names' /\ d \in DOMAIN names' /\ names'[d] = names[t]
        BY <1>2, <2>3, Leaving
      <3> QED
        BY <2>1, <2>3, <3>1 DEF Holds
    <2> QED
      BY <1>1, <1>3, <1>11, <2>2, <2>3, EsciOutcome DEF Exists
  <1> QED
    BY <1>4, <1>6, <1>7, <1>8, <1>9, <1>10, <1>11

\* What is published stays fine, whatever the publications of the same dataset do.
LEMMA PublishersPublish ==
    ASSUME PrepareInv, SourceInv, PublishInv, NEW s \in Made, Step(s), NEW r \in Made, NEW d,
           Call[r].op = "sourceValidate", d = Published(r), s \in Publishers(d)
    PROVE  PublishedAt(r, d)'
  <1>1. /\ StagedInv /\ AllMet /\ Staged(s) /\ Frame(s) /\ DOMAIN memo = Made
        /\ met \subseteq met' /\ Call[s].op = "sourceValidate" /\ d = Published(s)
    BY StepStaged, StepMet DEF PrepareInv, IInv, StagedInv, Publishers
  <1>2. PICK t : t = Temporary(d)
    OBVIOUS
  <1>3. PublishedAt(r, d)
    BY DEF PublishInv
  <1>4. \A what : Fine(what, r) => Fine(what, r)'
    BY FineLasts
  <1>5. ASSUME NEW what, Writes(s, what), r = s \/ Met(s, r)
        PROVE  Fine(what, r)
    <2>1. CASE what = Partial
      BY <2>1 DEF Fine
    <2>2. CASE \E x : what = <<x>> /\ Sound(x, s)
      BY <1>5, <2>2 DEF Fine
    <2> QED
      BY <1>5, <2>1, <2>2 DEF Writes
  <1>6. ASSUME r # s, Working(s), pc[r] \in {"write", "replace", "done"}
        PROVE  Met(s, r)
    <2>1. Open(s)
      BY <1>6 DEF Working, Open, Answers
    <2>2. pc[r] \in {"write", "replace"} => Open(r)
      BY DEF Open, Answers
    <2> QED
      BY <1>1, <1>3, <1>6, <2>1, <2>2 DEF PublishedAt, AllMet
  <1>7. /\ \A what : Holds(t, what)' => Holds(t, what) \/ Writes(s, what)
        /\ \A what : Holds(d, what)' =>
               Holds(d, what) \/ Writes(s, what) \/ (pc'[s] = "done" /\ Holds(t, what))
        /\ d \in DOMAIN names \/ pc'[s] = "done" => d \in DOMAIN names'
        /\ Working(s)' => Working(s) \/ d \notin DOMAIN names
        /\ pc'[s] = "write" => \A what : Holds(t, what)' => what = Partial
        /\ pc'[s] = "replace" => pc[s] = "write"
        /\ pc'[s] = "done" => pc[s] = "replace" /\ \A what : Holds(d, what)' => Holds(t, what)
    BY <1>1, <1>2, Publishing
  <1>8. /\ pc[r] \in {"write", "replace", "done"} => \A what : Holds(t, what) => Fine(what, r)
        /\ pc[r] = "done" => /\ d \in DOMAIN names /\ \A what : Holds(d, what) => Fine(what, r)
                             /\ \A q \in Publishers(d) : Working(q) => Met(q, r)
    BY <1>2, <1>3 DEF PublishedAt, Exists
  <1>9. ASSUME pc'[r] \in {"write", "replace", "done"}, NEW what, Holds(t, what)'
        PROVE  Fine(what, r)'
    <2>1. CASE r # s
      <3>1. pc[r] \in {"write", "replace", "done"}
        BY <1>1, <1>9, <2>1 DEF Frame
      <3>2. Writes(s, what) => Fine(what, r)
        BY <1>5, <1>6, <2>1, <3>1 DEF Writes
      <3> QED
        BY <1>4, <1>7, <1>8, <1>9, <3>1, <3>2
    <2>2. CASE r = s
      BY <1>4, <1>5, <1>7, <1>8, <1>9, <2>2 DEF Fine
    <2> QED
      BY <2>1, <2>2
  <1>10. ASSUME pc'[r] = "done"
         PROVE  d \in DOMAIN names' /\ \A what : Holds(d, what)' => Fine(what, r)'
    <2>1. CASE r # s
      <3>1. pc[r] = "done"
        BY <1>1, <1>10, <2>1 DEF Frame
      <3>2. \A what : Writes(s, what) => Fine(what, r)
        BY <1>5, <1>6, <2>1, <3>1 DEF Writes
      <3> QED
        BY <1>4, <1>7, <1>8, <3>1, <3>2
    <2>2. CASE r = s
      BY <1>4, <1>7, <1>8, <1>10, <2>2
    <2> QED
      BY <2>1, <2>2
  <1>11. ASSUME pc'[r] = "done", NEW q \in Publishers(d)', Working(q)'
         PROVE  Met(q, r)'
    <2>1. q \in Publishers(d) /\ q \in Made
      BY <1>1 DEF Publishers, Published, Packet, Frame
    <2>2. q # s => Working(q)
      BY <1>1, <1>11, <2>1 DEF Working, Frame
    <2>3. CASE r # s
      <3>1. pc[r] = "done" /\ Working(q)
        BY <1>1, <1>7, <1>8, <1>11, <2>2, <2>3 DEF Frame
      <3> QED
        BY <1>1, <1>8, <2>1, <3>1 DEF Met
    <2>4. CASE r = s
      <3>1. q # s /\ pc[s] = "replace"
        BY <1>7, <1>11, <2>4 DEF Working, Publishers
      <3>2. Open(q) /\ Open(s)
        BY <2>2, <3>1 DEF Working, Open, Answers
      <3> QED
        BY <1>1, <2>1, <2>4, <3>1, <3>2 DEF AllMet, Met
    <2> QED
      BY <2>3, <2>4
  <1>12. Temporary(d)' = t
    BY <1>2 DEF Temporary
  <1> QED
    BY <1>2, <1>9, <1>10, <1>11, <1>12 DEF PublishedAt, Exists

\* The inductive invariant of publications.
PublicationInv == PrepareInv /\ SourceInv /\ PublishInv

\* The invariant of publications holds at the start.
LEMMA InitPublication ==
    ASSUME Init
    PROVE  PublicationInv
  <1>1. IInv /\ FolderInv /\ \A r \in Made : pc[r] = "ready"
    <2>1. PICK w \in Workloads : pc = [r \in w.commands |-> "ready"]
      BY DEF Init
    <2> QED
      BY <2>1, InitInv, InitWhole DEF WholeInv, Made
  <1>2. BareInv
    <2>1. PICK w \in Workloads : DOMAIN names = DOMAIN SeedFiles[w.files]
      BY DEF Init
    <2>2. w.files \in DOMAIN SeedFiles
      BY FilesAssumption
    <2>3. ASSUME NEW v, Folder(v) \notin DOMAIN names, NEW f, Processed(v, f) \in DOMAIN names
          PROVE  FALSE
      <3>1. Processed(v, f)[1] = "processed" /\ Processed(v, f)[2] = v
        BY Paths
      <3> QED
        BY <2>1, <2>2, <2>3, <3>1, EsciAssumption
    <2> QED
      BY <2>3 DEF BareInv, Exists
  <1> QED
    BY <1>1, <1>2 DEF PublicationInv, PrepareInv, BlankInv, Prepares, SourceInv, PublishInv,
       PublishedAt

\* A step keeps it.
LEMMA StepPublication ==
    ASSUME PublicationInv, NEW s \in Made, Step(s)
    PROVE  PublicationInv'
  <1>1. /\ IInv /\ StagedInv /\ FilesInv /\ FolderInv /\ BareInv /\ BlankInv /\ PrepareInv
        /\ SourceInv /\ PublishInv
    BY DEF PublicationInv, PrepareInv, IInv
  <1>2. IInv' /\ FolderInv'
    BY <1>1, StepInv, StepFolder
  <1>3. BareInv'
    BY <1>1, StepBare
  <1>4. BlankInv'
    BY <1>1, StepBlank
  <1>5. SourceInv'
    BY <1>1, StepSource
  <1>6. PublishInv'
    <2>1. ASSUME NEW r \in Made, NEW d, Call[r].op = "sourceValidate", d = Published(r)
          PROVE  PublishedAt(r, d)'
      BY <1>1, <2>1, OthersPublish, PublishersPublish
    <2>2. Made' = Made /\ \A r : Published(r)' = Published(r)
      BY <1>1, StepStaged DEF Frame, Published, Packet
    <2> QED
      BY <2>1, <2>2 DEF PublishInv
  <1> QED
    BY <1>2, <1>3, <1>4, <1>5, <1>6 DEF PublicationInv, PrepareInv

\* So does a step of none of the commands.
LEMMA StutterPublication ==
    ASSUME PublicationInv, UNCHANGED vars
    PROVE  PublicationInv'
  <1> USE DEF vars
  <1>1. IInv'
    BY Stutter DEF PublicationInv, PrepareInv
  <1>2. Made' = Made /\ \A x : Exists(x)' <=> Exists(x)
    BY DEF Made, Exists
  <1>3. \A x : (Whole(x)' <=> Whole(x)) /\ Content(x)' = Content(x)
    BY DEF Whole, Exists, Content
  <1>4. ASSUME NEW v
        PROVE  /\ Verified(v)' <=> Verified(v)
               /\ Exists(Folder(v))' <=> Exists(Folder(v))
               /\ Preparers(v)' = Preparers(v)
               /\ \A f : /\ Exists(Processed(v, f))' <=> Exists(Processed(v, f))
                         /\ Whole(Processed(v, f))' <=> Whole(Processed(v, f))
                         /\ Content(Processed(v, f))' = Content(Processed(v, f))
    BY <1>2 DEF Verified, Matches, Whole, Exists, Content, Processed, Folder, Preparers
  <1>5. ASSUME NEW r
        PROVE  /\ Prepares(r)' <=> Prepares(r)
               /\ Owned(r)' <=> Owned(r)
    BY DEF Prepares, Owned
  <1>6. FolderInv'
    <2>1. ASSUME NEW v
          PROVE  (FolderAt(v)' <=> FolderAt(v)) /\ (Given(Folder(v))' <=> Given(Folder(v)))
      BY <1>4, <1>5 DEF FolderAt, Preparers, Given, Folder
    <2> QED
      BY <1>2, <1>4, <1>5, <2>1 DEF PublicationInv, PrepareInv, FolderInv
  <1>7. BareInv'
    BY <1>4 DEF PublicationInv, PrepareInv, BareInv
  <1>8. BlankInv'
    <2>1. ASSUME NEW r
          PROVE  NotYet(r)' <=> NotYet(r)
      BY <1>4 DEF NotYet, Three, Two, Processed, Whole, Exists
    <2> QED
      BY <1>2, <1>5, <2>1 DEF PublicationInv, PrepareInv, BlankInv
  <1>9. ASSUME NEW q, NEW x
        PROVE  (Sound(x, q)' <=> Sound(x, q)) /\ (Rivals(q)' <=> Rivals(q))
    <2>1. Rivals(q)' <=> Rivals(q)
      BY <1>4 DEF Rivals, Met
    <2>2. FromSource(x, Call[q].artifact)' <=> FromSource(x, Call[q].artifact)
      BY <1>4 DEF FromSource
    <2> QED
      BY <1>4, <2>1, <2>2 DEF Sound
  <1>10. SourceInv'
    <2>1. ASSUME NEW q
          PROVE  Matched(q)' <=> Matched(q)
      <3>1. DraftOf(q)' = DraftOf(q)
        BY DEF DraftOf, Processed
      <3> QED
        BY <1>3, <1>4, <1>9, <3>1 DEF Matched, Gone, Met, MatchesSource, DraftOf
    <2> QED
      BY <1>2, <1>9, <2>1 DEF PublicationInv, SourceInv
  <1>11. PublishInv'
    <2>1. ASSUME NEW what, NEW r
          PROVE  (Fine(what, r)' <=> Fine(what, r))
      BY <1>2, <1>9 DEF Fine, Publishers, Published, Packet, Met
    <2>2. ASSUME NEW p, NEW what
          PROVE  Holds(p, what)' <=> Holds(p, what)
      BY DEF Holds
    <2>3. ASSUME NEW r, NEW d
          PROVE  PublishedAt(r, d)' <=> PublishedAt(r, d)
      BY <1>2, <2>1, <2>2 DEF PublishedAt, Publishers, Working, Met, Temporary
    <2> QED
      BY <1>2, <2>3 DEF PublicationInv, PublishInv
  <1> QED
    BY <1>1, <1>6, <1>7, <1>8, <1>10, <1>11 DEF PublicationInv, PrepareInv

\* What is published as validated by its source comes from it, that of the command or of
\* one that published the same dataset meanwhile, unless two preparations crossed.
THEOREM PublicationsComeFromSource == Spec => []PublishedFromSource
  <1>1. Init => PublicationInv
    BY InitPublication
  <1>2. PublicationInv /\ [Next]_vars => PublicationInv'
    BY StepPublication, StutterPublication DEF Next
  <1>3. ASSUME PublicationInv
        PROVE  PublishedFromSource
    <2>1. ASSUME NEW r \in Made, Call[r].op = "sourceValidate", pc[r] = "done",
                 Whole(Published(r))
          PROVE  \E q \in Publishers(Published(r)) :
                     (q = r \/ Met(q, r)) /\ Sound(Content(Published(r)), q)
      <3>1. PICK d : d = Published(r)
        OBVIOUS
      <3>2. PublishedAt(r, d)
        BY <1>3, <2>1, <3>1 DEF PublicationInv, PublishInv
      <3>3. Holds(d, data[names[d]]) /\ data[names[d]] # Partial
        BY <2>1, <3>1 DEF Holds, Whole, Exists
      <3>4. Fine(data[names[d]], r)
        BY <2>1, <3>2, <3>3 DEF PublishedAt
      <3> QED
        BY <3>1, <3>3, <3>4 DEF Fine, Content
    <2>2. \A q, r : Met(q, r) => Met(r, q)
      BY DEF Met
    <2> QED
      BY <2>1, <2>2 DEF PublishedFromSource, Sound, Rivals
  <1> QED
    BY <1>1, <1>2, <1>3, PTL DEF Spec

-----------------------------------------------------------------------------
(* What an evaluation makes of a case *)

\* Two responses that differ in nothing but whether they were slow.
ResponseFields ==
    {"interpreted", "applied", "retrieved", "filtered", "products", "slow"}
Alike(a, b) ==
    /\ DOMAIN a = ResponseFields /\ DOMAIN b = ResponseFields
    /\ a.interpreted = b.interpreted /\ a.applied = b.applied /\ a.retrieved = b.retrieved
    /\ a.filtered = b.filtered /\ a.products = b.products

\* What a fault does to a response does not depend on whether it was slow.
LEMMA InjectedAlike ==
    ASSUME NEW mode, NEW catalog, NEW a, NEW b, Alike(a, b)
    PROVE  Alike(Injected(mode, a, catalog), Injected(mode, b, catalog))
  <1> USE DEF Alike, ResponseFields
  <1>1. CASE mode = "filter_broken"
    <2>1. PICK out : out = Without(a.retrieved, a.filtered)
      OBVIOUS
    <2>2. PICK more : more = CHOOSE x \in catalog : x.id = Head(out)
      OBVIOUS
    <2>3. \A x : x.retrieved = a.retrieved /\ x.filtered = a.filtered =>
              InjectFilterViolation(x, catalog) =
                  IF out = <<>> THEN x ELSE [x EXCEPT !.products = Append(@, more)]
      BY <2>1, <2>2 DEF InjectFilterViolation
    <2>4. PICK p : p = Append(a.products, more)
      OBVIOUS
    <2>5. PICK x, y : /\ x = IF out = <<>> THEN a ELSE [a EXCEPT !.products = p]
                      /\ y = IF out = <<>> THEN b ELSE [b EXCEPT !.products = p]
      OBVIOUS
    <2>6. Alike(x, y)
      BY <2>5
    <2>7. InjectFilterViolation(a, catalog) = x /\ InjectFilterViolation(b, catalog) = y
      BY <2>3, <2>4, <2>5
    <2> QED
      BY <1>1, <2>6, <2>7 DEF Injected
  <1>2. CASE mode = "retrieval_broken"
    <2>1. PICK target : target = Cut(Ids(a.products) \o a.retrieved, 1)
      OBVIOUS
    <2>2. \A x : x.products = a.products /\ x.retrieved = a.retrieved =>
              InjectRetrievalMiss(x) =
                  [x EXCEPT !.retrieved = Without(@, target), !.filtered = Without(@, target),
                            !.products = ProductsWithout(@, target)]
      BY <2>1 DEF InjectRetrievalMiss
    <2>3. PICK t, f, p : /\ t = Without(a.retrieved, target) /\ f = Without(a.filtered, target)
                         /\ p = ProductsWithout(a.products, target)
      OBVIOUS
    <2>4. PICK x, y : /\ x = [a EXCEPT !.retrieved = t, !.filtered = f, !.products = p]
                      /\ y = [b EXCEPT !.retrieved = t, !.filtered = f, !.products = p]
      OBVIOUS
    <2>5. Alike(x, y)
      BY <2>4
    <2>6. InjectRetrievalMiss(a) = x
      BY <2>2, <2>3, <2>4
    <2>7. InjectRetrievalMiss(b) = y
      BY <2>2, <2>3, <2>4
    <2> QED
      BY <1>2, <2>5, <2>6, <2>7 DEF Injected
  <1>3. CASE mode = "ranking_broken"
    BY <1>3 DEF Injected, InjectRankingFailure
  <1>4. CASE mode = "query_parser_regression"
    BY <1>4 DEF Injected, InjectParserRegression
  <1>5. CASE mode = "latency_regression"
    BY <1>5 DEF Injected
  <1>6. CASE mode \notin {"filter_broken", "retrieval_broken", "ranking_broken",
                          "query_parser_regression", "latency_regression"}
    BY <1>6 DEF Injected
  <1> QED
    BY <1>1, <1>2, <1>3, <1>4, <1>5, <1>6

\* Two answers of a search system to one query are alike.
LEMMA ServedAlike ==
    ASSUME NEW mode, NEW catalog, NEW query, NEW k, NEW slow, NEW other
    PROVE  Alike(Served(mode, catalog, query, k, slow), Served(mode, catalog, query, k, other))
  <1>1. Alike(Search(catalog, query, k, slow), Search(catalog, query, k, other))
    BY DEF Search, SearchFor, Alike, ResponseFields
  <1> QED
    BY <1>1, InjectedAlike DEF Served

\* The first of nine symptoms that the case shows.
LEMMA FirstShown ==
    ASSUME NEW S, S \subseteq 1 .. 9, 9 \in S
    PROVE  Min(S) \in S /\ \A i \in S : Min(S) <= i
  <1> DEFINE least == IF 1 \in S THEN 1 ELSE IF 2 \in S THEN 2 ELSE IF 3 \in S THEN 3
                      ELSE IF 4 \in S THEN 4 ELSE IF 5 \in S THEN 5 ELSE IF 6 \in S THEN 6
                      ELSE IF 7 \in S THEN 7 ELSE IF 8 \in S THEN 8 ELSE 9
  <1>1. least \in S /\ \A i \in S : least <= i
    OBVIOUS
  <1> HIDE DEF least
  <1> QED
    BY <1>1 DEF Min

\* So the symptoms of two responses that are alike have the same first one, or one of them
\* is a latency.
LEMMA FirstAlike ==
    ASSUME NEW s, NEW u, DOMAIN s = 1 .. 9, DOMAIN u = 1 .. 9,
           \A i \in (1 .. 9) \ {8} : s[i] = u[i],
           s[8][2] = "LATENCY_FAILURE", u[8][2] = "LATENCY_FAILURE", s[9][1]
    PROVE  First(s) = First(u) \/ "LATENCY_FAILURE" \in {First(s), First(u)}
  <1>1. PICK S, U : S = {i \in DOMAIN s : s[i][1]} /\ U = {i \in DOMAIN u : u[i][1]}
    OBVIOUS
  <1>2. 9 \in S /\ 9 \in U /\ S \subseteq 1 .. 9 /\ U \subseteq 1 .. 9
    <2>1. 9 \in (1 .. 9) \ {8}
      OBVIOUS
    <2>2. u[9] = s[9]
      BY <2>1
    <2>3. u[9][1]
      BY ONLY <2>2, s[9][1]
    <2> QED
      BY <1>1, <2>1, <2>3
  <1>3. \A i \in (1 .. 9) \ {8} : i \in S <=> i \in U
    BY <1>1
  <1>4. First(s) = s[Min(S)][2] /\ First(u) = u[Min(U)][2]
    BY <1>1 DEF First
  <1>5. PICK m, n : m = Min(S) /\ n = Min(U)
    OBVIOUS
  <1>6. m \in S /\ n \in U /\ (\A i \in S : m <= i) /\ \A i \in U : n <= i
    BY <1>2, <1>5, FirstShown
  <1>7. m = n \/ m = 8 \/ n = 8
    BY <1>2, <1>3, <1>6
  <1>8. First(s) = s[m][2] /\ First(u) = u[n][2] /\ m \in 1 .. 9
    BY <1>2, <1>4, <1>5, <1>6
  <1>9. CASE m = n /\ m # 8
    <2>1. s[m] = u[m]
      BY <1>8, <1>9
    <2> QED
      BY <1>8, <1>9, <2>1
  <1>10. CASE m = 8 \/ n = 8
    BY <1>8, <1>10
  <1> QED
    BY <1>7, <1>9, <1>10

\* What a response is searched for does not depend on whether it was slow, but in one place.
LEMMA SymptomsAlike ==
    ASSUME NEW case, NEW a, NEW b, Alike(a, b), NEW s, s = Symptoms(case, a),
           NEW u, u = Symptoms(case, b)
    PROVE  /\ DOMAIN s = 1 .. 9 /\ DOMAIN u = 1 .. 9
           /\ \A i \in (1 .. 9) \ {8} : s[i] = u[i]
           /\ s[8][2] = "LATENCY_FAILURE" /\ u[8][2] = "LATENCY_FAILURE" /\ s[9][1]
  <1> USE DEF Symptoms, Alike
  <1>1. s[1] = u[1]
    OBVIOUS
  <1>2. s[2] = u[2]
    OBVIOUS
  <1>3. s[3] = u[3]
    OBVIOUS
  <1>4. s[4] = u[4]
    OBVIOUS
  <1>5. s[5] = u[5]
    OBVIOUS
  <1>6. s[6] = u[6]
    OBVIOUS
  <1>7. s[7] = u[7]
    OBVIOUS
  <1>8. s[8][2] = "LATENCY_FAILURE" /\ u[8][2] = "LATENCY_FAILURE"
    OBVIOUS
  <1>9. s[9] = <<TRUE, "NONE">> /\ u[9] = <<TRUE, "NONE">>
    OBVIOUS
  <1>10. DOMAIN s = 1 .. 9 /\ DOMAIN u = 1 .. 9
    OBVIOUS
  <1> QED
    <2>1. \A i \in (1 .. 9) \ {8} : i \in {1, 2, 3, 4, 5, 6, 7, 9}
      OBVIOUS
    <2>2. \A i \in {1, 2, 3, 4, 5, 6, 7, 9} : s[i] = u[i]
      BY ONLY <1>1, <1>2, <1>3, <1>4, <1>5, <1>6, <1>7, <1>9
    <2>3. s[9][1]
      BY ONLY <1>9
    <2>4. \A i \in (1 .. 9) \ {8} : s[i] = u[i]
      BY ONLY <2>1, <2>2
    <2> QED
      BY ONLY <1>8, <1>10, <2>3, <2>4

\* Two results of a case with responses that are alike differ by a latency at most.
LEMMA ResultsAlike ==
    ASSUME NEW case, NEW k, NEW a, NEW b, Alike(a, b)
    PROVE  ButSlow(CaseResult(case, a, k), CaseResult(case, b, k))
  <1>1. PICK s, u : s = Symptoms(case, a) /\ u = Symptoms(case, b)
    OBVIOUS
  <1>2. First(s) = First(u) \/ "LATENCY_FAILURE" \in {First(s), First(u)}
    BY <1>1, SymptomsAlike, FirstAlike
  <1>3. Classify(case, a) = First(s) /\ Classify(case, b) = First(u)
    BY <1>1 DEF Classify
  <1>4. CASE Classify(case, a) = Classify(case, b)
    BY <1>4 DEF CaseResult, ButSlow, Alike
  <1>5. CASE "LATENCY_FAILURE" \in {Classify(case, a), Classify(case, b)}
    <2>1. PICK x, y : x = CaseResult(case, a, k) /\ y = CaseResult(case, b, k)
      OBVIOUS
    <2>2. /\ DOMAIN x = {"case", "actual", "failure", "intent", "filter", "satisfaction",
                         "relevance", "passed"}
          /\ DOMAIN y = DOMAIN x
          /\ x.case = y.case /\ x.actual = y.actual /\ x.intent = y.intent
          /\ x.filter = y.filter /\ x.satisfaction = y.satisfaction
          /\ x.relevance = y.relevance
      BY <2>1 DEF CaseResult, Alike
    <2>3. [x EXCEPT !.failure = "", !.passed = FALSE] = [y EXCEPT !.failure = "", !.passed = FALSE]
      BY ONLY <2>2
    <2>4. "LATENCY_FAILURE" \in {x.failure, y.failure}
      BY <1>5, <2>1 DEF CaseResult
    <2> QED
      BY <2>1, <2>3, <2>4 DEF ButSlow
  <1> QED
    BY <1>2, <1>3, <1>4, <1>5

-----------------------------------------------------------------------------
(* What an evaluation has computed and traced *)

\* From its first case on, an evaluation has a valid dataset, and each result is that of a
\* case of it.
Computed(r) ==
    pc[r] = "case" \/ memo[r].results # <<>> =>
        /\ ValidHash(memo[r].input)
        /\ Cases(r) \in Seq(ToSet(Cases(r)))
        /\ \A i, j \in DOMAIN Cases(r) : Cases(r)[i].id = Cases(r)[j].id => i = j
        /\ Len(memo[r].results) <= Len(Cases(r))
        /\ pc[r] = "case" => Len(memo[r].results) < Len(Cases(r))
        /\ \A i \in DOMAIN memo[r].results : \E slow :
              memo[r].results[i] = ResultOf(r, Cases(r)[i], slow)
ComputedInv == \A r \in Made : Call[r].op = "evaluate" => Computed(r)

\* A valid dataset has a case.
LEMMA SomeCase ==
    ASSUME NEW x, HasCases(x), NEW catalog, validate_golden_dataset(x, catalog, TRUE)
    PROVE  Len(x.body.cases) > 0
  <1>1. PICK cases : cases = x.body.cases
    OBVIOUS
  <1>2. PICK t : t \in DOMAIN Distribution /\ Distribution[t] > 0
    BY DistributionAssumption
  <1>3. Cardinality({i \in DOMAIN cases : cases[i].type = t}) = Distribution[t]
    BY <1>1, <1>2 DEF validate_golden_dataset
  <1>4. {i \in DOMAIN cases : cases[i].type = t} # {}
    <2>1. Cardinality({}) = 0
      BY FS_EmptySet
    <2>2. PICK S : S = {i \in DOMAIN cases : cases[i].type = t}
      OBVIOUS
    <2>3. S # {}
      BY <1>2, <1>3, <2>1, <2>2
    <2> QED
      BY <2>2, <2>3
  <1>5. cases \in Seq(ToSet(cases))
    BY <1>1 DEF HasCases, SourceCases
  <1> QED
    BY <1>1, <1>4, <1>5

\* What an evaluation does to what it has computed.
LEMMA Computing ==
    ASSUME StagedInv, RunsInv, ComputedInv, NEW r \in Made, Step(r), Call[r].op = "evaluate"
    PROVE  Computed(r)'
  <1>1. Staged(r) /\ Frame(r) /\ DOMAIN memo = Made /\ Moves(r) /\ Recorded(r) /\ Computed(r)
    BY StepStaged DEF StagedInv, RunsInv, ComputedInv
  <1>2. ASSUME NEW to, Settle(r, to)
        PROVE  /\ pc'[r] = to
               /\ memo'[r].input = memo[r].input /\ memo'[r].results = memo[r].results
    BY <1>1, <1>2 DEF Settle, After, Staged
  <1>3. CASE /\ memo'[r].input = memo[r].input /\ memo'[r].results = memo[r].results
             /\ pc'[r] # "case"
    <2>1. Cases(r)' = Cases(r)
      BY <1>3 DEF Cases
    <2>2. \A case, slow : ResultOf(r, case, slow)' = ResultOf(r, case, slow)
      BY DEF ResultOf, Response, Classified, Evaluates
    <2> QED
      BY <1>1, <1>3, <2>1, <2>2 DEF Computed
  <1>4. CASE EvaluateLoad(r)
    <2>1. memo[r].results = <<>>
      BY <1>1, <1>4, Guards DEF Recorded
    <2>2. CASE Reject(r)
      BY <1>1, <1>2, <1>3, <2>2, Helpers
    <2>3. CASE ~Reject(r)
      <3>1. PICK x : x = Content(Call[r].path)
        OBVIOUS
      <3>2. /\ HasCases(x) /\ validate_golden_dataset(x, Call[r].catalog, TRUE)
            /\ pc'[r] = "case" /\ memo'[r] = [memo[r] EXCEPT !.input = x]
        BY <1>1, <1>4, <2>3, <3>1 DEF EvaluateLoad, Read, Goto, Remember, Made
      <3>3. memo'[r].input = x /\ memo'[r].results = <<>>
        BY <1>1, <2>1, <3>2 DEF Staged
      <3>4. Len(x.body.cases) > 0
        BY <3>2, SomeCase
      <3> QED
        BY <3>2, <3>3, <3>4 DEF Computed, Cases, HasCases, SourceCases, validate_golden_dataset
    <2> QED
      BY <2>2, <2>3
  <1>5. CASE EvaluateCase(r)
    <2>1. pc[r] = "case" /\ pc'[r] \in {"case", "look", "error"}
      BY <1>1, <1>5, Guards, EvaluateOutcome DEF Gains, Settle, After
    <2>2. CASE Reject(r)
      BY <1>1, <1>2, <1>3, <2>2, Helpers
    <2>3. CASE ~Reject(r)
      <3>1. PICK n, cases, results : /\ results = memo[r].results /\ n = Len(results) + 1
                                     /\ cases = Cases(r)
        OBVIOUS
      <3>2. PICK x, slow : /\ x = ResultOf(r, cases[n], slow)
                           /\ memo'[r] = [memo[r] EXCEPT !.results = Append(@, x)]
                           /\ pc'[r] = IF n # Len(cases) THEN "case" ELSE "look"
        BY <1>1, <1>5, <2>3, <3>1 DEF EvaluateCase, Goto, Remember, Made
      <3>3. memo'[r].input = memo[r].input /\ memo'[r].results = Append(results, x)
        BY <1>1, <3>1, <3>2 DEF Staged
      <3>4. Cases(r)' = cases
        BY <3>1, <3>3 DEF Cases
      <3>5. /\ ValidHash(memo[r].input) /\ cases \in Seq(ToSet(cases))
            /\ \A i, j \in DOMAIN cases : cases[i].id = cases[j].id => i = j
            /\ Len(results) < Len(cases)
            /\ \A i \in DOMAIN results : \E s : results[i] = ResultOf(r, cases[i], s)
        BY <1>1, <2>1, <3>1 DEF Computed
      <3>6. PICK S : results \in Seq(S)
        BY <1>1, <3>1 DEF Recorded
      <3>7. PICK more : more = Append(results, x)
        OBVIOUS
      <3>8. /\ Len(more) = n /\ DOMAIN more = 1 .. n /\ more[n] = x
            /\ \A i \in DOMAIN results : more[i] = results[i]
            /\ \A i \in DOMAIN more : i = n \/ i \in DOMAIN results
        BY <3>1, <3>6, <3>7
      <3>9. \A i \in DOMAIN more : \E s : more[i] = ResultOf(r, cases[i], s)
        BY <3>2, <3>5, <3>8
      <3>10. \A case, s : ResultOf(r, case, s)' = ResultOf(r, case, s)
        BY DEF ResultOf, Response, Classified, Evaluates
      <3>11. n <= Len(cases) /\ (pc'[r] = "case" => n < Len(cases))
        <4>1. n \in Nat /\ Len(cases) \in Nat
          BY <3>1, <3>5, <3>6
        <4> QED
          BY <3>1, <3>2, <3>5, <3>6, <4>1
      <3> QED
        BY <3>3, <3>4, <3>5, <3>7, <3>8, <3>9, <3>10, <3>11 DEF Computed
    <2> QED
      BY <2>2, <2>3
  <1>6. CASE ~EvaluateLoad(r) /\ ~EvaluateCase(r)
    <2>1. CASE Crash(r)
      <3>1. Settle(r, "crashed")
        BY <1>1, <2>1, FileOutcome
      <3> QED
        BY <1>2, <1>3, <3>1
    <2>2. CASE ~Crash(r)
      <3>1. pc[r] \notin {"load", "case"}
        BY <1>1, <1>6, <2>2, Guards DEF Moves
      <3>2. /\ memo'[r].input = memo[r].input /\ memo'[r].results = memo[r].results
            /\ pc'[r] # "case"
        BY <1>1, <3>1, Recording DEF Answers
      <3> QED
        BY <1>3, <3>2
    <2> QED
      BY <2>1, <2>2
  <1> QED
    BY <1>4, <1>5, <1>6

\* Every step keeps what evaluations have computed.
LEMMA StepComputed ==
    ASSUME StagedInv, RunsInv, ComputedInv, NEW s \in Made, Step(s)
    PROVE  /\ ComputedInv'
           /\ \A r \in Evaluations : /\ Cases(r)' = Cases(r)
                                     /\ \A i \in DOMAIN memo[r].results :
                                           /\ i \in DOMAIN memo'[r].results
                                           /\ memo'[r].results[i] = memo[r].results[i]
  <1>1. Staged(s) /\ Frame(s) /\ DOMAIN memo = Made /\ Moves(s)
    BY StepStaged DEF StagedInv
  <1>2. ASSUME NEW r \in Made, r # s
        PROVE  /\ Cases(r)' = Cases(r) /\ memo'[r] = memo[r] /\ (Computed(r)' <=> Computed(r))
    <2>1. pc'[r] = pc[r] /\ memo'[r] = memo[r]
      BY <1>1, <1>2 DEF Frame
    <2>2. Cases(r)' = Cases(r)
      BY <2>1 DEF Cases
    <2>3. \A case, slow : ResultOf(r, case, slow)' = ResultOf(r, case, slow)
      BY DEF ResultOf, Response, Classified, Evaluates
    <2> QED
      BY <2>1, <2>2, <2>3 DEF Computed
  <1>3. ComputedInv'
    BY <1>1, <1>2, Computing DEF ComputedInv, Frame
  <1>4. ASSUME Call[s].op = "evaluate", memo[s].results # <<>>
        PROVE  /\ Cases(s)' = Cases(s)
               /\ \A i \in DOMAIN memo[s].results : /\ i \in DOMAIN memo'[s].results
                                                    /\ memo'[s].results[i] = memo[s].results[i]
    <2>1. Recorded(s) /\ pc[s] # "load"
      BY <1>4 DEF RunsInv, Recorded
    <2>2. CASE memo'[s].input = memo[s].input /\ memo'[s].results = memo[s].results
      BY <2>2 DEF Cases
    <2>3. CASE memo'[s].input = memo[s].input /\ \E x : memo'[s].results = Append(memo[s].results, x)
      <3>1. PICK S : memo[s].results \in Seq(S)
        BY <2>1 DEF Recorded
      <3>2. PICK x, old, new : /\ new = Append(old, x) /\ old = memo[s].results
                               /\ new = memo'[s].results
        BY <2>3
      <3>3. \A i \in DOMAIN old : i \in DOMAIN new /\ new[i] = old[i]
        BY <3>1, <3>2
      <3> QED
        BY <2>3, <3>2, <3>3 DEF Cases
    <2> QED
      BY <1>1, <1>4, <2>1, <2>2, <2>3, Recording
  <1> QED
    BY <1>2, <1>3, <1>4 DEF Evaluations

\* Two evaluations of one configuration differ by latencies.
LEMMA SameConfig ==
    ASSUME ComputedInv, NEW r \in Evaluations, NEW q \in Evaluations, Config(r) = Config(q)
    PROVE  /\ Cases(r) = Cases(q)
           /\ \A i \in DOMAIN memo[r].results \intersect DOMAIN memo[q].results :
                 ButSlow(memo[r].results[i], memo[q].results[i])
  <1>1. /\ memo[r].input.hash = memo[q].input.hash /\ Call[r].catalog = Call[q].catalog
        /\ Call[r].system = Call[q].system /\ Call[r].top_k = Call[q].top_k
    BY DEF Config, RunConfig
  <1>2. Computed(r) /\ Computed(q) /\ Classified(r) /\ Classified(q)
    BY DEF ComputedInv, Evaluations, Classified, Evaluates
  <1>3. Cases(r) = Cases(q)
    BY <1>1, <1>2 DEF Computed, ValidHash, Cases, Evaluations
  <1>4. ASSUME NEW i, i \in DOMAIN memo[r].results, i \in DOMAIN memo[q].results
        PROVE  ButSlow(memo[r].results[i], memo[q].results[i])
    <2>1. PICK a, b : /\ memo[r].results[i] = ResultOf(r, Cases(r)[i], a)
                      /\ memo[q].results[i] = ResultOf(q, Cases(q)[i], b)
      BY <1>2, <1>4 DEF Computed, Evaluations
    <2>2. PICK case, k, x, y :
              /\ case = Cases(r)[i] /\ k = Call[r].top_k
              /\ x = Served(ModeOf[Call[r].system], Catalogs[Call[r].catalog], case.query, k, a)
              /\ y = Served(ModeOf[Call[r].system], Catalogs[Call[r].catalog], case.query, k, b)
      OBVIOUS
    <2>3. memo[r].results[i] = CaseResult(case, x, k)
      BY <1>2, <2>1, <2>2 DEF ResultOf, Response
    <2>4. memo[q].results[i] = CaseResult(case, y, k)
      BY <1>1, <1>2, <1>3, <2>1, <2>2 DEF ResultOf, Response
    <2>5. Alike(x, y)
      BY <2>2, ServedAlike
    <2> QED
      BY <2>3, <2>4, <2>5, ResultsAlike
  <1> QED
    BY <1>3, <1>4

\* Every trace is of a result that an evaluation has.
Traced(t, r) ==
    \E i \in DOMAIN memo[r].results : t = Trace(r, Cases(r)[i], memo[r].results[i])
TracesInv == \A t \in traces : \E r \in Evaluations : Traced(t, r)

\* Only an evaluation that searches a case publishes a trace.
LEMMA Tracing ==
    ASSUME NEW s \in Made, Moves(s)
    PROVE  traces' = traces \/ EvaluateCase(s)
  <1> USE DEF Skip, Read, End, Reject, ToWrite
  <1>1. Begin(s) \/ Crash(s) \/ OpenFile(s) \/ WriteFile(s) \/ WriteFails(s) \/ Written(s) =>
            traces' = traces
    BY DEF Begin, Crash, OpenFile, WriteFile, WriteFails, Written
  <1>2. EvaluateLoad(s) \/ Look(s) \/ ReplaceArtifact(s) \/ LoadJob(s) \/ CheckJob(s) =>
            traces' = traces
    BY DEF EvaluateLoad, Look, ReplaceArtifact, LoadJob, CheckJob
  <1>3. ReviewGolden(s) \/ ApproveGolden(s) \/ RecordApproval(s) => traces' = traces
    <2>1. ReviewGolden(s) => traces' = traces
      BY DEF ReviewGolden
    <2>2. ApproveGolden(s) => traces' = traces
      BY DEF ApproveGolden
    <2>3. RecordApproval(s) => traces' = traces
      BY DEF RecordApproval
    <2> QED
      BY <2>1, <2>2, <2>3
  <1>4. NextSource(s) \/ ClearPart(s) \/ UnlinkPart(s) \/ CreatePart(s) \/ StreamPart(s)
        \/ DownloadFails(s) \/ PlacePart(s) => traces' = traces
    BY DEF NextSource, ClearPart, UnlinkPart, CreatePart, StreamPart, DownloadFails, PlacePart
  <1>5. VerifySources(s) \/ MakeFolder(s) \/ SelectSubset(s) \/ WriteReport(s)
        \/ VerifyProcessed(s) => traces' = traces
    <2>1. VerifySources(s) \/ MakeFolder(s) => traces' = traces
      BY DEF VerifySources, MakeFolder
    <2>2. SelectSubset(s) => traces' = traces
      BY DEF SelectSubset, WriteSubset
    <2>3. WriteReport(s) => traces' = traces
      BY DEF WriteReport
    <2>4. VerifyProcessed(s) => traces' = traces
      BY DEF VerifyProcessed
    <2> QED
      BY <2>1, <2>2, <2>3, <2>4
  <1>6. CheckPacket(s) \/ CreatePacket(s) \/ MatchDraft(s) \/ VerifyRecords(s)
        \/ ReplacePublished(s) => traces' = traces
    BY DEF CheckPacket, CreatePacket, MatchDraft, VerifyRecords, ReplacePublished
  <1> QED
    BY <1>1, <1>2, <1>3, <1>4, <1>5, <1>6 DEF Moves

\* A trace that is published is that of the result.
LEMMA StepTraces ==
    ASSUME StagedInv, RunsInv, ComputedInv, TracesInv, NEW s \in Made, Step(s)
    PROVE  TracesInv'
  <1>1. Staged(s) /\ Frame(s) /\ DOMAIN memo = Made /\ Moves(s) /\ s \in Commands
    BY StepStaged DEF StagedInv
  <1>2. ASSUME NEW t, NEW r \in Evaluations, Traced(t, r)
        PROVE  r \in Evaluations' /\ Traced(t, r)'
    <2>1. PICK i \in DOMAIN memo[r].results : t = Trace(r, Cases(r)[i], memo[r].results[i])
      BY <1>2 DEF Traced
    <2>2. r \in Evaluations' /\ Cases(r)' = Cases(r) /\ Artifact(r)' = Artifact(r)
          /\ i \in DOMAIN memo'[r].results /\ memo'[r].results[i] = memo[r].results[i]
      BY StepRuns, StepComputed
    <2>3. Config(r)' = Config(r)
      BY <2>2 DEF Artifact
    <2>4. \A case, x : Trace(r, case, x)' = Trace(r, case, x)
      BY <2>3 DEF Trace
    <2> QED
      BY <2>1, <2>2, <2>4 DEF Traced
  <1>3. CASE traces' = traces
    BY <1>2, <1>3 DEF TracesInv
  <1>4. CASE EvaluateCase(s) /\ traces' # traces
    <2>1. PICK n, cases, results : /\ results = memo[s].results /\ n = Len(results) + 1
                                   /\ cases = Cases(s)
      OBVIOUS
    <2>2. PICK x, t, slow : /\ x = ResultOf(s, cases[n], slow)
                            /\ memo'[s] = [memo[s] EXCEPT !.results = Append(@, x)]
                            /\ t = Trace(s, cases[n], x) /\ traces' \in Publications(s, t)
      BY <1>1, <1>4, <2>1 DEF EvaluateCase, Reject, End, Remember
    <2>3. traces' = traces \union {t} /\ Call[s].trace = "langfuse"
      BY <1>4, <2>2 DEF Publications
    <2>4. Call[s].op = "evaluate"
      <3>1. Call[s].op = "evaluate" \/ Call[s].op = "executeJob"
        <4>1. pc[s] = "case" /\ Call[s].op \in Operations
          BY <1>1, <1>4, Guards, FilesAssumption
        <4>2. "case" \in Stages[Call[s].op]
          BY <1>1, <4>1 DEF Staged, Answers
        <4> QED
          BY <4>1, <4>2 DEF Stages, Operations
      <3> QED
        BY <1>1, <2>3, <3>1, EvaluateAssumption
    <2>5. Recorded(s)
      BY <2>4 DEF RunsInv
    <2>6. PICK S : results \in Seq(S)
      BY <2>1, <2>5 DEF Recorded
    <2>7. memo'[s].results = Append(results, x) /\ memo'[s].input = memo[s].input
      BY <1>1, <2>1, <2>2 DEF Staged
    <2>8. PICK more : more = Append(results, x)
      OBVIOUS
    <2>9. n \in DOMAIN more /\ more[n] = x /\ more # <<>>
      BY <2>1, <2>6, <2>8
    <2>10. Config(s)' = Config(s) /\ Cases(s)' = cases
      BY <2>1, <2>7 DEF Config, Cases
    <2>11. Traced(t, s)' /\ s \in Evaluations'
      <3>1. Trace(s, cases[n], x)' = t
        BY <2>2, <2>10 DEF Trace
      <3>2. t = Trace(s, cases[n], memo[s].results[n])'
        BY <2>2, <2>7, <2>8, <2>9, <2>10 DEF Trace
      <3> QED
        BY <1>1, <2>4, <2>7, <2>8, <2>9, <2>10, <3>2 DEF Traced, Evaluations, Frame
    <2> QED
      BY <1>2, <2>3, <2>11 DEF TracesInv
  <1> QED
    BY <1>1, <1>3, <1>4, Tracing

\* So a trace id stands for one result.
LEMMA SameTrace ==
    ASSUME RunsInv, ComputedInv, TracesInv, NEW t \in traces, NEW u \in traces, t.id = u.id
    PROVE  ButSlow(t.result, u.result)
  <1>1. PICK r \in Evaluations, q \in Evaluations : Traced(t, r) /\ Traced(u, q)
    BY DEF TracesInv
  <1>2. PICK i \in DOMAIN memo[r].results, j \in DOMAIN memo[q].results :
            /\ t = Trace(r, Cases(r)[i], memo[r].results[i])
            /\ u = Trace(q, Cases(q)[j], memo[q].results[j])
    BY <1>1 DEF Traced
  <1>3. /\ Config(r) = Config(q) /\ Cases(r)[i].id = Cases(q)[j].id
        /\ t.result = memo[r].results[i] /\ u.result = memo[q].results[j]
    BY <1>2 DEF Trace
  <1>4. Cases(r) = Cases(q)
    BY <1>3, SameConfig
  <1>5. Computed(r) /\ Computed(q)
    BY DEF ComputedInv, Evaluations
  <1>6. i \in DOMAIN Cases(r) /\ j \in DOMAIN Cases(q)
    <2>1. ASSUME NEW S, NEW results \in Seq(S), NEW T, NEW cases \in Seq(T),
                 Len(results) <= Len(cases), NEW k \in DOMAIN results
          PROVE  k \in DOMAIN cases
      BY <2>1
    <2>2. Recorded(r) /\ Recorded(q)
      BY DEF RunsInv, Evaluations
    <2> QED
      BY <1>5, <2>1, <2>2 DEF Computed, Recorded, Evaluations
  <1>7. i = j
    BY <1>3, <1>4, <1>5, <1>6 DEF Computed, Evaluations
  <1> QED
    BY <1>3, <1>7, SameConfig

-----------------------------------------------------------------------------
(* What an evaluation stores *)

\* Another evaluation of the same run ran at the same time.
Meets(r) == \E q \in Evaluations : Met(r, q) /\ Artifact(q) = Artifact(r)

\* What is reported is written, and stays.
Shows(x, r) == x # Partial /\ x[1].results = memo[r].results
StoredAt(r, d) ==
    LET t == Temporary(d)
    IN  /\ pc[r] \in {"open", "write"} =>
              memo[r].todo = << <<t, [results |-> memo[r].results]>> >>
        /\ pc[r] = "write" => Exists(t) /\ names[t] = memo[r].handle /\ data[names[t]] = Partial
        /\ pc[r] = "replace" => Exists(t) /\ Shows(data[names[t]], r)
        /\ pc[r] = "done" => /\ Exists(d) /\ Shows(data[names[d]], r)
                             /\ \A q \in Evaluations : Artifact(q) = d => ~Working(q)
StoredInv == \A r \in Evaluations : \A d : d = Artifact(r) /\ ~Meets(r) => StoredAt(r, d)

\* Who has met one goes on having met it.
LEMMA MeetsStays ==
    ASSUME IInv, RunsInv, NEW s \in Made, Step(s), NEW r \in Evaluations, Meets(r)
    PROVE  Meets(r)'
  <1>1. PICK q \in Evaluations : Met(r, q) /\ Artifact(q) = Artifact(r)
    BY DEF Meets
  <1>2. met \subseteq met'
    BY StepMet DEF IInv
  <1>3. q \in Evaluations' /\ Artifact(q)' = Artifact(q) /\ Artifact(r)' = Artifact(r)
    BY StepRuns DEF IInv
  <1> QED
    BY <1>1, <1>2, <1>3 DEF Meets, Met

\* Who works for an artifact is an evaluation of its run.
LEMMA Workers ==
    ASSUME IInv, RunsInv, NEW s \in Made, Working(s)
    PROVE  /\ Call[s].op = "evaluate" => s \in Evaluations /\ Destination(s) = Artifact(s)
           /\ \A c : Destination(s) = <<"runs", c>> => Call[s].op = "evaluate"
           /\ Open(s)
  <1>1. Call[s].op = "evaluate" => s \in Evaluations /\ Destination(s) = Artifact(s)
    BY Destinations DEF RunsInv, Recorded, Working, Evaluations
  <1>2. ASSUME NEW c, Destination(s) = <<"runs", c>>
        PROVE  Call[s].op = "evaluate"
    <2>1. Destination(s)[1] = "runs"
      BY <1>2, Paths
    <2>2. Call[s].op = "sourceValidate" => Destination(s)[1] = "goldens"
      BY Destinations, Paths DEF Published
    <2>3. Call[s].op = "download" => Destination(s)[1] = "raw"
      BY Destinations, Paths
    <2> QED
      BY <2>1, <2>2, <2>3, Destinations
  <1> QED
    BY <1>1, <1>2, Destinations

\* What another command does to the artifact of an evaluation that met none of its run.
LEMMA OthersStored ==
    ASSUME IInv, RunsInv, StoredInv, NEW s \in Made, Step(s), NEW r \in Evaluations', r # s,
           ~Meets(r)', NEW d, d = Artifact(r)'
    PROVE  StoredAt(r, d)'
  <1>1. /\ StagedInv /\ FilesInv /\ AllMet /\ Staged(s) /\ Frame(s) /\ Moves(s) /\ Reaches(s)
        /\ DOMAIN memo = Made /\ Call[s].op \in Operations
    BY StepStaged, Reach, FilesAssumption DEF IInv, StagedInv
  <1>2. r \in Made /\ pc'[r] = pc[r] /\ memo'[r] = memo[r] /\ r \in Evaluations
    BY <1>1 DEF Frame, Evaluations
  <1>3. d = Artifact(r) /\ ~Meets(r)
    BY <1>2, MeetsStays, StepRuns, <1>1
  <1>4. StoredAt(r, d)
    BY <1>2, <1>3 DEF StoredInv
  <1>5. PICK t : t = Temporary(d)
    OBVIOUS
  <1>6. Destined(d) /\ ~Destined(t) /\ d # t /\ \E c : d = <<"runs", c>>
    BY <1>3, <1>5, Paths DEF Artifact
  <1>7. ASSUME NEW q \in Evaluations, q # r, Working(q), Artifact(q) = d,
               pc[r] \in {"open", "write", "replace", "done"}
        PROVE  FALSE
    <2>1. Open(q) /\ q \in Made
      BY <1>7, Workers DEF Evaluations
    <2>2. CASE pc[r] = "done"
      BY <1>4, <1>7, <2>2 DEF StoredAt
    <2>3. CASE pc[r] # "done"
      <3>1. Open(r)
        BY <1>7, <2>3 DEF Open, Answers
      <3>2. Met(r, q)
        BY <1>1, <1>2, <1>7, <2>1, <3>1 DEF AllMet
      <3> QED
        BY <1>3, <1>7, <3>2 DEF Meets
    <2> QED
      BY <2>2, <2>3
  <1>8. CASE pc[r] \notin {"open", "write", "replace", "done"}
    BY <1>2, <1>8 DEF StoredAt
  <1>9. CASE pc[r] \in {"open", "write", "replace", "done"}
    <2>1. d \notin Touches(s) /\ t \notin Touches(s)
      <3> SUFFICES ASSUME Working(s), Destination(s) = d
                   PROVE  FALSE
        BY <1>1, <1>5, <1>6, TouchDest
      <3>1. s \in Evaluations /\ Artifact(s) = d
        BY <1>6, Workers
      <3> QED
        BY <1>7, <1>9, <3>1
    <2>2. ASSUME NEW p \in {d, t}
          PROVE  /\ p \in DOMAIN names' <=> p \in DOMAIN names
                 /\ p \in DOMAIN names => names'[p] = names[p] /\ data'[names[p]] = data[names[p]]
      <3>1. names[p][2] \notin Touches(s) \/ p \notin DOMAIN names
        BY <1>1, <1>5, <1>6, <2>1, <2>2 DEF FilesInv
      <3> QED
        BY <1>1, <2>1, <2>2, <3>1 DEF Reaches, Leaves, FilesInv
    <2>3. ASSUME pc[r] = "done", NEW q \in Evaluations', Artifact(q)' = d, Working(q)'
          PROVE  FALSE
      <3>1. CASE q # s
        <4>1. q \in Made /\ pc'[q] = pc[q] /\ memo'[q] = memo[q]
          BY <1>1, <2>3, <3>1 DEF Frame, Evaluations
        <4>2. q \in Evaluations /\ Working(q) /\ Artifact(q) = d
          BY <2>3, <4>1 DEF Evaluations, Working, Artifact, Config
        <4> QED
          BY <1>4, <2>3, <4>2 DEF StoredAt
      <3>2. CASE q = s
        <4>1. Call[s].op = "evaluate" /\ pc'[s] \in {"open", "write", "replace"}
          BY <2>3, <3>2 DEF Working, Evaluations
        <4>2. pc[s] \in {"look", "open", "write"}
          BY <1>1, <4>1, Recording DEF Answers
        <4>3. s \in Evaluations
          BY <4>1, <4>2 DEF RunsInv, Recorded, Evaluations
        <4>4. Artifact(s) = d
          BY <1>1, <2>3, <3>2, <4>3, StepRuns
        <4>5. ~Working(s)
          BY <1>4, <2>3, <4>3, <4>4 DEF StoredAt
        <4>6. pc[s] = "look"
          BY <4>1, <4>2, <4>5 DEF Working
        <4>7. Look(s)
          BY <1>1, <4>1, <4>6, Guards, FileOutcome DEF Moves, Open, Settle, After
        <4>8. ~Exists(d)
          BY <1>1, <4>1, <4>4, <4>7, EvaluateOutcome DEF Settle, After
        <4> QED
          BY <1>4, <2>3, <4>8 DEF StoredAt
      <3> QED
        BY <3>1, <3>2
    <2>4. Temporary(d)' = t
      BY <1>5 DEF Temporary
    <2> QED
      BY <1>2, <1>4, <1>5, <2>2, <2>3, <2>4 DEF StoredAt, Shows, Exists, Partial
  <1> QED
    BY <1>8, <1>9

\* What the evaluation itself does to it.
LEMMA OwnStored ==
    ASSUME IInv, RunsInv, StoredInv, NEW s \in Made, Step(s), s \in Evaluations', ~Meets(s)',
           NEW d, d = Artifact(s)'
    PROVE  StoredAt(s, d)'
  <1>1. /\ StagedInv /\ FilesInv /\ AllMet /\ Staged(s) /\ Frame(s) /\ Moves(s)
        /\ DOMAIN memo = Made /\ Call[s].op = "evaluate" /\ Recorded(s)
    BY StepStaged DEF IInv, StagedInv, RunsInv, Evaluations
  <1>2. PICK t : t = Temporary(d)
    OBVIOUS
  <1>3. d # t /\ t = Temporary(d)'
    BY <1>2, Paths DEF Artifact, Temporary
  <1>4. CASE pc'[s] \notin {"open", "write", "replace", "done"}
    BY <1>4 DEF StoredAt
  <1>5. ASSUME pc'[s] \in {"open", "write", "replace", "done"}
        PROVE  /\ pc[s] \in {"look", "open", "write", "replace"}
               /\ Look(s) \/ OpenFile(s) \/ WriteFile(s) \/ ReplaceArtifact(s)
               /\ s \in Evaluations /\ d = Artifact(s) /\ StoredAt(s, d)
               /\ memo'[s].results = memo[s].results
    <2>1. Look(s) \/ OpenFile(s) \/ WriteFile(s) \/ ReplaceArtifact(s)
      <3>1. Crash(s) \/ WriteFails(s) => pc'[s] \in {"crashed", "broken"}
        BY <1>1, FileOutcome DEF Settle, After
      <3>2. Begin(s) => pc'[s] = "load"
        <4>1. FirstStep["evaluate"] = "load"
          BY DEF FirstStep
        <4> QED
          BY <1>1, <4>1, FileOutcome DEF After
      <3>3. EvaluateLoad(s) \/ EvaluateCase(s) => pc'[s] \in {"case", "look", "error"}
        BY <1>1, EvaluateOutcome DEF Settle, Gains, After
      <3> QED
        BY <1>1, <1>5, <3>1, <3>2, <3>3 DEF Moves
    <2>2. pc[s] \in {"look", "open", "write", "replace"}
      BY <2>1, Guards
    <2>3. s \in Evaluations
      BY <1>1, <2>2 DEF Recorded, Evaluations
    <2>4. d = Artifact(s) /\ ~Meets(s)
      BY <1>1, <2>3, StepRuns, MeetsStays
    <2>5. memo'[s].results = memo[s].results
      BY <1>1, <2>2, Recording
    <2> QED
      BY <2>1, <2>2, <2>3, <2>4, <2>5 DEF StoredInv
  <1>6. ASSUME pc'[s] = "done", pc[s] \in {"look", "replace"}, s \in Evaluations, d = Artifact(s),
               NEW q \in Evaluations', Artifact(q)' = d, Working(q)'
        PROVE  FALSE
    <2>1. q # s /\ q \in Made
      BY <1>1, <1>6 DEF Working, Evaluations, Frame
    <2>2. pc'[q] = pc[q] /\ memo'[q] = memo[q] /\ Made' = Made
      BY <1>1, <2>1 DEF Frame
    <2>3. q \in Evaluations /\ Working(q) /\ Artifact(q) = d
      BY <1>6, <2>1, <2>2 DEF Evaluations, Working, Artifact, Config
    <2>4. Open(q) /\ Open(s)
      BY <1>6, <2>1, <2>3, Workers DEF Open, Answers
    <2>5. Met(s, q)
      BY <1>1, <2>1, <2>4 DEF AllMet
    <2>6. Meets(s)
      BY <1>6, <2>3, <2>5 DEF Meets
    <2> QED
      BY <1>6, <2>6, MeetsStays
  <1>7. CASE Look(s) /\ pc'[s] \in {"open", "write", "replace", "done"}
    <2>1. pc[s] = "look" /\ s \in Evaluations /\ d = Artifact(s) /\ memo'[s].results = memo[s].results
      BY <1>5, <1>7, Guards
    <2>2. CASE Asks(s, << <<Temporary(Artifact(s)), [results |-> memo[s].results]>> >>)
      <3>1. /\ pc'[s] = "open"
            /\ memo'[s].todo = << <<t, [results |-> memo[s].results]>> >>
        BY <1>1, <1>2, <2>1, <2>2 DEF Asks, Gains, After, Staged
      <3> QED
        BY <1>3, <2>1, <3>1 DEF StoredAt
    <2>3. CASE SameResults(s) /\ Settle(s, "done") /\ Same
      <3>1. pc'[s] = "done" /\ names' = names /\ data' = data
        BY <2>3 DEF Settle, After, Same
      <3>2. d \in DOMAIN names /\ Shows(data[names[d]], s)
        BY <2>1, <2>3 DEF SameResults, Shows, Whole, Exists, Content
      <3>3. d \in DOMAIN names' /\ Shows(data[names[d]], s)'
        BY <2>1, <3>1, <3>2 DEF Shows, Partial
      <3>4. \A q \in Evaluations' : Artifact(q)' = d => ~Working(q)'
        BY <1>6, <2>1, <3>1
      <3> QED
        BY <3>1, <3>3, <3>4 DEF StoredAt, Exists
    <2>4. ~Settle(s, "error")
      BY <1>7 DEF Settle, After
    <2> QED
      BY <1>1, <1>7, <2>2, <2>3, <2>4, EvaluateOutcome
  <1>8. ASSUME pc[s] \in {"open", "write"}, StoredAt(s, d)
        PROVE  Path(s) = t /\ memo[s].todo = << <<t, [results |-> memo[s].results]>> >>
    BY <1>2, <1>8 DEF StoredAt, Path
  <1>9. CASE OpenFile(s)
    <2>1. PICK i : /\ names' = Named(Path(s), i) /\ data' = Filled(i, Partial)
                   /\ Goto(s, "write") /\ Remember(s, [memo[s] EXCEPT !.handle = i])
      BY <1>9 DEF OpenFile
    <2>2. /\ memo'[s].handle = i /\ memo'[s].todo = memo[s].todo /\ pc'[s] = "write"
      BY <1>1, <2>1 DEF Staged, Goto, Remember, Made
    <2>3. /\ StoredAt(s, d) /\ pc[s] = "open" /\ memo'[s].results = memo[s].results
      BY <1>5, <1>9, <2>2, Guards
    <2>4. Path(s) = t /\ memo[s].todo = << <<t, [results |-> memo[s].results]>> >>
      BY <1>8, <2>3
    <2>5. t \in DOMAIN names' /\ names'[t] = i /\ data'[i] = Partial
      BY <2>1, <2>4, Leaving
    <2>6. memo'[s].todo = << <<t, [results |-> memo'[s].results]>> >>
      BY <2>2, <2>3, <2>4
    <2> QED
      BY <1>3, <2>2, <2>5, <2>6 DEF StoredAt, Exists, Partial
  <1>10. CASE WriteFile(s)
    <2>1. pc[s] = "write" /\ After(s, Onwards(s), [memo[s] EXCEPT !.todo = Tail(@), !.handle = NoFile])
      BY <1>1, <1>10, FileOutcome, Guards
    <2>2. Onwards(s) \in {"open", "replace"}
      BY <1>1 DEF Onwards, AfterWriting
    <2>3. StoredAt(s, d) /\ memo'[s].results = memo[s].results
      BY <1>5, <1>10, <2>1, <2>2 DEF After
    <2>4. Path(s) = t /\ memo[s].todo = << <<t, [results |-> memo[s].results]>> >>
      BY <1>8, <2>1, <2>3
    <2>5. t \in DOMAIN names /\ names[t] = memo[s].handle /\ data[memo[s].handle] = Partial
      BY <1>2, <2>1, <2>3 DEF StoredAt, Exists
    <2>6. PICK x : x = [results |-> memo[s].results]
      OBVIOUS
    <2>7. memo[s].todo[1][2] = x /\ Len(memo[s].todo) = 1
      BY <2>4, <2>6
    <2>8. data' = Filled(memo[s].handle, <<x>>) /\ names' = names
      BY <1>10, <2>5, <2>7 DEF WriteFile
    <2>9. pc'[s] = "replace"
      BY <1>1, <2>1, <2>7 DEF After, Onwards, AfterWriting
    <2>10. data'[names'[t]] = <<x>> /\ t \in DOMAIN names'
      BY <2>5, <2>8, Leaving
    <2>11. <<x>> # Partial /\ x.results = memo'[s].results /\ <<x>>[1] = x
      BY <2>3, <2>6 DEF Partial
    <2>12. Shows(data[names[t]], s)'
      BY <2>10, <2>11 DEF Shows, Partial
    <2> QED
      BY <1>3, <2>9, <2>10, <2>12 DEF StoredAt, Exists
  <1>11. CASE ReplaceArtifact(s) /\ pc'[s] \in {"open", "write", "replace", "done"}
    <2>1. /\ StoredAt(s, d) /\ pc[s] = "replace" /\ memo'[s].results = memo[s].results
          /\ s \in Evaluations /\ d = Artifact(s)
      BY <1>5, <1>11, Guards
    <2>2. pc'[s] = "done" /\ names' = Moved(d) /\ data' = data
      BY <1>1, <1>11, <2>1, EvaluateOutcome DEF Settle, After
    <2>3. Shows(data[names[t]], s)
      BY <1>2, <2>1 DEF StoredAt
    <2>4. d \in DOMAIN names' /\ names'[d] = names[t]
      BY <1>2, <1>3, <2>2, Leaving
    <2>5. Shows(data[names[d]], s)'
      BY <2>1, <2>2, <2>3, <2>4 DEF Shows, Partial
    <2>6. \A q \in Evaluations' : Artifact(q)' = d => ~Working(q)'
      BY <1>6, <2>1, <2>2
    <2> QED
      BY <2>2, <2>4, <2>5, <2>6 DEF StoredAt, Exists
  <1> QED
    BY <1>4, <1>5, <1>7, <1>9, <1>10, <1>11

\* The inductive invariant of evaluations.
ReproducibleInv == IInv /\ RunsInv /\ ComputedInv /\ TracesInv /\ StoredInv

\* It holds at the start.
LEMMA InitReproducible ==
    ASSUME Init
    PROVE  ReproducibleInv
  <1>1. IInv /\ RunsInv
    BY InitInv, InitWhole DEF WholeInv
  <1>2. traces = {} /\ \A r \in Made : pc[r] = "ready" /\ memo[r].results = <<>>
    <2>1. PICK w \in Workloads : pc = [r \in w.commands |-> "ready"]
      BY DEF Init
    <2> QED
      BY <2>1 DEF Init, Made, Blank
  <1>3. Evaluations = {}
    BY <1>2 DEF Evaluations
  <1> QED
    BY <1>1, <1>2, <1>3 DEF ReproducibleInv, ComputedInv, Computed, TracesInv, StoredInv

\* A step keeps it.
LEMMA StepReproducible ==
    ASSUME ReproducibleInv, NEW s \in Made, Step(s)
    PROVE  ReproducibleInv'
  <1>1. IInv /\ StagedInv /\ RunsInv /\ ComputedInv /\ TracesInv /\ StoredInv
    BY DEF ReproducibleInv, IInv
  <1>2. IInv' /\ RunsInv' /\ ComputedInv' /\ TracesInv'
    BY <1>1, StepInv, StepRuns, StepComputed, StepTraces
  <1>3. StoredInv'
    <2>1. ASSUME NEW r \in Evaluations', NEW d, d = Artifact(r)', ~Meets(r)'
          PROVE  StoredAt(r, d)'
      BY <1>1, <2>1, OthersStored, OwnStored
    <2> QED
      BY <2>1 DEF StoredInv
  <1> QED
    BY <1>2, <1>3 DEF ReproducibleInv

\* So does a step of none of the commands.
LEMMA StutterReproducible ==
    ASSUME ReproducibleInv, UNCHANGED vars
    PROVE  ReproducibleInv'
  <1> USE DEF vars
  <1>1. IInv' /\ Made' = Made
    BY Stutter DEF ReproducibleInv, Made
  <1>2. ASSUME NEW r
        PROVE  /\ Recorded(r)' <=> Recorded(r)
               /\ Cases(r)' = Cases(r) /\ Config(r)' = Config(r) /\ Artifact(r)' = Artifact(r)
               /\ Working(r)' <=> Working(r)
    BY DEF Recorded, Cases, Config, Artifact, Working
  <1>3. Evaluations' = Evaluations /\ RunsInv'
    BY <1>1, <1>2 DEF ReproducibleInv, Evaluations, RunsInv
  <1>4. ComputedInv'
    <2>1. \A r, case, slow : ResultOf(r, case, slow)' = ResultOf(r, case, slow)
      BY DEF ResultOf, Response, Classified, Evaluates
    <2>2. \A r : Computed(r)' <=> Computed(r)
      BY <1>2, <2>1 DEF Computed, ValidHash
    <2> QED
      BY <1>1, <2>2 DEF ReproducibleInv, ComputedInv
  <1>5. TracesInv'
    <2>1. \A r, case, x : Trace(r, case, x)' = Trace(r, case, x)
      BY <1>2 DEF Trace
    <2>2. \A t, r : Traced(t, r)' <=> Traced(t, r)
      BY <1>2, <2>1 DEF Traced
    <2> QED
      BY <1>3, <2>2 DEF ReproducibleInv, TracesInv
  <1>6. StoredInv'
    <2>1. \A r : Meets(r)' <=> Meets(r)
      BY <1>2, <1>3 DEF Meets, Met
    <2>2. \A r, d : StoredAt(r, d)' <=> StoredAt(r, d)
      <3>1. \A x, r : Shows(x, r)' <=> Shows(x, r)
        BY DEF Shows, Partial
      <3> QED
        BY <1>2, <1>3, <3>1 DEF StoredAt, Exists, Temporary, Partial
    <2> QED
      BY <1>2, <1>3, <2>1, <2>2 DEF ReproducibleInv, StoredInv
  <1> QED
    BY <1>1, <1>3, <1>4, <1>5, <1>6 DEF ReproducibleInv

\* A run id stands for its results.
THEOREM RunsAreReproducible == Spec => []RunsReproducible
  <1>1. Init => ReproducibleInv
    BY InitReproducible
  <1>2. ReproducibleInv /\ [Next]_vars => ReproducibleInv'
    BY StepReproducible, StutterReproducible DEF Next
  <1>3. ASSUME ReproducibleInv
        PROVE  RunsReproducible
    <2>1. RunsInv /\ ComputedInv /\ TracesInv
      BY <1>3 DEF ReproducibleInv
    <2>2. ASSUME NEW r \in Evaluations, pc[r] = "done", ~Meets(r)
          PROVE  Whole(Artifact(r)) /\ Content(Artifact(r)).results = memo[r].results
      <3>1. PICK d : d = Artifact(r)
        OBVIOUS
      <3>2. StoredAt(r, d)
        BY <1>3, <2>2, <3>1 DEF ReproducibleInv, StoredInv
      <3>3. Exists(d) /\ Shows(data[names[d]], r)
        BY <2>2, <3>2 DEF StoredAt
      <3> QED
        BY <3>1, <3>3 DEF Shows, Whole, Content
    <2>3. ASSUME NEW r \in Evaluations, Meets(r)
          PROVE  \E q \in Evaluations : Met(r, q) /\ Config(q) = Config(r)
      BY <2>3 DEF Meets, Artifact
    <2> QED
      BY <2>1, <2>2, <2>3, SameConfig, SameTrace DEF RunsReproducible
  <1> QED
    BY <1>1, <1>2, <1>3, PTL DEF Spec

=============================================================================
