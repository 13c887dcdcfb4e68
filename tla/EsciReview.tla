----------------------------- MODULE EsciReview -----------------------------
(***************************************************************************)
(* The review packet of a processed subset, and its publication.           *)
(***************************************************************************)
EXTENDS EsciCommands

Packet(version, file) == <<"goldens", version, file>>
Draft(r) == Packet(Call[r].version, "draft")
Review(r) == Packet(Call[r].version, "review")
Published(r) == Packet(Call[r].version, "published")

Judgments(cases) == UNION {Products(cases[i].expected) : i \in DOMAIN cases}

\* load_verified_draft: the file is there, whole, and has the hash of its cases.
Loadable(path) == Whole(path) /\ ValidHash(Content(path))

HalfUp(n) == (n + 1) \div 2

\* select_review_cases.
SelectCases(source, case_count, seed, version) ==
    LET Best(split, n) ==
            Cut(Ranked(InSplit(ToSet(source.body.cases), split), seed), n)
        chosen == Best("train", HalfUp(case_count)) \o Best("test", case_count \div 2)
    IN  Sealed([version |-> version, catalog |-> source.body.catalog,
                cases |-> SortSeq(chosen, LAMBDA c, d : c.id < d.id)])
EnoughCases(source, case_count) ==
    LET Has(split) == Cardinality(InSplit(ToSet(source.body.cases), split))
    IN  Has("train") >= HalfUp(case_count) /\ Has("test") >= case_count \div 2

-----------------------------------------------------------------------------
(* create_review_packet *)

CheckPacket(r) ==
    /\ pc[r] = "exists"
    /\ IF Exists(Draft(r)) \/ Exists(Review(r)) THEN Reject(r) ELSE Skip(r, "selectCases")

\* render_review_markdown, up to its layout: the judged products have to be in the
\* catalog, and the document names the draft and the checksum of the report.
Renderable(selected, catalog) ==
    Whole(catalog) /\ Judgments(selected.body.cases) \subseteq Content(catalog).ids
Rendered(selected, report) ==
    [of |-> selected, catalog |-> report["catalog.json"], approvals |-> 0]

\* The draft has to be valid; the catalog need not be the one of the report.
CreatePacket(r) ==
    LET from == Call[r].artifact
        source == Content(Processed(from, "golden-draft.json"))
        selected == SelectCases(source, Call[r].case_count, Call[r].seed, Call[r].version)
        report == Content(Processed(from, "quality-report.json"))
    IN  /\ pc[r] = "selectCases"
        /\ IF /\ Loadable(Processed(from, "golden-draft.json"))
              /\ EnoughCases(source, Call[r].case_count)
              /\ Whole(Processed(from, "quality-report.json"))
              /\ Renderable(selected, Processed(from, "catalog.json"))
           THEN ToWrite(r, << <<Draft(r), selected>>, <<Review(r), Rendered(selected, report)>> >>)
           ELSE Reject(r)

-----------------------------------------------------------------------------
(* publish_source_validated_dataset *)

\* Mutant: the selected cases are not compared with those of the source.
MatchesSourceById(selected, source) ==
    \A c \in ToSet(selected.body.cases) : \E d \in ToSet(source.body.cases) : c.id = d.id

\* Every case is a case of the source, in all of its fields.
MatchesSource(selected, source) ==
    ToSet(selected.body.cases) \subseteq ToSet(source.body.cases)

Balanced(cases, n) ==
    /\ Len(cases) = n
    /\ Cardinality({i \in DOMAIN cases : cases[i].split = "train"}) = HalfUp(n)
    /\ \A i, j \in DOMAIN cases : cases[i].id = cases[j].id => i = j

MatchDraft(r) ==
    LET from == Call[r].artifact
        selected == Content(Call[r].path)
        source == Content(Processed(from, "golden-draft.json"))
    IN  /\ pc[r] = "match"
        /\ IF /\ ~Exists(Published(r))
              /\ Loadable(Call[r].path)
              /\ Loadable(Processed(from, "golden-draft.json"))
              /\ Balanced(selected.body.cases, Call[r].case_count)
              /\ MatchesSource(selected, source)
           THEN Read(r, "verifyRecords", [memo[r] EXCEPT !.input = selected])
           ELSE Reject(r)

VerifyRecords(r) ==
    LET from == Call[r].artifact
        selected == memo[r].input
        catalog == Content(Processed(from, "catalog.json"))
    IN  /\ pc[r] = "verifyRecords"
        /\ IF /\ Verified(from)
              /\ catalog.version = selected.body.catalog
              /\ Judgments(selected.body.cases) \subseteq catalog.ids
           THEN ToWrite(r, << <<Temporary(Published(r)),
                    Sealed([version |-> selected.body.version, catalog |-> selected.body.catalog,
                            source_draft |-> selected.hash, source_catalog |-> catalog,
                            cases |-> selected.body.cases])>> >>)
           ELSE Reject(r)

ReplacePublished(r) ==
    /\ pc[r] = "replace" /\ Call[r].op = "sourceValidate"
    /\ IF Exists(Temporary(Published(r))) THEN End(r, "done", Moved(Published(r)))
       ELSE Reject(r)

EsciStep(r) ==
    \/ NextSource(r) \/ ClearPart(r) \/ UnlinkPart(r) \/ CreatePart(r) \/ StreamPart(r)
    \/ DownloadFails(r) \/ PlacePart(r)
    \/ VerifySources(r) \/ MakeFolder(r) \/ SelectSubset(r) \/ WriteReport(r)
    \/ VerifyProcessed(r)
    \/ CheckPacket(r) \/ CreatePacket(r)
    \/ MatchDraft(r) \/ VerifyRecords(r) \/ ReplacePublished(r)
=============================================================================
