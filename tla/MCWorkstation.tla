---------------------------- MODULE MCWorkstation ----------------------------
(***************************************************************************)
(* A small instance of Workstation: a vocabulary, two catalogs, golden     *)
(* datasets, a source of judged queries, and the commands that meet.       *)
(***************************************************************************)
EXTENDS Workstation

TheMeaning ==
    LET Word(field, value) == [field |-> field, value |-> value]
    IN  [shoes |-> Word("subcategory", "shoes"), bag |-> Word("subcategory", "bag"),
         acme |-> Word("brand", "acme"), nova |-> Word("brand", "nova"),
         red |-> Word("color", "red"), blue |-> Word("color", "blue"),
         women |-> Word("gender", "women"), large |-> Word("size", "L"),
         under50 |-> Word("max_price", 50), over50 |-> Word("min_price", 50),
         from20to50 |-> Word("range", <<20, 50>>), from50to20 |-> Word("range", <<50, 20>>),
         instock |-> Word("availability", "instock"), cheap |-> Word("sorting", "price"),
         soft |-> Word("plain", Unset)]
TheCategories == [shoes |-> "footwear", bag |-> "accessories"]
TheWeights == [title |-> 3, description |-> 1]
TheDiscounts == [i \in 1 .. 8 |-> <<1000, 631, 500, 431, 387, 356, 333, 315>>[i]]

Product(id, subcategory, brand, color, price, sizes, availability, description) ==
    [id |-> id, subcategory |-> subcategory, category |-> TheCategories[subcategory],
     brand |-> brand, gender |-> "women", color |-> color, price |-> price, sizes |-> sizes,
     availability |-> availability,
     text |-> [title |-> {subcategory, brand}, description |-> description]]
DemoCatalog ==
    {Product(1, "shoes", "acme", "red", 40, {"L"}, "instock", {}),
     Product(2, "shoes", "nova", "red", 50, {"M"}, "instock", {"soft"}),
     Product(3, "shoes", "acme", "blue", 60, {"L", "M"}, "outofstock", {}),
     Product(4, "bag", "acme", "red", 30, {}, "instock", {"shoes"}),
     Product(5, "bag", "nova", Unset, 50, {}, "instock", {"soft"})}

\* A product of ESCI has a title, a brand and a color.
EsciProduct(id, title, brand) ==
    [id |-> id, subcategory |-> Unset, category |-> "unknown", brand |-> brand, gender |-> Unset,
     color |-> Unset, price |-> 0, sizes |-> {}, availability |-> "unknown",
     text |-> [title |-> title, description |-> {}]]
TheTitles == [id \in 101 .. 104 |->
                 <<{"shoes", "soft"}, {"shoes"}, {"bag", "soft"}, Unset>>[id - 100]]
TheCatalogs ==
    [demo |-> DemoCatalog, p0 |-> {EsciProduct(id, TheTitles[id], "acme") : id \in 101 .. 103}]

-----------------------------------------------------------------------------
(* Golden datasets *)

Label(id, label) == [id |-> id, label |-> label]
Exact(ids) == [i \in DOMAIN ids |-> Label(ids[i], "E")]
CaseOf(id, type, query, expected, intent) ==
    [id |-> id, type |-> type, query |-> query, expected |-> expected, approved |-> TRUE,
     text |-> intent.text, constraints |-> intent.constraints, sorting |-> intent.sorting]
Case(id, type, query, expected) == CaseOf(id, type, query, expected, parse_query(query))

\* The case wants less than the query says.
Loose(case, fields) ==
    [case EXCEPT !.constraints = [f \in Fields |-> IF f \in fields THEN Unset ELSE @[f]]]

Dataset(cases) == Sealed([approved |-> TRUE, cases |-> cases])
Gap(id) == Case(id, "catalog_quality", <<"nova", "bag", "blue">>, <<>>)
TheDatasets ==
    [g1 |-> Dataset(<<Case(2, "filter", <<"red", "shoes", "under50">>, Exact(<<1, 2>>)), Gap(1)>>),
     g2 |-> Dataset(<<Case(1, "filter", <<"acme", "shoes", "large", "from20to50">>, Exact(<<1>>)),
                      Case(2, "catalog_quality", <<"blue", "bag">>, <<>>)>>),
     g3 |-> Dataset(<<Loose(Case(1, "filter", <<"red", "shoes", "instock">>, Exact(<<1, 2>>)),
                            {"color", "subcategory", "category"}),
                      Case(2, "catalog_quality", <<"women", "shoes">>, <<>>)>>),
     g4 |-> Dataset(<<Loose(Case(1, "filter", <<"acme", "red", "soft">>, <<>>), Fields), Gap(2)>>),
     g5 |-> Dataset(<<Loose(Case(1, "filter", <<"shoes", "from50to20">>, <<>>),
                            {"min_price", "max_price"}), Gap(2)>>),
     g6 |-> Dataset(<<Case(1, "filter", <<"shoes">>, Exact(<<1, 2, 3, 4>>)), Gap(2)>>),
     g7 |-> Dataset(<<Case(1, "filter", <<"soft", "cheap">>,
                           <<Label(5, "S"), Label(2, "E")>>), Gap(2)>>),
     g8 |-> Dataset(<<Case(1, "filter", <<"over50", "soft">>,
                           <<Label(2, "I"), Label(5, "C"), Label(2, "E")>>), Gap(2)>>),
     g9 |-> Dataset(<<Case(1, "filter", <<"red", "shoes">>, Exact(<<3, 1, 2>>)), Gap(2)>>)]

Twice(dataset) == [dataset EXCEPT !.body.cases[2].id = dataset.body.cases[1].id]
Unapproved(dataset) == [dataset EXCEPT !.body.cases[1].approved = FALSE]
Spoilt ==
    [s1 |-> Sealed(Twice(TheDatasets.g1).body), s2 |-> Sealed(Unapproved(TheDatasets.g1).body),
     s3 |-> [TheDatasets.g1 EXCEPT !.hash = TheDatasets.g2.body],
     s4 |-> Dataset(<<Gap(1), Gap(2)>>)]

TheNames == {"g1", "g2", "g3", "g4", "g5", "g6", "g7", "g8", "g9", "s1", "s2", "s3", "s4"}
Golden(name) == <<"goldens", name, "json">>
GoldenFiles ==
    [path \in {Golden(n) : n \in TheNames} |-> (Spoilt @@ TheDatasets)[path[2]]]

Plain(dataset) == Sealed([dataset.body EXCEPT !.approved = FALSE])
DraftFiles ==
    [path \in {<<"goldens", n, file>> : n \in {"g1", "g2", "g9"}, file \in {"draft", "review"}} |->
        IF path[3] = "draft" THEN Plain(TheDatasets[path[2]])
        ELSE [of |-> path[2], approvals |-> 0]]

TheModes ==
    [s \in (Modes \ {"healthy"}) \union {"demo-v1"} |-> IF s = "demo-v1" THEN "healthy" ELSE s]
TheDistribution == [filter |-> 1, catalog_quality |-> 1]
TheSources == <<"examples", "products">>

-----------------------------------------------------------------------------
(* The ESCI source *)

Group(id, query_id, split, query, expected) ==
    [id |-> id, query_id |-> query_id, split |-> split, query |-> query, expected |-> expected]
TheGroups ==
    {Group(2, 9, "train", <<"shoes">>, <<Label(102, "S"), Label(101, "E")>>),
     Group(1, 10, "test", <<"soft">>, <<Label(103, "I"), Label(101, "E")>>),
     Group(3, 11, "train", <<"bag">>, <<Label(104, "E")>>),
     Group(4, 12, "test", <<"soft", "bag">>, <<Label(103, "E"), Label(105, "C")>>)}
TheKeys == [seed \in {13, 29} |->
               IF seed = 13 THEN [q \in 9 .. 12 |-> q] ELSE [q \in 9 .. 12 |-> 20 - q]]

P0Ids == WithTitle(SelectedBy(SelectGroups(13, 3)))
P0Draft == Sealed([version |-> "p0", catalog |-> "p0",
                   cases |-> DraftCases(SelectGroups(13, 3), P0Ids)])
P0Files ==
    LET content(file) ==
            CASE file = "catalog.json" -> [version |-> "p0", ids |-> P0Ids]
              [] file = "golden-draft.json" -> P0Draft
              [] file = "source-manifest.json" -> "manifest"
    IN  [path \in {Processed("p0", f) : f \in OutputFiles} |-> content(path[3])]
        @@ Processed("p0", "quality-report.json") :> [f \in OutputFiles |-> content(f)]
        @@ Folder("p0") :> "directory"
Tampered ==
    Processed("p0", "catalog.json") :> [version |-> "p0", ids |-> {101}] @@ P0Files

\* Packets that were made by hand: a judgment is changed, with or without the hash.
Chosen == SelectCases(P0Draft, 2, 29, "r1")
Edited == [Chosen.body EXCEPT !.cases[1].expected[1].label = "E"]
HandMade ==
    Packet("r1", "draft") :> Chosen @@ Packet("r2", "draft") :> Sealed(Edited)
    @@ Packet("r3", "draft") :> [body |-> Edited, hash |-> Chosen.hash]
    @@ Packet("r4", "draft") :> Sealed([Chosen.body EXCEPT !.cases = <<@[1], @[1]>>])
RawFiles == [path \in {Raw("examples"), Raw("products")} |-> Pinned]

-----------------------------------------------------------------------------
(* Calls of commands *)

Evaluate(dataset, system, trace, top_k) ==
    [op |-> "evaluate", path |-> Golden(dataset), catalog |-> "demo", system |-> system,
     trace |-> trace, top_k |-> top_k, seed |-> 0]
Job(kind, dataset, catalog, top_k) ==
    [op |-> "executeJob", kind |-> kind, dataset |-> dataset, catalog |-> catalog,
     system |-> "demo-v1", trace |-> "noop", top_k |-> top_k, seed |-> 0]
OnGolden(op, version) == [op |-> op, version |-> version, catalog |-> "demo"]
Prepare(version, target) ==
    [op |-> "prepare", version |-> version, target_products |-> target, seed |-> 13]
Create(version, from, count) ==
    [op |-> "reviewCreate", version |-> version, artifact |-> from, case_count |-> count,
     seed |-> 29]
Publish(version, draft, from) ==
    [op |-> "sourceValidate", version |-> version, path |-> Packet(draft, "draft"),
     artifact |-> from, case_count |-> 2]
Verify(version) == [op |-> "esciVerify", version |-> version]

SourceDataset ==
    Sealed([version |-> "r1", catalog |-> "p0", source_draft |-> Chosen.hash,
            source_catalog |-> P0Files[Processed("p0", "catalog.json")],
            cases |-> Chosen.body.cases])
Unjudged == Sealed([SourceDataset.body EXCEPT !.version = "r0", !.cases = <<>>])
TheImported == "r0" :> Unjudged @@ "r1" :> SourceDataset @@ TheDatasets

\* Every dataset with every system, alone.
AloneIds == TheNames \X (DOMAIN TheModes) \X {2, 5}
Alone ==
    [id \in AloneIds |->
        Evaluate(id[1], id[2], "noop", id[3])]
Others ==
    [id \in {<<"other", n>> : n \in 1 .. 40} |->
        CASE id[2] = 1 -> Evaluate("g1", "demo-v1", "noop", 5)
          [] id[2] = 2 -> Evaluate("g1", "demo-v1", "noop", 5)
          [] id[2] = 3 -> Evaluate("g1", "demo-v1", "noop", 2)
          [] id[2] = 4 -> Evaluate("g2", "demo-v1", "langfuse", 5)
          [] id[2] = 5 -> Evaluate("g2", "demo-v1", "langfuse", 5)
          [] id[2] = 6 -> Job("golden", "g1", "demo", 5)
          [] id[2] = 7 -> Job("golden", "g2", "demo", 2)
          [] id[2] = 8 -> Job("source", "r1", "p0", 5)
          [] id[2] = 9 -> OnGolden("approve", "g1")
          [] id[2] = 10 -> OnGolden("approve", "g1")
          [] id[2] = 11 -> OnGolden("reviewScript", "g1")
          [] id[2] = 12 -> OnGolden("reviewScript", "g2")
          [] id[2] = 13 -> OnGolden("reviewScript", "g9")
          [] id[2] = 14 -> OnGolden("approve", "s1")
          [] id[2] \in {15, 16} -> [op |-> "download"]
          [] id[2] \in {17, 18} -> Prepare("p1", 3)
          [] id[2] = 19 -> Prepare("p2", 9)
          [] id[2] = 20 -> Prepare("p3", 5)
          [] id[2] = 21 -> Prepare("p4", 4)
          [] id[2] \in {22, 23} -> Create("n1", "p0", 2)
          [] id[2] = 24 -> Create("n1", "p0", 4)
          [] id[2] = 25 -> Create("n1", "p1", 2)
          [] id[2] \in {26, 27} -> Publish("n1", "n1", "p0")
          [] id[2] = 28 -> Publish("n1", "n1", "p1")
          [] id[2] = 29 -> Publish("r1", "r1", "p0")
          [] id[2] = 30 -> Publish("r2", "r2", "p0")
          [] id[2] = 31 -> Publish("r3", "r3", "p0")
          [] id[2] = 32 -> Publish("r4", "r4", "p0")
          [] id[2] = 33 -> Verify("p0")
          [] id[2] = 34 -> Verify("p1")
          [] id[2] = 36 -> Job("source", "r0", "p0", 5)
          [] OTHER -> Verify("p9")]
TheCommands == AloneIds \union {<<"other", n>> : n \in 1 .. 40}
TheCalls == Alone @@ Others

TheSeedFiles ==
    [none |-> <<>>, goldens |-> GoldenFiles, both |-> GoldenFiles @@ DraftFiles,
     drafts |-> DraftFiles, draft |-> <<"goldens", "g1", "draft">> :> Plain(TheDatasets.g1),
     corrupt |-> Raw("products") :> Corrupt,
     part |-> Temporary(Raw("examples")) :> Corrupt @@ Raw("products") :> Pinned,
     raw |-> RawFiles, p0 |-> P0Files, packets |-> P0Files @@ HandMade,
     tampered |-> Tampered @@ HandMade]

Machine(found, commands) == [commands |-> {<<"other", n>> : n \in commands}, files |-> found]
Apart(found, commands) == {Machine(found, {n}) : n \in commands}
JobWorkloads == Apart("none", {6, 7, 8, 36})
TheWorkloads ==
    {[commands |-> {id}, files |-> "goldens"] : id \in AloneIds}
    \union {Machine("goldens", {1, 2}), Machine("goldens", {1, 3}), Machine("goldens", {4, 5}), Machine("both", {1, 9}),
            Machine("drafts", {9, 10}), Machine("drafts", {9, 11}), Machine("draft", {9}),
            Machine("none", {15, 16}), Machine("part", {15, 16}), Machine("corrupt", {15}),
            Machine("raw", {17, 18}), Machine("raw", {17, 25, 28}), Machine("raw", {17, 34}),
            Machine("p0", {22, 23}), Machine("p0", {22, 26, 27}), Machine("none", {15, 17, 25, 28})}
    \union JobWorkloads \union Apart("drafts", {12, 13, 14}) \union Apart("raw", 19 .. 21)
    \union Apart("p0", {24, 35}) \union Apart("packets", 29 .. 33)
    \union Apart("tampered", {22, 29, 33})
=============================================================================
