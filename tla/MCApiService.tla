---------------------------- MODULE MCApiService ----------------------------
(***************************************************************************)
(* A small instance of ApiService: two organizations with Owners, Admins   *)
(* and strangers, and the workloads in which their requests meet.          *)
(***************************************************************************)
EXTENDS ApiService, TLC

TheEmails == {"ann", "bob", "cid", "dee", "eve", "gil"}

\* dee has no account, eve has not verified her email, gil is not active.
TheUsers == {[email |-> e, active |-> e # "gil", verified |-> e # "eve", password |-> "old"] :
             e \in TheEmails \ {"dee"}}
Member(id, org, email, role) == [id |-> id, org |-> org, email |-> email, role |-> role]
TheMembers == {Member("m1", "one", "ann", "OWNER"), Member("m2", "one", "bob", "OWNER"),
               Member("m3", "one", "cid", "ADMIN"), Member("m4", "two", "eve", "OWNER")}
TheSessions == {[id |-> e, email |-> e, password |-> "old", revoked |-> FALSE] :
                e \in {"ann", "bob", "cid", "eve"}}
Link(id, kind, fresh) ==
    [id |-> id, kind |-> kind, email |-> "eve", used |-> FALSE, fresh |-> fresh]
TheLinks == {Link("l1", "reset", TRUE), Link("l2", "verify", TRUE)}
TheInvitations ==
    {[id |-> "i1", org |-> "one", email |-> "eve", role |-> "VIEWER", accepted |-> FALSE,
      revoked |-> FALSE, fresh |-> TRUE],
     [id |-> "i2", org |-> "two", email |-> "bob", role |-> "VIEWER", accepted |-> FALSE,
      revoked |-> FALSE, fresh |-> FALSE],
     [id |-> "i3", org |-> "one", email |-> "eve", role |-> "VIEWER", accepted |-> FALSE,
      revoked |-> FALSE, fresh |-> TRUE]}
P1 == <<"p1", "project">>
P2 == <<"p2", "project">>
Resource(id, org, parent, name) ==
    [id |-> id, org |-> org, parent |-> parent, name |-> name, external |-> FALSE,
     content |-> NoRow, artifact |-> NoRow, grounds |-> NoRow]
TheResources == {Resource(P1, "one", <<"one", "organization">>, "shop"),
                 Resource(P2, "two", <<"two", "organization">>, "shop")}
TheSeeds == {"m1", "m2", "m3", "m4", "ann", "bob", "cid", "eve", "l1", "l2", "i1", "i2", "i3",
             "p1", "p2"}

-----------------------------------------------------------------------------

Signed(op, cookie) == [op |-> op, cookie |-> cookie]
With(link, op, password) == [op |-> op, link |-> link, password |-> password]
OfUser(op, email, password) == [op |-> op, email |-> email, password |-> password]
AccountCalls ==
    [login |-> OfUser("login", "eve", "old"), loginGil |-> OfUser("login", "gil", "old"),
     logout |-> Signed("logout", "eve"), logoutLogin |-> Signed("logout", "login"),
     forgot1 |-> OfUser("forgot", "eve", "-"), forgot2 |-> OfUser("forgot", "eve", "-"),
     forgotGil |-> OfUser("forgot", "gil", "-"),
     reset |-> With("l1", "reset", "new"), resetAgain |-> With("l1", "reset", "other"),
     reset1 |-> With("forgot1", "reset", "new"), reset2 |-> With("forgot2", "reset", "other"),
     script |-> OfUser("scriptReset", "eve", "new"),
     scriptDee |-> OfUser("scriptReset", "dee", "new"),
     resend1 |-> Signed("resend", "eve"), resend2 |-> Signed("resend", "eve"),
     verify |-> With("l2", "verify", "-"), verifyAgain |-> With("l2", "verify", "-"),
     verify1 |-> With("resend1", "verify", "-"), verify2 |-> With("resend2", "verify", "-"),
     verifyNew |-> With("register1", "verify", "-"),
     register1 |-> OfUser("register", "dee", "old") @@ [org |-> "three"],
     register2 |-> OfUser("register", "dee", "new") @@ [org |-> "four"],
     register3 |-> OfUser("register", "hal", "new") @@ [org |-> "three"]]

InOrg(op, cookie, org) == Signed(op, cookie) @@ [org |-> org]
About(op, cookie, member) == InOrg(op, cookie, "one") @@ [member |-> member]
ToRole(op, cookie, email, role) ==
    InOrg(op, cookie, "one") @@ [email |-> email, role |-> role]
Accepting(invitation, password, named) ==
    [op |-> "accept", invitation |-> invitation, password |-> password, named |-> named]
Boot(org, email) == OfUser("bootstrap", email, "old") @@ [org |-> org]
GovernanceCalls ==
    [demoteBob |-> About("change", "ann", "m2") @@ [role |-> "VIEWER"],
     demoteAnn |-> About("change", "bob", "m1") @@ [role |-> "ADMIN"],
     demoteAnnByCid |-> About("change", "cid", "m1") @@ [role |-> "ADMIN"],
     demoteCid |-> About("change", "bob", "m3") @@ [role |-> "VIEWER"],
     promoteCid |-> About("change", "ann", "m3") @@ [role |-> "OWNER"],
     promoteSelf |-> About("change", "cid", "m3") @@ [role |-> "OWNER"],
     keepCid |-> About("change", "bob", "m3") @@ [role |-> "ADMIN"],
     removeAnn |-> About("remove", "bob", "m1"), removeBob |-> About("remove", "cid", "m2"),
     removeCid |-> About("remove", "bob", "m3"), removeEve |-> About("remove", "ann", "m4"),
     addEve |-> ToRole("add", "cid", "eve", "VIEWER"),
     addOwner |-> ToRole("add", "ann", "eve", "OWNER"),
     addOwnerByCid |-> ToRole("add", "cid", "eve", "OWNER"),
     addDee |-> ToRole("add", "ann", "dee", "VIEWER"),
     invite1 |-> ToRole("invite", "cid", "dee", "ADMIN"),
     invite2 |-> ToRole("invite", "ann", "dee", "OWNER"),
     inviteByCid |-> ToRole("invite", "cid", "eve", "OWNER"),
     inviteEve |-> ToRole("invite", "ann", "eve", "ADMIN"),
     inviteAgain |-> ToRole("invite", "bob", "eve", "VIEWER"),
     inviteGil |-> ToRole("invite", "ann", "gil", "VIEWER"),
     revoke1 |-> InOrg("revoke", "ann", "one") @@ [invitation |-> "invite1"],
     revoke2 |-> InOrg("revoke", "cid", "one") @@ [invitation |-> "invite2"],
     revokeEve |-> InOrg("revoke", "cid", "one") @@ [invitation |-> "i1"],
     accept1 |-> Accepting("invite1", "old", TRUE),
     acceptAgain |-> Accepting("invite1", "new", TRUE),
     acceptUnnamed |-> Accepting("invite1", "new", FALSE),
     accept2 |-> Accepting("invite2", "new", TRUE),
     acceptEve |-> Accepting("i1", "old", FALSE), acceptEve2 |-> Accepting("inviteEve", "old", FALSE),
     acceptWrong |-> Accepting("i1", "other", FALSE),
     acceptLate |-> Accepting("i2", "old", FALSE),
     bootDee |-> Boot("one", "dee"), bootDeeTwo |-> Boot("two", "dee"),
     bootCid |-> Boot("one", "cid"),
     bootAnn |-> Boot("one", "ann"), bootNone |-> Boot("five", "ann"),
     found1 |-> InOrg("createOrganization", "ann", "five"),
     found2 |-> InOrg("createOrganization", "bob", "five"),
     foundEve |-> InOrg("createOrganization", "eve", "five")]

Making(cookie, org, table, parent, name) ==
    InOrg("create", cookie, org) @@ [table |-> table, parent |-> parent, name |-> name]
A == [tag |-> "A", products |-> {"x"}]
B == [tag |-> "B", products |-> {"x", "y"}]
CatalogArtifact(version, content) ==
    [name |-> "goods", version |-> version, content |-> content, layout |-> "spaced",
     valid |-> TRUE]
DatasetArtifact(expects, source) ==
    [name |-> "golden", version |-> "v1", content |-> [tag |-> "D", expects |-> expects],
     layout |-> "spaced", valid |-> TRUE, catalog |-> "goods", catalogVersion |-> "v1",
     source |-> source]
Importing(op, org, parent, artifact) ==
    [op |-> op, org |-> org, parent |-> parent, artifact |-> artifact]
Catalog(version, content) ==
    Importing("importCatalog", "one", P1, CatalogArtifact(version, content))
Dataset(expects, source) ==
    Importing("importDataset", "one", P1, DatasetArtifact(expects, source))
ResourceCalls ==
    [project1 |-> Making("cid", "one", "project", <<"one", "organization">>, "shop"),
     project2 |-> Making("ann", "one", "project", <<"one", "organization">>, "lab"),
     catalogShop |-> Making("cid", "one", "catalog", P1, "goods"),
     catalogEve |-> Making("eve", "one", "catalog", P1, "goods"),
     catalogTwo |-> Making("cid", "one", "catalog", P2, "goods"),
     datasetShop |-> Making("ann", "one", "dataset", P1, "golden"),
     system |-> Making("ann", "one", "system", P1, "demo"),
     systemAgain |-> Making("cid", "one", "system", P1, "demo"),
     systemVersion |-> Making("cid", "one", "systemVersion", <<"system", "system">>, "v1"),
     review |-> Making("bob", "one", "review", <<"dataset", "datasetVersion">>, "review"),
     reviewTwo |-> Making("eve", "two", "review", <<"dataset", "datasetVersion">>, "reviewTwo"),
     catalog |-> Catalog("v1", A), catalogAgain |-> Catalog("v1", A),
     catalogOther |-> Catalog("v1", B), catalogNext |-> Catalog("v2", B),
     catalogApi |-> Signed("importCatalog", "ann") @@ Catalog("v1", A),
     catalogInvalid |-> [Catalog("v1", A) EXCEPT !.artifact.valid = FALSE],
     catalogAbroad |-> [Catalog("v1", A) EXCEPT !.parent = P2],
     dataset |-> Dataset({"x"}, <<A, "spaced">>), datasetAgain |-> Dataset({"x"}, <<A, "spaced">>),
     datasetTall |-> Dataset({"x", "y"}, NoRow)]

TheCalls == AccountCalls @@ GovernanceCalls @@ ResourceCalls
TheRequests == DOMAIN TheCalls

\* Every two requests of one component, and the larger groups where more meet.
Pairs(S) == {{r, q} : r, q \in S}
TheWorkloads ==
    Pairs(DOMAIN AccountCalls) \union Pairs(DOMAIN GovernanceCalls)
    \union Pairs(DOMAIN ResourceCalls)
    \union {{"login", "reset", "script"}, {"login", "reset", "logoutLogin"},
            {"login", "reset", "resetAgain"}, {"login", "acceptEve", "reset"},
            {"forgot1", "forgot2", "reset1", "reset2"}, {"forgot1", "reset1", "script"},
            {"resend1", "resend2", "verify1", "verify2"},
            {"register1", "register2", "verifyNew"}, {"register1", "bootDee", "invite1", "accept1"},
            {"demoteBob", "demoteAnn", "promoteCid"}, {"demoteBob", "removeAnn", "removeBob"},
            {"promoteCid", "demoteBob", "demoteAnnByCid", "removeCid"},
            {"promoteCid", "demoteBob", "demoteAnnByCid", "demoteCid"},
            {"promoteCid", "addOwnerByCid", "demoteCid"},
            {"invite1", "invite2", "accept1"}, {"invite1", "revoke1", "accept1"},
            {"invite1", "accept1", "acceptAgain"}, {"invite1", "revoke1", "acceptUnnamed"},
            {"invite2", "revoke2", "accept2"}, {"invite1", "accept1", "addDee"},
            {"invite1", "accept1", "removeCid"}, {"inviteEve", "acceptEve", "acceptEve2"},
            {"inviteEve", "addEve", "acceptEve2"}, {"invite1", "accept1", "bootDeeTwo"},
            {"acceptEve", "revokeEve", "script"},
            {"catalog", "dataset", "review", "reviewTwo"}, {"catalog", "dataset", "datasetAgain"},
            {"catalogApi", "dataset", "catalog"}, {"catalog", "catalogOther", "datasetTall"},
            {"catalogShop", "catalog", "catalogAgain"}, {"datasetShop", "catalog", "dataset"},
            {"catalog", "catalogNext", "catalogOther"}, {"system", "systemAgain", "systemVersion"}}

\* ann promotes cid and is demoted by it, while bob is demoted and cid's demotion, begun
\* when cid was no Owner, is still to be written.
LastOwnerWorkloads == {{"promoteCid", "demoteBob", "demoteAnnByCid", "demoteCid"}}
=============================================================================
