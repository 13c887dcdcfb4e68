----------------------------- MODULE ApiService -----------------------------
(***************************************************************************)
(* The API and the scripts at work on one database: requests of all the    *)
(* components interleave statement by statement, wait for each other's     *)
(* locks, and die.                                                         *)
(***************************************************************************)
EXTENDS Governance, VersionImports

\* What is asked for.  These are open to who has no session: a link or an invitation
\* stands for it, and datasets are imported by the command only.
Unsigned == {"login", "register", "forgot", "verify", "reset", "accept", "scriptReset",
             "bootstrap", "importDataset"}
Operations == Unsigned \union
    {"logout", "resend", "createOrganization", "add", "change", "remove", "invite", "revoke",
     "create", "importCatalog"}
Appointments == {"add", "change", "invite"}
ASSUME CallAssumption ==
    \A r \in Requests :
        /\ Call[r].op \in Operations
        /\ Call[r].op \in Unsigned => "cookie" \notin DOMAIN Call[r]
        /\ Call[r].op \notin Unsigned \union {"importCatalog"} => "cookie" \in DOMAIN Call[r]
        /\ Call[r].op \in Appointments => "role" \in DOMAIN Call[r]
        /\ Call[r].op \in {"verify", "reset"} => "link" \in DOMAIN Call[r]
        /\ Call[r].op = "accept" => "invitation" \in DOMAIN Call[r]

\* The schemas of the bodies, the organization header and the arguments of the scripts.
ImportOps == {"importCatalog", "importDataset"}
ASSUME CallTypes ==
    \A r \in Requests :
        LET call == Call[r]
        IN  /\ call.op \in {"register", "forgot", "bootstrap", "add", "invite"} =>
                   call.email \in Emails
            /\ call.op \in {"login", "register", "reset", "accept", "scriptReset", "bootstrap"} =>
                   call.password \in Passwords
            /\ call.op \in Appointments => call.role \in Roles
            /\ call.op \in {"register", "createOrganization", "bootstrap", "add", "invite"}
                         \union ImportOps => call.org \in Slugs
            /\ call.op = "create" => call.org \in Slugs /\ call.name \in Names \union {r}
            /\ call.op \in ImportOps =>
                   /\ call.parent \in ResourceIds
                   /\ call.artifact.name \in Names /\ call.artifact.version \in Names

-----------------------------------------------------------------------------
(* Dependencies of the endpoints *)

\* A client has the cookie, link or invitation that its request uses once the
\* answer or the mail that brings it was sent.
Known(r) ==
    \A field \in DOMAIN Call[r] \intersect {"cookie", "link", "invitation"} :
        Call[r][field] \in Requests =>
            Call[r][field] \in Made /\ pc[Call[r][field]] \in Answers \union {"undelivered", "undeliveredInvitation"}

Entry(r) == IF "cookie" \in DOMAIN Call[r] THEN "authenticate"
            ELSE CASE Call[r].op \in {"verify", "reset"} -> "findLink"
                   [] Call[r].op \in {"importCatalog", "importDataset"} -> "import"
                   [] OTHER -> Call[r].op

Begin(r) ==
    /\ pc[r] = "ready" /\ Known(r)
    /\ Goto(r, Entry(r))
    /\ met' = met \union {{r, q} : q \in {q \in Made : Open(q)}}
    /\ UNCHANGED <<tables, memo, locks>>

Personal == {"logout", "resend", "createOrganization"}

\* get_authenticated_session.
Authenticate(r) ==
    LET live == {s \in sessions : s.id = Call[r].cookie /\ ~s.revoked}
        found == {u \in users : u.active /\ \E s \in live : s.email = u.email}
    IN  /\ pc[r] = "authenticate"
        /\ \/ \E u \in found :
                 ReadInto(r, IF Call[r].op \in Personal THEN Call[r].op ELSE "authorize",
                          [memo[r] EXCEPT !.row = u])
           \/ found = {} /\ Reject(r)

Managers == {"OWNER", "ADMIN"}
Writers == Managers \union {"ENGINEER"}
Reviewers == Managers \union {"REVIEWER"}

\* Mutant: an ADMIN may ask for the role of an Owner.
PermitsManager(r, role) ==
    CASE Call[r].op \in {"create", "importCatalog"} ->
             role \in IF Call[r].op = "create" /\ Call[r].table = "review" THEN Reviewers
                      ELSE Writers
      [] OTHER -> memo[r].row.verified /\ role \in Managers

\* require_resource_write, _require_reviewer, _require_manager and _require_inviter,
\* with the roles that an ADMIN may not give.
Permits(r, role) ==
    CASE Call[r].op \in {"create", "importCatalog"} ->
             role \in IF Call[r].op = "create" /\ Call[r].table = "review" THEN Reviewers
                      ELSE Writers
      [] OTHER -> /\ memo[r].row.verified /\ role \in Managers
                  /\ role = "ADMIN" /\ "role" \in DOMAIN Call[r] => Call[r].role # "OWNER"

\* get_organization_access and what the endpoint makes of the role.
Authorize(r) ==
    LET found == {m \in MemberOf(Call[r].org, memo[r].row.email) : Permits(r, m.role)}
        first == CASE Call[r].op \in {"change", "remove"} -> "target"
                   [] Call[r].op = "importCatalog" -> "import"
                   [] OTHER -> Call[r].op
    IN  /\ pc[r] = "authorize"
        /\ \/ \E m \in found :
                 ReadInto(r, first, [memo[r] EXCEPT !.role = m.role])
           \/ found = {} /\ Reject(r)

-----------------------------------------------------------------------------

\* The server or its connection dies, and with it what is not committed.
Crash(r) ==
    /\ Open(r)
    /\ Cardinality({q \in Made : pc[q] = "crashed"}) < MaxFaults
    /\ Answer(r, "crashed") /\ UNCHANGED tables

\* The victim of a deadlock.
Abort(r) == Deadlocked(r) /\ Answer(r, "error") /\ UNCHANGED tables

Statement(r) == Granted(r) /\ (\/ Authenticate(r) \/ Authorize(r) \/ AccountStep(r)
                               \/ GovernanceStep(r) \/ ResourceStep(r))

Next == \E r \in Made : Begin(r) \/ Statement(r) \/ Crash(r) \/ Abort(r)

Spec == Init /\ [][Next]_vars

-----------------------------------------------------------------------------
(* Properties *)

Met(r, q) == {r, q} \in met
Done(op) == {r \in Made : pc[r] = "done" /\ Call[r].op = op}

\* A session of somebody who knew another password than the user's is live only
\* if the request that opened it met the one that changed the password: a reset
\* revokes whatever was open before it.
SessionsFollowPassword ==
    \A s \in sessions, u \in users :
        s.email = u.email /\ ~s.revoked /\ s.password # u.password =>
            \E q \in Done("reset") \union Done("scriptReset") : Met(s.id, q)

\* Two links of a user for the same thing are valid together only if the requests
\* for them met.
OneLink ==
    \A l, m \in links :
        l.email = m.email /\ l.kind = m.kind /\ ~l.used /\ ~m.used /\ l # m => Met(l.id, m.id)

\* A link or an invitation has its effect once, whoever uses it at the same time.
SingleUse ==
    \A op \in {"verify", "reset", "accept"} : \A r, q \in Done(op) :
        \/ r = q
        \/ op = "accept" /\ Call[r].invitation # Call[q].invitation
        \/ op # "accept" /\ Call[r].link # Call[q].link

\* An invitation is accepted by a request that is done, and one that is revoked as
\* well met the revocation, or the request that made it and withdrew it undelivered.
InvitationsDecided ==
    \A i \in invitations :
        /\ i.accepted => \E r \in Done("accept") : Call[r].invitation = i.id
        /\ i.accepted /\ i.revoked =>
              \E r \in Done("accept") : \E q \in Made :
                  /\ Call[r].invitation = i.id /\ Met(r, q)
                  /\ q = i.id \/ Call[q].op = "revoke"

\* An organization keeps an Owner, unless its last ones lost the role to a request
\* that had found its target in another role before a promotion.
OwnerRetained ==
    \A org \in organizations :
        \/ OwnersOf(org) # {}
        \/ \E r \in Done("change") \union Done("remove"), q \in Done("change") :
              /\ Met(r, q) /\ Call[r].member = Call[q].member
              /\ Call[r].org = org /\ Call[q].role = "OWNER"

\* The emails behind a membership, there or gone.
EmailsOf(id) ==
    IF id \in Seeds THEN {m.email : m \in {m \in SeedMembers : m.id = id}}
    ELSE CASE Call[id].op = "createOrganization" -> SignedBy(id)
           [] Call[id].op = "accept" ->
                  {i.email : i \in {i \in invitations : i.id = Call[id].invitation}}
           [] Call[id].op \in {"register", "bootstrap", "add"} -> {Call[id].email}
           [] OTHER -> {}

\* The Owners an organization starts with: those it had or had invited to be one, whom
\* the script made one, and who founded it.
SeedOrgs == {m.org : m \in SeedMembers}
Founds(r, org) ==
    /\ \/ r \in Done("bootstrap")
       \/ /\ org \notin SeedOrgs
          /\ \/ r \in Done("createOrganization")
             \/ Call[r].op = "register" /\ \E s \in sessions : s.id = r
    /\ Call[r].org = org
First(org) ==
    {m.email : m \in {m \in SeedMembers \union SeedInvitations :
                       m.org = org /\ m.role = "OWNER"}}
    \union UNION {EmailsOf(r) : r \in {r \in Made : Founds(r, org)}}

\* The requests that make somebody an Owner, and whom.
Appoints(r, org) ==
    /\ Call[r].op \in Appointments /\ Call[r].org = org /\ Call[r].role = "OWNER"
    /\ pc[r] # "ready"
Named(r) == IF Call[r].op = "change" THEN EmailsOf(Call[r].member) ELSE {Call[r].email}
Leads(r, S) == SignedBy(r) \intersect S # {} /\ ~(Named(r) \subseteq S)

\* An Owner is one of the first ones, or was named by somebody who was an Owner in this
\* way before: each set that has the first ones, and not m, is left by a request of one
\* of its members.
OwnersMakeOwners ==
    \A m \in memberships : m.role = "OWNER" /\ m \notin SeedMembers =>
        LET first == First(m.org)
            appointing == {r \in Made : Appoints(r, m.org)}
        IN  \A S \in SUBSET (Emails \ {m.email}) :
                first \subseteq S => \E r \in appointing : Leads(r, S)

\* Requests that want the same rows in orders of their own: who issue, use or withdraw
\* the links and sessions of one user; who lock the members of one organization to count
\* its Owners; who invite one email to it; and who accepts an invitation, which locks
\* the user and then needs the unique key of the membership, with who adds the user,
\* which inserts the key and then refers to the user.
LinkUsers == {"forgot", "resend", "register", "verify", "reset", "scriptReset"}
Rivals(r, q) ==
    LET ops == {Call[r].op, Call[q].op}
    IN  \/ ops \subseteq LinkUsers /\ OwnerOf(r) = OwnerOf(q)
        \/ ops \subseteq {"change", "remove"} /\ Call[r].org = Call[q].org
        \/ ops = {"invite"} /\ Call[r].org = Call[q].org /\ Call[r].email = Call[q].email
        \/ \E one, other \in {r, q} :
              /\ Call[one].op = "accept" /\ Call[other].op \in {"add", "bootstrap"}
              /\ InvitationOf(one).email = Call[other].email

\* Whoever waits in a circle waits for a rival: signing in and out, founding an
\* organization, revoking, creating resources and importing never have to be aborted.
DeadlocksNamed ==
    \A r \in Made : \A q \in Holders(r) : Circle(r, q) => Rivals(r, q)

\* docs/api-persistence.md:149-151: every change that would leave an organization
\* without an Owner is prevented.
LastOwnerKept == \A org \in organizations : OwnersOf(org) # {}

\* Whatever is in an organization hangs on what is in it.
TenantsApart == Apart(resources)

\* A version has one content, and whoever was told that its import is done finds
\* the content it brought under the name, also after a race for it.
ImportsStored ==
    /\ \A v, w \in resources : ResourceKey(v) = ResourceKey(w) => v = w
    /\ \A r \in Done("importCatalog") \union Done("importDataset") :
          \E c, v \in resources :
              /\ TableOf(c) = ResourceTable(r) /\ c.parent = Call[r].parent
              /\ c.name = Call[r].artifact.name
              /\ TableOf(v) = VersionTable(r) /\ v.parent = c.id
              /\ v.name = Call[r].artifact.version
              /\ v.content = Call[r].artifact.content /\ v.artifact = ArtifactHash(r)

\* A dataset version stands on a catalog version of its own project that has all
\* of its products.
DatasetsGrounded == Grounded(resources)

\* An import breaks off with an error only in a race for its name or version, or
\* where a resource of the API already has the name.
ImportErrors ==
    \A r \in Made : pc[r] = "error" /\ Call[r].op \in {"importCatalog", "importDataset"} =>
        \/ \E q \in Made : Met(r, q) /\ Call[q].op = Call[r].op
                               /\ Call[q].artifact.name = Call[r].artifact.name
        \/ \E c \in resources : ~c.external /\ TableOf(c) = ResourceTable(r)
                                /\ c.parent = Call[r].parent /\ c.name = Call[r].artifact.name
=============================================================================
