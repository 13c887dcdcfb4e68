---------------------------- MODULE ServiceTables ---------------------------
(***************************************************************************)
(* The PostgreSQL tables behind the API's accounts, organizations and      *)
(* versioned resources, and what a request is to them: a sequence of       *)
(* statements under READ COMMITTED that end in one commit or more.         *)
(*                                                                         *)
(* A table is a set of rows.  The writes of a transaction show at its      *)
(* commit: until then it holds the rows it will write in locks, and what   *)
(* it has read, which others may change meanwhile, in memo.                *)
(***************************************************************************)
EXTENDS Naturals, FiniteSets

CONSTANTS
    Emails,         \* a user is known by its email
    Slugs,          \* and an organization by its slug
    Passwords, Names,
    Requests,       \* requests and calls of scripts, each made at most once
    Call,           \* what each asks for
    Workloads,      \* the sets of them that are made
    Seeds,          \* ids of the rows of
    SeedUsers, SeedMembers, SeedSessions, SeedLinks, SeedInvitations, SeedResources,
    NoRow,
    MaxFaults       \* bound: requests that die before their answer

Ids == Requests \union Seeds
Roles == {"OWNER", "ADMIN", "ENGINEER", "REVIEWER", "VIEWER"}
Tables == {"organization", "project", "catalog", "dataset", "system", "systemVersion",
           "catalogVersion", "datasetVersion", "review"}
ResourceIds == (Ids \union Slugs) \X Tables

Users == [email : Emails, active : BOOLEAN, verified : BOOLEAN, password : Passwords]
Memberships == [id : Ids, org : Slugs, email : Emails, role : Roles]

\* password is what the user proved to know for this session.
Sessions == [id : Ids, email : Emails, password : Passwords, revoked : BOOLEAN]

\* Password reset and email verification tokens.
Links == [id : Ids, kind : {"reset", "verify"}, email : Emails, used : BOOLEAN,
          fresh : BOOLEAN]
Invitations == [id : Ids, org : Slugs, email : Emails, role : Roles,
                accepted : BOOLEAN, revoked : BOOLEAN, fresh : BOOLEAN]

\* Projects, catalogs, datasets, systems, their versions and reviews.  external
\* tells that an import gave the row its name as external_id.
IsResource(row) ==
    /\ row.id \in ResourceIds /\ row.parent \in ResourceIds
    /\ row.org \in Slugs /\ row.name \in Names \union Requests
    /\ row.external \in BOOLEAN
TableOf(row) == row.id[2]

ASSUME ServiceAssumption ==
    /\ SeedUsers \subseteq Users /\ SeedMembers \subseteq Memberships
    /\ SeedSessions \subseteq Sessions /\ SeedLinks \subseteq Links
    /\ SeedInvitations \subseteq Invitations /\ \A row \in SeedResources : IsResource(row)
    /\ Workloads \subseteq SUBSET Requests /\ MaxFaults \in Nat
    /\ NoRow \notin Users \union Memberships

\* What is said of the resources: that each hangs on a row of its organization,
Apart(rows) ==
    \A row \in rows :
        \/ row.parent = <<row.org, "organization">>
        \/ \E above \in rows : above.id = row.parent /\ above.org = row.org

\* and that each dataset version stands on a catalog version with its products.
Grounded(rows) ==
    \A v \in rows : TableOf(v) = "datasetVersion" =>
        \E g, c, d \in rows :
            /\ g.id = v.grounds /\ TableOf(g) = "catalogVersion"
            /\ c.id = g.parent /\ d.id = v.parent /\ c.parent = d.parent
            /\ v.content.expects \subseteq g.content.products

\* The rows there are at the start are told apart by their ids and unique keys.
SameKey(v, w) == TableOf(v) = TableOf(w) /\ v.parent = w.parent /\ v.name = w.name
ASSUME SeedAssumption ==
    /\ Seeds \intersect Requests = {}
    /\ \A m, n \in SeedMembers : m.id \in Seeds /\ (m.id = n.id => m = n)
    /\ \A m \in SeedMembers : \E o \in SeedMembers : o.org = m.org /\ o.role = "OWNER"
    /\ \A i, j \in SeedInvitations :
          i.id \in Seeds /\ ~i.accepted /\ (i.id = j.id => i = j)
    /\ \A l, m \in SeedLinks :
          /\ l.id \in Seeds /\ (l.id = m.id => l = m)
          /\ l.email = m.email /\ l.kind = m.kind /\ ~l.used /\ ~m.used => l = m
    /\ \A u, w \in SeedUsers : u.email = w.email => u = w
    /\ \A s, t \in SeedSessions : s.id \in Seeds /\ (s.id = t.id => s = t)
    /\ \A s \in SeedSessions :
          /\ \E u \in SeedUsers : u.email = s.email
          /\ \A u \in SeedUsers :
                u.email = s.email /\ ~s.revoked => u.password = s.password
    /\ \A v, w \in SeedResources :
          /\ v.id[1] \in Seeds /\ TableOf(v) # "organization"
          /\ v.id = w.id \/ SameKey(v, w) => v = w
    /\ Apart(SeedResources) /\ Grounded(SeedResources)

VARIABLES users, organizations, memberships, sessions, links, invitations, resources,
    pc,         \* the statement each request is at
    memo,       \* what it remembers of the rows it read
    locks,      \* the rows it has locked, written or inserted and not yet committed
    met         \* history: the pairs of requests that were open at the same time

accounts == <<users, sessions, links>>
governance == <<organizations, memberships, invitations>>
tables == <<accounts, governance, resources>>
vars == <<users, organizations, memberships, sessions, links, invitations, resources,
          pc, memo, locks, met>>

Made == DOMAIN pc
Answers == {"done", "refused", "error", "crashed"}
Open(r) == pc[r] \notin {"ready"} \union Answers

Blank == [role |-> "NONE", row |-> NoRow, matched |-> {}]

\* Rows and unique keys as they are locked.  A row of users has two parts: an UPDATE
\* takes the row, SELECT ... FOR UPDATE its key as well, and an INSERT of what refers to
\* the user waits for the key alone.  Rows of other tables that are referred to are
\* never selected FOR UPDATE, so nobody waits for their keys.
Row(table, id) == <<table, id>>
Key(table, parent, name) == <<"unique", <<table, parent, name>>>>

Init ==
    /\ users = SeedUsers
    /\ organizations = {m.org : m \in SeedMembers}
    /\ memberships = SeedMembers
    /\ sessions = SeedSessions
    /\ links = SeedLinks
    /\ invitations = SeedInvitations
    /\ resources = SeedResources
    /\ \E w \in Workloads : pc = [r \in w |-> "ready"]
    /\ memo = [r \in Made |-> Blank]
    /\ locks = [r \in Made |-> {}]
    /\ met = {}

TypeOK ==
    /\ users \subseteq Users /\ organizations \subseteq Slugs
    /\ memberships \subseteq Memberships /\ sessions \subseteq Sessions
    /\ links \subseteq Links /\ invitations \subseteq Invitations
    /\ \A row \in resources : IsResource(row)
    /\ Made \subseteq Requests
    /\ \A r \in Made : /\ memo[r].role \in Roles \union {"NONE"}
                       /\ ~Open(r) => memo[r] = Blank /\ locks[r] = {}
    /\ \A pair \in met : pair \subseteq Made /\ Cardinality(pair) = 2

-----------------------------------------------------------------------------
(* Waiting *)

UserRow(email) == Row("users", email)
UserKey(email) == Row("userKeys", email)
OrganizationKey(org) == Key("organization", org, org)
MembershipKey(org, email) == Key("membership", org, email)
ResourceKey(row) == Key(TableOf(row), row.parent, row.name)

\* The rows a token leads to: what does not change in them.
LinkOf(r) == CHOOSE row \in links : row.id = Call[r].link
InvitationOf(r) == CHOOSE row \in invitations : row.id = Call[r].invitation
OrgOf(r) == IF Call[r].op = "accept" THEN InvitationOf(r).org ELSE Call[r].org

\* Who is behind the cookie of a request.
SignedBy(r) == {s.email : s \in {s \in sessions : s.id = Call[r].cookie}}

\* Whose links a request is about.  resend-verification takes the user from the session.
OwnerOf(r) ==
    CASE Call[r].op = "resend" -> memo[r].row.email
      [] Call[r].op \in {"verify", "reset"} -> LinkOf(r).email
      [] OTHER -> Call[r].email

\* The statements that lock the rows they matched: many, one by one, or a single one.
RowByRow == {"retire", "retireAll", "revokeSessions", "scriptLock", "lockOwners",
             "revokeInvitations"}
Locking == RowByRow \union {"lockLink", "lockInvitation", "lockUser"}

\* The statements that insert a row about the user of memo, and commit it.
AboutUser == {"openSession", "organizationCommit", "bootstrapCommit", "addCommit",
              "insertInvitation"}

\* What the statement a request is at has to lock, update or insert.
Needs(r) ==
    LET at == pc[r]
        call == Call[r]
    IN  CASE at \in Locking -> memo[r].matched
          [] at \in AboutUser -> {UserKey(memo[r].row.email)}
          [] at = "insertLink" -> {UserKey(OwnerOf(r))}
          [] at \in {"register", "createOrganization"} -> {OrganizationKey(call.org)}
          [] at = "registerUser" -> {UserRow(call.email)}
          [] at \in {"useLink", "insertUser", "scriptUser"} -> {UserRow(memo[r].row.email)}
          [] at = "undelivered" -> {Row("links", r)}
          [] at = "undeliveredInvitation" -> {Row("invitations", r)}
          [] at = "logout" -> {Row("sessions", call.cookie)}
          [] at = "join" -> {MembershipKey(OrgOf(r), memo[r].row.email)}
          [] at = "insertMember" -> {MembershipKey(call.org, call.email)}
          [] at = "write" -> {Row("memberships", memo[r].row.id)}
          [] at = "revokeCommit" -> {Row("invitations", memo[r].row.id)}
          [] at = "createCommit" ->
                 {ResourceKey(memo[r].row)} \union
                 {UserKey(email) : email \in IF call.table = "review" THEN SignedBy(r) ELSE {}}
          [] at \in {"insertResource", "insertVersion"} -> {ResourceKey(memo[r].row)}
          [] OTHER -> {}

Holders(r) == {q \in Made \ {r} : locks[q] \intersect Needs(r) # {}}
Granted(r) == pc[r] \in RowByRow \/ Holders(r) = {}

\* PostgreSQL aborts a transaction that waits in a circle.  A statement that locks row
\* by row waits for any of the rows that it has left: their order is the scan's.
Circle(r, q) == r \in Holders(q) \/ \E p \in Holders(q) : r \in Holders(p)
Deadlocked(r) == \E q \in Holders(r) : Circle(r, q)

-----------------------------------------------------------------------------
(* The steps of a request *)

UserOf(email) == {u \in users : u.email = email}
MemberOf(org, email) == {m \in memberships : m.org = org /\ m.email = email}
The(rows) == CHOOSE row \in rows : TRUE

Goto(r, to) == pc' = [pc EXCEPT ![r] = to]

Remember(r, what) == memo' = [memo EXCEPT ![r] = what]

\* Mutant: the locks stay with a connection of the pool.
AnswerOnly(r, answer) ==
    Goto(r, answer) /\ memo' = [memo EXCEPT ![r] = Blank] /\ UNCHANGED <<locks, met>>

\* The transaction ends, with its locks, and the request with an answer.
Answer(r, answer) ==
    /\ Goto(r, answer)
    /\ memo' = [memo EXCEPT ![r] = Blank]
    /\ locks' = [locks EXCEPT ![r] = {}]
    /\ UNCHANGED met

\* A commit that the request goes on after.
Committed(r, to) ==
    /\ Goto(r, to)
    /\ locks' = [locks EXCEPT ![r] = {}]
    /\ UNCHANGED <<memo, met>>

\* A statement that only reads.
Read(r, to) == Goto(r, to) /\ UNCHANGED <<memo, locks, met, tables>>
ReadInto(r, to, what) ==
    Goto(r, to) /\ Remember(r, what) /\ UNCHANGED <<locks, met, tables>>
Reject(r) == Answer(r, "refused") /\ UNCHANGED tables

\* SELECT ... FOR UPDATE and UPDATE ... WHERE: the statement sees the rows that
\* match when it starts,
Match(r, to, rows) ==
    ReadInto(r, to, [memo[r] EXCEPT !.matched = rows])

\* and goes from row to row: it waits for each, and keeps it if it matches still.
LockRow(r, row, still) ==
    /\ \A q \in Made \ {r} : row \notin locks[q]
    /\ locks' = [locks EXCEPT ![r] = @ \union ({row} \intersect still)]
    /\ Remember(r, [memo[r] EXCEPT !.matched = @ \ {row}])
Lock(r, to, still) ==
    LET rows == memo[r].matched
    IN  /\ \/ rows = {} /\ Goto(r, to) /\ UNCHANGED <<locks, memo>>
           \/ \E row \in rows : LockRow(r, row, still)
                                /\ Goto(r, IF rows = {row} THEN to ELSE pc[r])
        /\ UNCHANGED <<met, tables>>

\* INSERT and flush, of a row with this unique key.
Insert(r, to, key, taken, failure) ==
    /\ \/ /\ ~taken
          /\ Goto(r, to)
          /\ locks' = [locks EXCEPT ![r] = @ \union {key}]
          /\ UNCHANGED <<memo, met>>
       \/ taken /\ Answer(r, failure)
    /\ UNCHANGED tables

\* The rows of a table that a transaction holds.
Locked(r, table, rows) == {row \in rows : Row(table, row.id) \in locks[r]}
Rewritten(rows, chosen, W(_)) == (rows \ chosen) \union {W(row) : row \in chosen}
Used(row) == [row EXCEPT !.used = TRUE]
Revoked(row) == [row EXCEPT !.revoked = TRUE]
=============================================================================
