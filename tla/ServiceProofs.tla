---------------------------- MODULE ServiceProofs ----------------------------
(***************************************************************************)
(* Theorems about the service, for every database it starts with and every *)
(* set of requests: that locks exclude each other, and that a link and an  *)
(* invitation are used once.                                               *)
(***************************************************************************)
EXTENDS ApiService, TLAPS

-----------------------------------------------------------------------------
(* The steps of a request *)

\* A step of r is nobody else's.
Private(r) ==
    /\ Made' = Made
    /\ \A q \in Made \ {r} : pc'[q] = pc[q] /\ memo'[q] = memo[q] /\ locks'[q] = locks[q]

Tidy ==
    /\ DOMAIN memo = Made /\ DOMAIN locks = Made /\ Made \subseteq Requests
    /\ \A r \in Made : DOMAIN memo[r] = {"role", "row", "matched"}

Ends == {"ready"} \union Answers
LinkOps == {"verify", "reset"}
Holding == {"findHolder", "matchLinks", "retireAll", "matchSessions", "revokeSessions",
            "useLink"}
LinkSteps == {"findLink", "lockLink"} \union Holding
Joining == {"findUser", "lockUser", "checkMember", "join"}
AcceptSteps == {"accept", "lockInvitation"} \union Joining
ImportSteps == {"import", "ground", "findResource", "insertResource", "findVersion",
                "insertVersion", "importCommit"}
BootstrapSteps == {"bootstrap", "bootstrapMember", "bootstrapCommit"}
MailSteps == {"issue", "retire", "insertLink", "mail", "undelivered"}
Managing == {"matchOwners", "lockOwners", "countOwners", "write"}
InviteSteps == {"invite", "matchInvitations", "revokeInvitations", "insertInvitation"}
ScriptSteps == {"scriptReset", "scriptSessions", "scriptUser", "scriptLock", "scriptCommit"}

\* From the statement after the one that locks the invitation.
Accepting(r) == pc[r] \in Joining \/ (pc[r] = "insertUser" /\ Call[r].op = "accept")

\* Where the lock k may be held: from the statement that takes it to the commit.
Fits(k, at) ==
    \/ k[1] = "invitations" /\ at \in Joining \union
                                   {"revokeInvitations", "insertInvitation", "insertUser"}
    \/ k[1] = "users" /\ at \in {"registerCommit", "scriptLock", "scriptCommit",
                               "bootstrapMember", "insertMember", "bootstrapCommit",
                               "checkMember", "join"}
    \/ k[1] = "userKeys" /\ at \in {"checkMember", "join"}
    \/ k[1] = "memberships" /\ at \in {"lockOwners", "countOwners", "write"}
    \/ k[1] = "links" /\ at \in Holding \union {"retire", "insertLink"}
    \/ k[1] = "sessions" /\ at \in {"revokeSessions", "useLink", "scriptLock", "scriptCommit"}
    \/ k[1] = "unique" /\ at \in {"registerUser", "registerCommit", "organizationCommit",
                               "bootstrapCommit", "addCommit", "findVersion",
                               "insertVersion", "importCommit"}

\* What the statements that lock what they matched are about to lock.
Aims(r) ==
    \A k \in memo[r].matched :
        \/ pc[r] \in {"retire", "lockLink", "retireAll"} /\ k[1] = "links"
        \/ pc[r] \in {"revokeSessions", "scriptUser", "scriptLock"} /\ k[1] = "sessions"
        \/ pc[r] \in {"lockInvitation", "revokeInvitations"} /\ k[1] = "invitations"
        \/ pc[r] = "lockUser" /\ k[1] \in {"users", "userKeys"}
        \/ pc[r] = "lockOwners" /\ k[1] = "memberships"

\* Each kind of request is at statements of its own, and has locked what it uses.
Staged(r) ==
    LET op == Call[r].op
    IN  /\ pc[r] \in LinkSteps => op \in LinkOps
        /\ op \in LinkOps => pc[r] \in LinkSteps \union Ends
        /\ pc[r] \in AcceptSteps => op = "accept"
        /\ op = "accept" => pc[r] \in AcceptSteps \union {"insertUser"} \union Ends
        /\ pc[r] \in ImportSteps => op \in ImportOps
        /\ op \in ImportOps =>
               \/ pc[r] \in ImportSteps \union Ends
               \/ op = "importCatalog" /\ pc[r] \in {"authenticate", "authorize"}
        /\ op = "bootstrap" => pc[r] \in BootstrapSteps \union {"insertUser", "insertMember"} \union Ends
        /\ pc[r] = "authorize" => op \notin Personal
        /\ pc[r] \in BootstrapSteps => op = "bootstrap"
        /\ pc[r] = "insertUser" => op \in {"accept", "bootstrap"}
        /\ pc[r] = "insertMember" => op \in {"add", "bootstrap"}
        /\ pc[r] \in {"register", "registerUser", "registerCommit"} => op = "register"
        /\ pc[r] \in {"forgot", "resend", "issue", "retire", "insertLink"} =>
               op \in {"forgot", "resend", "register"}
        /\ pc[r] \in {"createOrganization", "organizationCommit"} => op = "createOrganization"
        /\ pc[r] \in {"add", "addCommit"} => op = "add"
        /\ pc[r] \in InviteSteps => op = "invite"
        /\ pc[r] \in {"revoke", "revokeCommit"} => op = "revoke"
        /\ pc[r] \in ScriptSteps => op = "scriptReset"
        /\ pc[r] \in {"target"} \union Managing => op \in {"change", "remove"}
        /\ pc[r] = "lockLink" => memo[r].matched = {Row("links", Call[r].link)}
        /\ pc[r] \in Holding => Row("links", Call[r].link) \in locks[r]
        /\ pc[r] = "lockInvitation" =>
               memo[r].matched = {Row("invitations", Call[r].invitation)}
        /\ Accepting(r) => Row("invitations", Call[r].invitation) \in locks[r]
        /\ Aims(r)
        /\ \A k \in locks[r] :
              /\ Fits(k, pc[r])
              /\ pc[r] = "insertUser" => op = "accept"
              /\ pc[r] = "insertMember" => op = "bootstrap"

\* Locks are taken as they are needed, row by row or all at once, and kept until a
\* commit.  What is inserted under a unique key was not there.
Releasing == {"registerCommit", "insertLink", "insertInvitation", "scriptUser"}
Free(r, k) == \A q \in Made \ {r} : k \notin locks[q]
Unheld(r, k) ==
    \/ k[1] # "unique" \/ k[2][1] \in {"organization", "membership"}
    \/ /\ pc[r] \in {"insertResource", "insertVersion"}
       /\ k = ResourceKey(memo[r].row) /\ ~Stored(memo[r].row)
Taken(r) ==
    /\ locks'[r] \subseteq locks[r] \union Needs(r)
    /\ \A k \in locks'[r] \ locks[r] :
          /\ Unheld(r, k)
          /\ k[1] = "invitations" => RevokeInvitations(r) \/ LockInvitation(r)
          /\ pc[r] \in RowByRow => Free(r, k)
    /\ locks[r] \subseteq locks'[r] \/ pc[r] \in Releasing \/ pc'[r] \in Answers

\* A request starts once, and an answer is final, and so is a mail.
Settled(r) ==
    /\ pc[r] = "ready" => Begin(r)
    /\ pc[r] = "authenticate" => Authenticate(r) \/ pc'[r] \in Answers
    /\ pc[r] = "authorize" => Authorize(r) \/ pc'[r] \in Answers
    /\ pc[r] \notin Answers
    /\ pc[r] \in MailSteps => pc'[r] \in MailSteps \union Answers
    /\ pc[r] \in {"undelivered", "undeliveredInvitation"} => pc'[r] \in Answers
    /\ pc[r] = "mail" => pc'[r] \in Answers \union {"undelivered"}
    /\ pc[r] = "mailInvitation" => pc'[r] \in Answers \union {"undeliveredInvitation"}

\* Which statements write each table, lock a link or an invitation, and come to an end
\* with it.
Changes(r) ==
    /\ met' = met \/ Begin(r)
    /\ \/ users' = users
       \/ RegisterCommit(r) \/ UseLink(r) \/ ScriptCommit(r) \/ BootstrapCommit(r) \/ Join(r)
    /\ \/ sessions' = sessions
       \/ OpenSession(r) \/ Logout(r) \/ RegisterCommit(r) \/ UseLink(r) \/ ScriptCommit(r)
       \/ Join(r)
    /\ \/ memberships' = memberships
       \/ RegisterCommit(r) \/ OrganizationCommit(r) \/ BootstrapCommit(r) \/ AddCommit(r)
       \/ Write(r) \/ Join(r)
    /\ organizations' = organizations \/ RegisterCommit(r) \/ OrganizationCommit(r)
    /\ links' = links \/ IssueCommit(r) \/ RetireUndelivered(r) \/ UseLink(r)
    /\ \/ invitations' = invitations
       \/ InviteCommit(r) \/ RevokeUndelivered(r) \/ RevokeCommit(r) \/ Join(r)
    /\ resources' = resources \/ CreateCommit(r) \/ ImportCommit(r)
    /\ pc'[r] \in Holding => pc[r] \in Holding \/ LockLink(r)
    /\ Accepting(r)' => Accepting(r) \/ LockInvitation(r)
    /\ pc'[r] = "lockInvitation" => Acceptable(r) # {}
    /\ pc'[r] \in (ImportSteps \ {"import"}) \union {"createCommit"} => ResourceStep(r)
    /\ pc'[r] = "done" =>
          /\ Call[r].op \in LinkOps => UseLink(r)
          /\ pc[r] = "scriptCommit" => ScriptCommit(r)
          /\ Call[r].op = "accept" => Join(r)
          /\ Call[r].op \in ImportOps => FindVersion(r) \/ ImportCommit(r)
    /\ pc'[r] = "error" /\ Call[r].op \in ImportOps =>
          Abort(r) \/ InsertResource(r) \/ InsertVersion(r)

\* Which statement comes before another.
Follows(r) ==
    /\ pc'[r] # "ready"
    /\ pc'[r] = "authenticate" => Begin(r)
    /\ pc'[r] = "authorize" => Authenticate(r)
    /\ pc'[r] = "createOrganization" => Authenticate(r)
    /\ pc'[r] = "organizationCommit" => CreateOrganization(r)
    /\ pc'[r] = "bootstrap" => Begin(r)
    /\ pc'[r] = "retire" => IssueMatch(r) \/ Retire(r)
    /\ pc'[r] = "insertLink" => Retire(r)
    /\ pc'[r] = "revokeInvitations" => MatchInvitations(r) \/ RevokeInvitations(r)
    /\ pc'[r] = "insertInvitation" => RevokeInvitations(r)
    /\ pc'[r] = "revokeCommit" => FindPending(r)
    /\ pc'[r] = "openSession" => Login(r)
    /\ pc'[r] = "lockLink" => FindLink(r) \/ LockLink(r)
    /\ pc'[r] = "findHolder" => LockLink(r)
    /\ pc'[r] = "matchLinks" => FindHolder(r)
    /\ pc'[r] = "retireAll" => MatchLinks(r) \/ RetireAll(r)
    /\ pc'[r] = "matchSessions" => RetireAll(r)
    /\ pc'[r] = "revokeSessions" => MatchSessions(r) \/ RevokeSessions(r)
    /\ pc'[r] = "useLink" => RevokeSessions(r) \/ RetireAll(r)
    /\ pc'[r] = "scriptSessions" => ScriptFindUser(r)
    /\ pc'[r] = "scriptUser" => ScriptFindSessions(r)
    /\ pc'[r] = "scriptLock" => ScriptFlushUser(r) \/ ScriptFlushSessions(r)
    /\ pc'[r] = "scriptCommit" => ScriptFlushSessions(r)
    /\ pc'[r] = "registerUser" => RegisterOrganization(r)
    /\ pc'[r] = "registerCommit" => RegisterUser(r)
    /\ pc'[r] = "insertUser" => Bootstrap(r) \/ FindInvited(r)
    /\ pc'[r] = "bootstrapMember" => Bootstrap(r) \/ InsertUser(r)
    /\ pc'[r] = "insertMember" => AddMember(r) \/ BootstrapMember(r)
    /\ pc'[r] \in {"bootstrapCommit", "addCommit"} => InsertMember(r)
    /\ pc'[r] = "lockUser" => FindInvited(r)
    /\ pc'[r] = "checkMember" => LockInvited(r) \/ InsertUser(r)
    /\ pc'[r] = "join" => CheckMember(r)
    /\ pc'[r] = "matchOwners" => Target(r)
    /\ pc'[r] = "lockOwners" => MatchOwners(r) \/ LockOwners(r)
    /\ pc'[r] = "countOwners" => LockOwners(r)
    /\ pc'[r] = "write" => Target(r) \/ CountOwners(r)
    /\ pc'[r] = "insertResource" => FindResource(r)
    /\ pc'[r] = "findVersion" => FindResource(r) \/ InsertResource(r)
    /\ pc'[r] = "insertVersion" => FindVersion(r)

\* All of it.
Effect(r) ==
    /\ Private(r) /\ Tidy' /\ Staged(r)' /\ Taken(r) /\ Settled(r)
    /\ Changes(r) /\ Follows(r)

\* A statement that locks what it matched takes one row that is free and matches still,
\* drops one that does not, or has none left.
Scans(r, to, still) ==
    /\ Private(r) /\ Tidy' /\ pc'[r] \in {to, pc[r]}
    /\ memo'[r].role = memo[r].role /\ memo'[r].row = memo[r].row
    /\ memo'[r].matched \subseteq memo[r].matched
    /\ pc'[r] = to \/ memo'[r].matched # {}
    /\ pc'[r] = pc[r] \/ memo'[r].matched = {}
    /\ locks[r] \subseteq locks'[r]
    /\ locks'[r] \subseteq locks[r] \union (memo[r].matched \intersect still)
    /\ \A k \in locks'[r] \ locks[r] : Free(r, k) /\ k \notin memo'[r].matched
    /\ \A k \in memo[r].matched :
          k \notin still \/ k \in memo'[r].matched \union locks'[r]
    /\ \E k : memo[r].matched \subseteq memo'[r].matched \union {k}
    /\ UNCHANGED <<met, tables>>
LEMMA LockScans ==
    ASSUME Tidy, NEW r \in Made, NEW to, NEW still, Lock(r, to, still)
    PROVE  Scans(r, to, still)
  <1>1. CASE memo[r].matched = {} /\ Goto(r, to) /\ UNCHANGED <<locks, memo>>
    <2>1. Private(r) /\ Tidy' /\ UNCHANGED <<met, tables>>
      BY <1>1 DEF Lock, Private, Tidy, Made, Goto
    <2>2. pc'[r] = to /\ memo'[r] = memo[r] /\ locks'[r] = locks[r]
      BY <1>1 DEF Made, Goto
    <2> QED
      BY <1>1, <2>1, <2>2 DEF Scans
  <1>2. CASE \E row \in memo[r].matched :
                 LockRow(r, row, still) /\ Goto(r, IF memo[r].matched = {row} THEN to ELSE pc[r])
    <2>1. PICK row \in memo[r].matched :
              /\ LockRow(r, row, still)
              /\ Goto(r, IF memo[r].matched = {row} THEN to ELSE pc[r])
      BY <1>2
    <2> DEFINE rest == memo[r].matched \ {row}
    <2>2. /\ locks' = [locks EXCEPT ![r] = locks[r] \union ({row} \intersect still)]
          /\ memo' = [memo EXCEPT ![r] = [memo[r] EXCEPT !.matched = rest]]
          /\ pc' = [pc EXCEPT ![r] = IF memo[r].matched = {row} THEN to ELSE pc[r]]
          /\ \A q \in Made \ {r} : row \notin locks[q]
      BY <2>1 DEF LockRow, Goto, Remember, Tidy
    <2>3. Private(r) /\ Tidy' /\ UNCHANGED <<met, tables>>
      <3>1. UNCHANGED <<met, tables>>
        BY DEF Lock
      <3> QED
        BY <2>2, <3>1 DEF Private, Tidy, Made
    <2>4. /\ memo'[r].role = memo[r].role /\ memo'[r].row = memo[r].row
          /\ memo'[r].matched = rest
          /\ locks'[r] = locks[r] \union ({row} \intersect still)
          /\ pc'[r] = IF memo[r].matched = {row} THEN to ELSE pc[r]
      BY <2>2 DEF Tidy, Made
    <2>5. \A k \in locks'[r] \ locks[r] : Free(r, k) /\ k \notin memo'[r].matched
      BY <2>2, <2>4 DEF Free
    <2>6. rest = {} <=> memo[r].matched = {row}
      BY <2>1
    <2> HIDE DEF rest
    <2>7. rest \subseteq memo[r].matched /\ memo[r].matched \subseteq rest \union {row}
      BY DEF rest
    <2> QED
      BY <2>1, <2>3, <2>4, <2>5, <2>6, <2>7 DEF Scans
  <1> QED
    BY <1>1, <1>2 DEF Lock

\* The statements that scan, with the one that comes after.
Scanning(r, to, still) ==
    \/ Retire(r) /\ pc[r] = "retire" /\ to = "insertLink"
    \/ LockLink(r) /\ pc[r] = "lockLink" /\ to = "findHolder" /\ memo[r].matched \subseteq still
    \/ RetireAll(r) /\ pc[r] = "retireAll" /\ to \in {"matchSessions", "useLink"}
    \/ RevokeSessions(r) /\ pc[r] = "revokeSessions" /\ to = "useLink"
    \/ ScriptFlushSessions(r) /\ pc[r] = "scriptLock" /\ to = "scriptCommit"
    \/ LockOwners(r) /\ pc[r] = "lockOwners" /\ to = "countOwners"
    \/ RevokeInvitations(r) /\ pc[r] = "revokeInvitations" /\ to = "insertInvitation"
    \/ LockInvitation(r) /\ pc[r] = "lockInvitation" /\ to = "findUser"
       /\ memo[r].matched \subseteq still /\ Acceptable(r) # {}
LEMMA ScanEffect ==
    ASSUME Tidy, NEW r \in Made, Staged(r), NEW to, NEW still, Scanning(r, to, still),
           Lock(r, to, still)
    PROVE  Effect(r)
  <1>1. Scans(r, to, still)
    BY LockScans
  <1>2. Private(r) /\ Tidy' /\ UNCHANGED <<met, tables>>
    BY <1>1 DEF Scans
  <1>3. pc[r] \in Locking \ {"lockUser"} /\ Needs(r) = memo[r].matched /\ Aims(r)
    <2>1. pc[r] \in Locking \ {"lockUser"}
      <3>1. pc[r] \in {"retire", "lockLink", "retireAll", "revokeSessions", "scriptLock",
                      "lockOwners", "revokeInvitations", "lockInvitation"}
        BY DEF Scanning
      <3> QED
        BY <3>1 DEF Locking, RowByRow
    <2>2. Needs(r) = memo[r].matched
      BY <2>1 DEF Needs, Locking, RowByRow, AboutUser
    <2> QED
      BY <2>1, <2>2 DEF Staged
  <1>4. Taken(r)
    <2>1. \A k \in locks'[r] \ locks[r] : k \in memo[r].matched /\ Free(r, k)
      BY <1>1 DEF Scans
    <2>2. \A k \in memo[r].matched : Unheld(r, k)
      BY <1>3 DEF Aims, Unheld, Locking
    <2>3. \A k \in memo[r].matched :
              k[1] = "invitations" => RevokeInvitations(r) \/ LockInvitation(r)
      BY <1>3 DEF Aims, Scanning
    <2> QED
      BY <1>1, <1>3, <2>1, <2>2, <2>3 DEF Scans, Taken
  <1>5. Staged(r)'
    <2>1. \A k \in locks'[r] : k \in locks[r] \/ k \in memo[r].matched
      BY <1>1 DEF Scans
    <2>2. CASE pc'[r] = pc[r] /\ to # pc[r]
      <3>1. Aims(r)'
        BY <1>1, <1>3, <2>2 DEF Scans, Aims
      <3>2. CASE pc[r] \in {"lockLink", "lockInvitation"}
        <4>1. memo'[r].matched = memo[r].matched /\ locks'[r] = locks[r]
          <5>1. PICK x : memo[r].matched = {x}
            BY <3>2 DEF Staged
          <5>2. memo'[r].matched \subseteq {x} /\ memo'[r].matched # {}
            BY <1>1, <2>2, <5>1 DEF Scans
          <5>3. memo'[r].matched = {x}
            BY <5>2
          <5>4. locks'[r] = locks[r]
            BY <1>1, <5>1, <5>3 DEF Scans
          <5> QED
            BY <5>1, <5>3, <5>4
        <4> QED
          BY <2>2, <3>1, <4>1 DEF Staged, Accepting
      <3>3. CASE pc[r] \notin {"lockLink", "lockInvitation"}
        <4>1. \A k \in locks'[r] : Fits(k, pc[r])
          <5>1. pc[r] \in RowByRow
            BY <1>3, <3>3 DEF Locking
          <5>2. \A k \in memo[r].matched : Fits(k, pc[r])
            BY <1>3, <5>1 DEF Aims, Fits, RowByRow, Holding
          <5> QED
            BY <2>1, <5>2 DEF Staged
        <4>2. pc[r] \notin {"insertUser", "insertMember"}
          BY <1>3 DEF Locking, RowByRow
        <4>3. locks[r] \subseteq locks'[r] /\ (Accepting(r)' <=> Accepting(r))
          BY <1>1, <2>2 DEF Scans, Accepting
        <4> QED
          BY <2>2, <3>1, <3>3, <4>1, <4>2, <4>3 DEF Staged
      <3> QED
        BY <3>2, <3>3
    <2>3. CASE pc'[r] = to /\ to # pc[r]
      <3>1. memo'[r].matched = {} /\ locks[r] \subseteq locks'[r]
        BY <1>1, <2>3 DEF Scans
      <3>2. \A k \in memo[r].matched : k \notin still \/ k \in locks'[r]
        BY <1>1, <3>1 DEF Scans
      <3>3. Aims(r)'
        BY <3>1 DEF Aims
      <3>4. \A k \in locks'[r] : Fits(k, to)
        <4>1. \A k \in locks[r] : Fits(k, pc[r])
          BY DEF Staged
        <4> QED
          BY <1>3, <2>1, <4>1 DEF Aims, Fits, Scanning, Holding, Joining
      <3>5. CASE pc[r] = "lockLink"
        <4>1. to = "findHolder" /\ Row("links", Call[r].link) \in locks'[r]
          BY <3>2, <3>5 DEF Scanning, Staged
        <4> QED
          BY <2>3, <3>3, <3>4, <3>5, <4>1 DEF Staged, LinkSteps, Holding, AcceptSteps,
             Accepting, Joining, ImportSteps, BootstrapSteps, InviteSteps, ScriptSteps,
             Managing, LinkOps, ImportOps, Ends, Answers
      <3>6. CASE pc[r] = "lockInvitation"
        <4>1. to = "findUser" /\ Row("invitations", Call[r].invitation) \in locks'[r]
          BY <3>2, <3>6 DEF Scanning, Staged
        <4> QED
          BY <2>3, <3>3, <3>4, <3>6, <4>1 DEF Staged, LinkSteps, Holding, AcceptSteps,
             Accepting, Joining, ImportSteps, BootstrapSteps, InviteSteps, ScriptSteps,
             Managing, LinkOps, ImportOps, Ends, Answers
      <3>7. CASE pc[r] \notin {"lockLink", "lockInvitation"}
        <4>1. to \in {"insertLink", "matchSessions", "useLink", "scriptCommit",
                      "countOwners", "insertInvitation"}
          BY <3>7 DEF Scanning
        <4>2. to \in Holding => pc[r] \in Holding
          BY <3>7, <4>1 DEF Scanning, Holding
        <4>3. /\ to \in InviteSteps => pc[r] \in InviteSteps
              /\ to \in ScriptSteps => pc[r] \in ScriptSteps
              /\ to \in Managing => pc[r] \in Managing
              /\ to = "insertLink" => pc[r] = "retire"
          BY <3>7 DEF Scanning, InviteSteps, ScriptSteps, Managing
        <4>4. pc[r] \notin LinkSteps \ Holding /\ pc[r] \notin AcceptSteps
              /\ pc[r] \notin Ends \union {"insertUser", "insertMember"}
                              \union ImportSteps \union BootstrapSteps
          BY <1>3, <3>7 DEF LinkSteps, AcceptSteps, Joining, Locking, RowByRow, Ends,
             Answers, ImportSteps, BootstrapSteps, Holding
        <4> QED
          BY <2>3, <3>1, <3>3, <3>4, <4>1, <4>2, <4>3, <4>4 DEF Staged, LinkSteps, Holding,
             AcceptSteps, Accepting, Joining, ImportSteps, BootstrapSteps, InviteSteps,
             ScriptSteps, Managing
      <3> QED
        BY <3>5, <3>6, <3>7
    <2>4. to # pc[r]
      BY DEF Scanning
    <2> QED
      BY <1>1, <2>2, <2>3, <2>4 DEF Scans
  <1>6. Settled(r) /\ Changes(r) /\ Follows(r)
    <2>1. /\ pc'[r] = to \/ pc'[r] = pc[r]
          /\ met' = met /\ users' = users /\ sessions' = sessions
          /\ memberships' = memberships /\ organizations' = organizations
          /\ links' = links /\ invitations' = invitations /\ resources' = resources
      BY <1>1 DEF Scans, tables, accounts, governance
    <2> USE <2>1 DEF Settled, Changes, Follows, Answers, MailSteps, ImportSteps, Holding,
             Accepting, Joining, LinkOps, ImportOps
    <2>2. CASE Retire(r) /\ pc[r] = "retire" /\ to = "insertLink"
      BY <2>2
    <2>3. CASE LockLink(r) /\ pc[r] = "lockLink" /\ to = "findHolder"
      BY <2>3
    <2>4. CASE RetireAll(r) /\ pc[r] = "retireAll" /\ to \in {"matchSessions", "useLink"}
      BY <2>4
    <2>5. CASE RevokeSessions(r) /\ pc[r] = "revokeSessions" /\ to = "useLink"
      BY <2>5
    <2>6. CASE ScriptFlushSessions(r) /\ pc[r] = "scriptLock" /\ to = "scriptCommit"
      BY <2>6
    <2>7. CASE LockOwners(r) /\ pc[r] = "lockOwners" /\ to = "countOwners"
      BY <2>7
    <2>8. CASE RevokeInvitations(r) /\ pc[r] = "revokeInvitations" /\ to = "insertInvitation"
      BY <2>8
    <2>9. CASE LockInvitation(r) /\ pc[r] = "lockInvitation" /\ to = "findUser"
               /\ Acceptable(r) # {}
      BY <2>9
    <2> QED
      BY <2>2, <2>3, <2>4, <2>5, <2>6, <2>7, <2>8, <2>9 DEF Scanning
  <1> QED
    BY <1>2, <1>4, <1>5, <1>6 DEF Effect

\* What the statements of accounts do.
LEMMA AccountEffect ==
    ASSUME Tidy, NEW r \in Made, Staged(r), AccountStep(r)
    PROVE  Effect(r)
  <1> USE DEF Effect, Private, Tidy, Made, Staged, Fits, Aims, Ends, LinkSteps, Holding,
           AcceptSteps, Joining, Accepting, ImportSteps, BootstrapSteps, ScriptSteps,
           MailSteps, InviteSteps, Managing, LinkOps, ImportOps, Taken, Releasing, Changes, Follows,
           Settled, Answers, Goto, Remember, Answer, Blank, Read, ReadInto, Reject, tables,
           accounts, governance
  <1>1. CASE Login(r)
    BY <1>1 DEF Login
  <1>2. CASE OpenSession(r)
    BY <1>2 DEF OpenSession
  <1>3. CASE Logout(r)
    BY <1>3 DEF Logout
  <1>4. CASE RegisterOrganization(r)
    BY <1>4 DEF RegisterOrganization, Insert, Needs, Locking, RowByRow, AboutUser, Unheld, RowsOf, Row, Key, UserRow,
             UserKey, OrganizationKey, MembershipKey, ResourceKey
  <1>5. CASE RegisterUser(r)
    BY <1>5 DEF RegisterUser, Insert, Needs, Locking, RowByRow, AboutUser, Unheld, RowsOf, Row, Key, UserRow,
             UserKey, OrganizationKey, MembershipKey, ResourceKey
  <1>6. CASE RegisterCommit(r)
    BY <1>6 DEF RegisterCommit, Committed
  <1>7. CASE Forgot(r)
    BY <1>7 DEF Forgot
  <1>8. CASE Resend(r)
    BY <1>8 DEF Resend
  <1>9. CASE IssueMatch(r)
    BY <1>9 DEF IssueMatch, Match, RowsOf, Row
  <1>10. CASE Retire(r)
    <2> HIDE DEF Tidy, Staged, Effect, Made
    <2> QED
      BY <1>10, ScanEffect DEF Scanning, Retire
  <1>11. CASE IssueCommit(r)
    BY <1>11 DEF IssueCommit, Committed
  <1>12. CASE Mail(r)
    BY <1>12 DEF Mail
  <1>13. CASE RetireUndelivered(r)
    BY <1>13 DEF RetireUndelivered
  <1>14. CASE FindLink(r)
    BY <1>14 DEF FindLink, Match, RowsOf, Valid, Row
  <1>15. CASE LockLink(r)
    <2>1. CASE Reject(r)
      BY <1>15, <2>1 DEF LockLink
    <2>2. CASE ~Reject(r)
      <3>1. memo[r].matched = {Row("links", Call[r].link)}
        BY <1>15 DEF LockLink
      <3>2. pc[r] = "lockLink" /\ Valid(r) # {}
            /\ Lock(r, "findHolder", RowsOf("links", Valid(r)))
        BY <1>15, <2>2 DEF LockLink
      <3>3. memo[r].matched \subseteq RowsOf("links", Valid(r))
        BY <3>1, <3>2 DEF RowsOf, Valid
      <3> HIDE DEF Tidy, Staged, Effect, Made
      <3> QED
        BY <1>15, <3>2, <3>3, ScanEffect DEF Scanning
    <2> QED
      BY <2>1, <2>2
  <1>16. CASE FindHolder(r)
    BY <1>16 DEF FindHolder
  <1>17. CASE MatchLinks(r)
    BY <1>17 DEF MatchLinks, Match, RowsOf, Row
  <1>18. CASE RetireAll(r)
    <2> HIDE DEF Tidy, Staged, Effect, Made
    <2> QED
      BY <1>18, ScanEffect DEF Scanning, RetireAll
  <1>19. CASE MatchSessions(r)
    BY <1>19 DEF MatchSessions, Match, RowsOf, Row
  <1>20. CASE RevokeSessions(r)
    <2> HIDE DEF Tidy, Staged, Effect, Made
    <2> QED
      BY <1>20, ScanEffect DEF Scanning, RevokeSessions
  <1>21. CASE UseLink(r)
    BY <1>21 DEF UseLink
  <1>22. CASE ScriptFindUser(r)
    BY <1>22 DEF ScriptFindUser
  <1>23. CASE ScriptFindSessions(r)
    BY <1>23 DEF ScriptFindSessions, Match, RowsOf, Row
  <1>24. CASE ScriptFlushUser(r)
    BY <1>24 DEF ScriptFlushUser, Needs, Locking, RowByRow, Unheld, RowsOf, Row, Key, UserRow,
             OrganizationKey, ResourceKey
  <1>25. CASE ScriptFlushSessions(r)
    <2> HIDE DEF Tidy, Staged, Effect, Made
    <2> QED
      BY <1>25, ScanEffect DEF Scanning, ScriptFlushSessions
  <1>26. CASE ScriptCommit(r)
    BY <1>26 DEF ScriptCommit
  <1> QED
    BY <1>1, <1>2, <1>3, <1>4, <1>5, <1>6, <1>7, <1>8, <1>9, <1>10, <1>11, <1>12, <1>13,
             <1>14, <1>15, <1>16, <1>17, <1>18, <1>19, <1>20, <1>21, <1>22, <1>23,
             <1>24, <1>25, <1>26
             DEF AccountStep

\* What the statements of governance do.
LEMMA GovernanceEffect ==
    ASSUME Tidy, NEW r \in Made, Staged(r), GovernanceStep(r)
    PROVE  Effect(r)
  <1> USE DEF Effect, Private, Tidy, Made, Staged, Fits, Aims, Ends, LinkSteps, Holding,
           AcceptSteps, Joining, Accepting, ImportSteps, BootstrapSteps, ScriptSteps,
           MailSteps, InviteSteps, Managing, LinkOps, ImportOps, Taken, Releasing, Changes, Follows,
           Settled, Answers, Goto, Remember, Answer, Blank, Read, ReadInto, Reject, tables,
           accounts, governance
  <1>1. CASE CreateOrganization(r)
    BY <1>1 DEF CreateOrganization, Insert, Needs, Locking, RowByRow, Unheld, RowsOf, Row, Key,
             UserRow, OrganizationKey, ResourceKey
  <1>2. CASE OrganizationCommit(r)
    BY <1>2 DEF OrganizationCommit
  <1>3. CASE Bootstrap(r)
    <2>1. pc[r] = "bootstrap" /\ locks[r] = {} /\ memo[r].matched = {}
      BY <1>3 DEF Bootstrap
    <2>2. CASE Reject(r)
      BY <2>1, <2>2
    <2>3. CASE \E u : ReadInto(r, "bootstrapMember", [memo[r] EXCEPT !.row = u])
      BY <1>3, <2>1, <2>3
    <2>4. CASE \E u : ReadInto(r, "insertUser", [memo[r] EXCEPT !.row = u])
      BY <1>3, <2>1, <2>4
    <2> QED
      BY <1>3, <2>2, <2>3, <2>4 DEF Bootstrap
  <1>4. CASE InsertUser(r)
    BY <1>4 DEF InsertUser, Insert, Needs, Locking, RowByRow, Unheld, RowsOf, Row, Key, UserRow,
             OrganizationKey, ResourceKey
  <1>5. CASE BootstrapMember(r)
    BY <1>5 DEF BootstrapMember
  <1>6. CASE InsertMember(r)
    <2> DEFINE key == MembershipKey(Call[r].org, Call[r].email)
               to == IF Call[r].op = "add" THEN "addCommit" ELSE "bootstrapCommit"
    <2>1. pc[r] = "insertMember" /\ Needs(r) = {key} /\ UNCHANGED tables
      BY <1>6 DEF InsertMember, Insert, Needs, Locking, RowByRow, AboutUser
    <2>2. key[1] = "unique" /\ key[2][1] = "membership" /\ Unheld(r, key)
      BY DEF MembershipKey, Key, Unheld
    <2>3. CASE pc' = [pc EXCEPT ![r] = to] /\ locks' = [locks EXCEPT ![r] = @ \union {key}]
               /\ UNCHANGED <<memo, met>>
      <3> HIDE DEF key
      <3>1. \A k \in locks'[r] : k \in locks[r] \/ k = key
        BY <2>3
      <3>2. \A k \in locks'[r] : Fits(k, to)
        BY <2>1, <2>2, <3>1
      <3>3. Call[r].op \in {"add", "bootstrap"} /\ memo[r].matched = {}
        BY <2>1
      <3>4. Taken(r)
        BY <2>1, <2>2, <2>3, <3>1 DEF RowByRow
      <3> HIDE DEF Taken
      <3> QED
        BY <1>6, <2>1, <2>3, <3>2, <3>3, <3>4
    <2>4. CASE \E answer \in {"refused", "error"} : Answer(r, answer)
      BY <1>6, <2>1, <2>4
    <2> QED
      BY <1>6, <2>3, <2>4 DEF InsertMember, Insert
  <1>7. CASE BootstrapCommit(r)
    BY <1>7 DEF BootstrapCommit
  <1>8. CASE AddMember(r)
    BY <1>8 DEF AddMember
  <1>9. CASE AddCommit(r)
    BY <1>9 DEF AddCommit
  <1>10. CASE Target(r)
    BY <1>10 DEF Target
  <1>11. CASE MatchOwners(r)
    BY <1>11 DEF MatchOwners, Match, MembershipRows, RowsOf, Row
  <1>12. CASE LockOwners(r)
    <2> HIDE DEF Tidy, Staged, Effect, Made
    <2> QED
      BY <1>12, ScanEffect DEF Scanning, LockOwners
  <1>13. CASE CountOwners(r)
    BY <1>13 DEF CountOwners
  <1>14. CASE Write(r)
    BY <1>14 DEF Write
  <1>15. CASE Invite(r)
    BY <1>15 DEF Invite
  <1>16. CASE MatchInvitations(r)
    BY <1>16 DEF MatchInvitations, Match, RowsOf, Row
  <1>17. CASE RevokeInvitations(r)
    <2> HIDE DEF Tidy, Staged, Effect, Made
    <2> QED
      BY <1>17, ScanEffect DEF Scanning, RevokeInvitations
  <1>18. CASE InviteCommit(r)
    BY <1>18 DEF InviteCommit, Committed
  <1>19. CASE MailInvitation(r)
    BY <1>19 DEF MailInvitation
  <1>20. CASE RevokeUndelivered(r)
    BY <1>20 DEF RevokeUndelivered
  <1>21. CASE FindPending(r)
    BY <1>21 DEF FindPending
  <1>22. CASE RevokeCommit(r)
    BY <1>22 DEF RevokeCommit
  <1>23. CASE Accept(r)
    BY <1>23 DEF Accept, Match, RowsOf, Acceptable, Row
  <1>24. CASE LockInvitation(r)
    <2>1. CASE Reject(r)
      BY <1>24, <2>1 DEF LockInvitation
    <2>2. CASE ~Reject(r)
      <3>1. memo[r].matched = {Row("invitations", Call[r].invitation)}
        BY <1>24 DEF LockInvitation
      <3>2. pc[r] = "lockInvitation" /\ Acceptable(r) # {}
            /\ Lock(r, "findUser", RowsOf("invitations", Acceptable(r)))
        BY <1>24, <2>2 DEF LockInvitation
      <3>3. memo[r].matched \subseteq RowsOf("invitations", Acceptable(r))
        BY <3>1, <3>2 DEF RowsOf, Acceptable
      <3> HIDE DEF Tidy, Staged, Effect, Made
      <3> QED
        BY <1>24, <3>2, <3>3, ScanEffect DEF Scanning
    <2> QED
      BY <2>1, <2>2
  <1>25. CASE FindInvited(r)
    BY <1>25 DEF FindInvited, Match, UserRow, UserKey, Row
  <1>26. CASE LockInvited(r)
    <2>1. CASE Reject(r)
      BY <1>26, <2>1 DEF LockInvited
    <2>2. CASE ~Reject(r)
      <3>1. PICK u \in Invited(r) :
               /\ pc' = [pc EXCEPT ![r] = "checkMember"]
               /\ locks' = [locks EXCEPT ![r] = @ \union memo[r].matched]
               /\ memo' = [memo EXCEPT ![r] =
                              [memo[r] EXCEPT !.row = [u EXCEPT !.verified = TRUE],
                                              !.matched = {}]]
               /\ UNCHANGED <<met, tables>>
        BY <1>26, <2>2 DEF LockInvited
      <3>2. pc[r] = "lockUser" /\ Needs(r) = memo[r].matched
        BY <1>26 DEF LockInvited, Needs, Locking, RowByRow, AboutUser
      <3>3. /\ \A k \in locks'[r] : k \in locks[r] \/ k[1] \in {"users", "userKeys"}
            /\ pc'[r] = "checkMember" /\ memo'[r].matched = {}
        <4>1. \A k \in memo[r].matched : k[1] \in {"users", "userKeys"}
          BY <3>2
        <4>2. locks'[r] = locks[r] \union memo[r].matched
          BY <3>1
        <4> QED
          BY <3>1, <4>1, <4>2
      <3>4. /\ pc[r] = "lockUser"
            /\ \A k \in locks'[r] : Fits(k, "checkMember")
        <4>1. \A k \in locks[r] : Fits(k, "lockUser")
          BY <3>2
        <4> QED
          BY <3>2, <3>3, <4>1
      <3>5. Taken(r)
        <4>1. locks'[r] = locks[r] \union Needs(r)
          BY <3>1, <3>2
        <4>2. \A k \in Needs(r) : k[1] \in {"users", "userKeys"}
          BY <3>2
        <4> QED
          BY <3>2, <4>1, <4>2 DEF Unheld, RowByRow
      <3> HIDE DEF Taken
      <3> QED
        BY <1>26, <3>1, <3>2, <3>3, <3>4, <3>5
    <2> QED
      BY <2>1, <2>2
  <1>27. CASE CheckMember(r)
    BY <1>27 DEF CheckMember
  <1>28. CASE Join(r)
    BY <1>28, SMTT(60) DEF Join
  <1> QED
    BY <1>1, <1>2, <1>3, <1>4, <1>5, <1>6, <1>7, <1>8, <1>9, <1>10, <1>11, <1>12, <1>13,
             <1>14, <1>15, <1>16, <1>17, <1>18, <1>19, <1>20, <1>21, <1>22, <1>23,
             <1>24, <1>25, <1>26, <1>27, <1>28
             DEF GovernanceStep

\* What the statements of resources and imports do.
LEMMA ResourceEffect ==
    ASSUME Tidy, NEW r \in Made, Staged(r), ResourceStep(r)
    PROVE  Effect(r)
  <1> USE DEF Effect, Private, Tidy, Made, Staged, Fits, Aims, Ends, LinkSteps, Holding,
           AcceptSteps, Joining, Accepting, ImportSteps, BootstrapSteps, ScriptSteps,
           MailSteps, InviteSteps, Managing, LinkOps, ImportOps, Taken, Releasing, Changes, Follows,
           Settled, Answers, Goto, Remember, Answer, Blank, Read, ReadInto, Reject, tables,
           accounts, governance
  <1>1. CASE CreateProject(r)
    BY <1>1 DEF CreateProject, Creating
  <1>2. CASE CreateResource(r)
    BY <1>2 DEF CreateResource, Creating
  <1>3. CASE CreateSystem(r)
    BY <1>3 DEF CreateSystem, Creating
  <1>4. CASE CreateSystemVersion(r)
    BY <1>4 DEF CreateSystemVersion, Creating
  <1>5. CASE CreateReview(r)
    BY <1>5 DEF CreateReview, Creating
  <1>6. CASE CreateCommit(r)
    BY <1>6 DEF CreateCommit
  <1>7. CASE Scope(r)
    BY <1>7 DEF Scope
  <1>8. CASE Ground(r)
    BY <1>8 DEF Ground
  <1>9. CASE FindResource(r)
    BY <1>9 DEF FindResource
  <1>10. CASE InsertResource(r)
    BY <1>10 DEF InsertResource, Insert, Needs, Locking, RowByRow, Unheld, RowsOf, Row, Key,
             UserRow, OrganizationKey, ResourceKey
  <1>11. CASE FindVersion(r)
    BY <1>11 DEF FindVersion
  <1>12. CASE InsertVersion(r)
    BY <1>12 DEF InsertVersion, Insert, Needs, Locking, RowByRow, Unheld, RowsOf, Row, Key,
             UserRow, OrganizationKey, ResourceKey
  <1>13. CASE ImportCommit(r)
    BY <1>13 DEF ImportCommit
  <1> QED
    BY <1>1, <1>2, <1>3, <1>4, <1>5, <1>6, <1>7, <1>8, <1>9, <1>10, <1>11, <1>12, <1>13
             DEF ResourceStep

Step(r) == Begin(r) \/ Statement(r) \/ Crash(r) \/ Abort(r)

\* What any step of a request does; it takes no lock it has not waited for.
LEMMA StepEffect ==
    ASSUME Tidy, NEW r \in Made, Staged(r), Step(r)
    PROVE  Effect(r) /\ \A k \in locks'[r] \ locks[r] : Free(r, k)
  <1> USE DEF Effect, Private, Tidy, Made, Staged, Fits, Aims, Ends, LinkSteps, Holding,
           AcceptSteps, Joining, Accepting, ImportSteps, BootstrapSteps, ScriptSteps,
           MailSteps, InviteSteps, Managing, LinkOps, ImportOps, Taken, Releasing, Changes, Follows,
           Settled, Answers, Goto, Remember, Answer, Blank, Read, ReadInto, Reject, tables,
           accounts, governance
  <1>1. CASE Begin(r)
    <2>1. /\ Call[r].op \in Operations
          /\ Call[r].op \in Unsigned => "cookie" \notin DOMAIN Call[r]
      BY CallAssumption
    <2>2. /\ Entry(r) \notin Ends \union {"authorize"}
          /\ Entry(r) = "createOrganization" => FALSE
      BY <2>1, CallAssumption DEF Entry, Operations, Unsigned
    <2>3. /\ pc[r] = "ready" /\ pc' = [pc EXCEPT ![r] = Entry(r)]
          /\ UNCHANGED <<tables, memo, locks>>
      BY <1>1 DEF Begin
    <2>4. Staged(r)'
      BY <2>1, <2>2, <2>3 DEF Entry, Operations, Unsigned
    <2> HIDE DEF Staged
    <2> QED
      BY <1>1, <2>1, <2>2, <2>3, <2>4 DEF Entry, Operations, Unsigned
  <1>2. CASE Statement(r)
    <2>1. CASE Authenticate(r)
      BY <2>1 DEF Authenticate, Personal
    <2>2. CASE Authorize(r)
      <3>1. /\ Call[r].op \in Operations
            /\ Call[r].op \notin LinkOps \union {"accept", "bootstrap", "importDataset"}
            /\ Call[r].op \notin Personal
        BY <2>2, CallAssumption DEF Authorize
      <3> QED
        BY <2>2, <3>1 DEF Authorize, Operations, Unsigned, Personal
    <2> HIDE DEF Effect, Tidy, Staged, Made
    <2>3. Effect(r)
      BY <1>2, <2>1, <2>2, AccountEffect, GovernanceEffect, ResourceEffect DEF Statement
    <2>4. Taken(r) /\ Granted(r)
      BY <1>2, <2>3 DEF Statement, Effect
    <2> HIDE DEF Taken
    <2>5. \A k \in locks'[r] \ locks[r] : Free(r, k)
      BY <2>4 DEF Taken, Granted, Holders, Free
    <2> QED
      BY <2>3, <2>5
  <1>3. CASE Crash(r)
    BY <1>3 DEF Crash, Open
  <1>4. CASE Abort(r)
    <2>1. Needs(r) # {}
      BY <1>4 DEF Abort, Deadlocked, Holders
    <2>2. pc[r] \notin {"ready"} \union Answers
      BY <2>1 DEF Needs, Locking, RowByRow, AboutUser
    <2> QED
      BY <1>4, <2>2 DEF Abort
  <1> QED
    BY <1>1, <1>2, <1>3, <1>4 DEF Step

-----------------------------------------------------------------------------
(* Locks *)

\* No row or key is held by two transactions.
LocksExclusive == \A r, q \in Made : r # q => locks[r] \intersect locks[q] = {}

\* Whoever uses a cookie, link or invitation has got it.
AllKnown == \A r \in Made : pc[r] # "ready" => Known(r)

LocksInv ==
    /\ Tidy
    /\ \A r \in Made : Staged(r)
    /\ LocksExclusive
    /\ AllKnown

\* At the start nothing is locked.
LEMMA InitLocks == Init => LocksInv
  <1> SUFFICES ASSUME Init
               PROVE  LocksInv
    OBVIOUS
  <1>1. PICK w \in Workloads : pc = [r \in w |-> "ready"]
    BY DEF Init
  <1>2. Tidy
    BY <1>1, ServiceAssumption DEF Init, Tidy, Made, Blank
  <1>3. \A r \in Made : pc[r] = "ready" /\ locks[r] = {} /\ memo[r] = Blank
    BY <1>1 DEF Init, Made
  <1> QED
    BY <1>2, <1>3 DEF LocksInv, Staged, Aims, Blank, LinkSteps, Holding, AcceptSteps,
       Joining, Accepting, ImportSteps, BootstrapSteps, ScriptSteps, InviteSteps, Managing,
       Ends, LocksExclusive, AllKnown

\* What is known stays known: an answer is final.
LEMMA KnownStays ==
    ASSUME NEW a \in Made, Private(a), Settled(a), NEW r \in Made, Known(r)
    PROVE  Known(r)'
  <1> DEFINE Sent(q) ==
                 /\ q \in Made
                 /\ pc[q] \in Answers \union {"undelivered", "undeliveredInvitation"}
  <1>1. \A q : Sent(q) => Sent(q)'
    BY DEF Private, Settled
  <1> QED
    BY <1>1 DEF Known

\* A transaction takes the locks it has waited for, so nobody else has them.
LEMMA StepLocks ==
    ASSUME LocksInv, NEW a \in Made, Step(a)
    PROVE  LocksInv' /\ Effect(a)
  <1>1. Effect(a) /\ \A k \in locks'[a] \ locks[a] : Free(a, k)
    BY StepEffect DEF LocksInv
  <1>2. Private(a) /\ Tidy' /\ Staged(a)' /\ Taken(a) /\ Settled(a)
    BY <1>1 DEF Effect
  <1>3. \A r \in Made : Staged(r)'
    BY <1>2 DEF Private, LocksInv, Staged, Aims, Accepting
  <1>4. \A q \in Made \ {a} : locks'[a] \intersect locks'[q] = {}
    BY <1>1, <1>2 DEF LocksInv, LocksExclusive, Private, Free
  <1>5. LocksExclusive'
    BY <1>2, <1>4 DEF LocksInv, LocksExclusive, Private
  <1>6. AllKnown'
    <2> SUFFICES ASSUME NEW r \in Made, pc'[r] # "ready"
                 PROVE  Known(r)'
      BY <1>2 DEF AllKnown, Private
    <2>1. Known(r)
      <3>1. CASE r = a /\ Begin(a)
        BY <3>1 DEF Begin
      <3>2. CASE r = a /\ ~Begin(a)
        <4>1. pc[a] # "ready"
          BY <1>2, <3>2 DEF Settled
        <4> QED
          BY <3>2, <4>1 DEF LocksInv, AllKnown
      <3>3. CASE r # a
        BY <1>2, <3>3 DEF LocksInv, AllKnown, Private
      <3> QED
        BY <3>1, <3>2, <3>3
    <2> QED
      BY <1>2, <2>1, KnownStays
  <1> QED
    BY <1>1, <1>2, <1>3, <1>5, <1>6 DEF LocksInv, Private

\* Every row and key is locked by one transaction at a time, whatever the order in
\* which requests lock what they match, insert and update.
THEOREM LocksExclude == Spec => []LocksInv
  <1>1. LocksInv /\ [Next]_vars => LocksInv'
    <2>1. CASE Next
      BY <2>1, StepLocks DEF Next, Step
    <2>2. CASE UNCHANGED vars
      BY <2>2 DEF LocksInv, vars, Tidy, Staged, Aims, Accepting, LocksExclusive,
         AllKnown, Known, Made
    <2> QED
      BY <2>1, <2>2
  <1> QED
    BY <1>1, InitLocks, PTL DEF Spec

-----------------------------------------------------------------------------
(* Requests that are open at the same time *)

\* They have met.
AllMet == \A r, q \in Made : r # q /\ Open(r) /\ Open(q) => Met(r, q)

\* A request that begins meets whoever is open, and no step forgets it.
LEMMA Meeting ==
    ASSUME AllMet, NEW a \in Made, Effect(a)
    PROVE  AllMet' /\ met \subseteq met'
  <1>1. Private(a) /\ Settled(a) /\ (met' = met \/ Begin(a))
    BY DEF Effect, Changes
  <1>2. met \subseteq met'
    BY <1>1 DEF Begin
  <1>3. \A r \in Made \ {a} : Open(r)' <=> Open(r)
    BY <1>1 DEF Private, Open
  <1>4. \A q \in Made \ {a} : Open(a)' /\ Open(q) => {a, q} \in met'
    <2>1. CASE pc[a] = "ready"
      BY <1>1, <2>1 DEF Settled, Begin
    <2>2. CASE pc[a] # "ready"
      BY <1>1, <1>2, <2>2 DEF Settled, Open, AllMet, Met
    <2> QED
      BY <2>1, <2>2
  <1>5. \A r, q : {r, q} = {q, r}
    OBVIOUS
  <1>6. \A r, q \in Made \ {a} : r # q /\ Open(r)' /\ Open(q)' => {r, q} \in met'
    BY <1>2, <1>3 DEF AllMet, Met
  <1>7. AllMet'
    <2> SUFFICES ASSUME NEW r \in Made, NEW q \in Made, r # q, Open(r)', Open(q)'
                 PROVE  {r, q} \in met'
      BY <1>1 DEF Private, AllMet, Met
    <2> QED
      BY <1>3, <1>4, <1>5, <1>6
  <1> QED
    BY <1>2, <1>7

-----------------------------------------------------------------------------
(* Links and invitations *)

LinkShape(l) == DOMAIN l = {"id", "kind", "email", "used", "fresh"}
InvitationShape(i) == DOMAIN i = {"id", "org", "email", "role", "accepted", "revoked", "fresh"}

\* A row keeps its id, and what happened to it once.
Identified ==
    /\ \A l \in links : LinkShape(l)
    /\ \A i \in invitations :
          /\ InvitationShape(i)
          /\ i.id \in Requests =>
                /\ i.id \in Made
                /\ pc[i.id] \in {"mailInvitation", "undeliveredInvitation"} \union Answers
    /\ \A i, j \in invitations : i.id = j.id => i = j

\* Who has found an invitation finds it again.
Invites(r) == \E i \in invitations : i.id = Call[r].invitation
Offered(r) == Accepting(r) \/ pc[r] = "lockInvitation" => Invites(r)

\* What a request has used is used, and nobody else is about to use it.
UsedUp(r) ==
    pc[r] = "done" =>
        /\ Call[r].op \in LinkOps => \A l \in links : l.id = Call[r].link => l.used
        /\ Call[r].op = "accept" =>
              /\ Invites(r)
              /\ \A i \in invitations : i.id = Call[r].invitation => i.accepted
Spare(r, q) ==
    pc[q] = "done" =>
        /\ pc[r] \in Holding /\ Call[q].op \in LinkOps => Call[r].link # Call[q].link
        /\ Accepting(r) /\ Call[q].op = "accept" => Call[r].invitation # Call[q].invitation

UseInv ==
    /\ LocksInv
    /\ Identified
    /\ \A r \in Made : Offered(r) /\ UsedUp(r)
    /\ \A r, q \in Made : Spare(r, q)
    /\ SingleUse

\* At the start nothing has been used.
LEMMA InitUse == Init => UseInv
  <1> SUFFICES ASSUME Init
               PROVE  UseInv
    OBVIOUS
  <1>1. PICK w \in Workloads : pc = [r \in w |-> "ready"]
    BY DEF Init
  <1>2. Identified
    BY ServiceAssumption, SeedAssumption
       DEF Init, Identified, LinkShape, InvitationShape, Links, Invitations
  <1>3. \A r \in Made : pc[r] = "ready"
    BY <1>1 DEF Made
  <1> QED
    BY <1>2, <1>3, InitLocks DEF UseInv, Offered, UsedUp, Spare, SingleUse, Done, Accepting,
       Holding, Joining

\* k is what l has become.
SameLink(l, k) ==
    l.id = k.id /\ l.kind = k.kind /\ l.email = k.email /\ (l.used => k.used)

\* UPDATE keeps the ids and takes nothing back.
LEMMA UsedRows ==
    ASSUME NEW S, NEW C \in SUBSET S, \A l \in S : LinkShape(l)
    PROVE  \A k \in Rewritten(S, C, Used) :
               LinkShape(k) /\ \E l \in S : SameLink(l, k)
  <1> SUFFICES ASSUME NEW k \in Rewritten(S, C, Used)
               PROVE  LinkShape(k) /\ \E l \in S : SameLink(l, k)
    OBVIOUS
  <1>1. CASE k \in S
    BY <1>1 DEF SameLink
  <1>2. CASE k \notin S
    <2>1. PICK l \in C : k = [l EXCEPT !.used = TRUE]
      BY <1>2 DEF Rewritten, Used
    <2> QED
      BY <2>1 DEF LinkShape, SameLink
  <1> QED
    BY <1>1, <1>2

\* A link is used for good; a new one has the id of the request for it.
LEMMA LinksStep ==
    ASSUME UseInv, NEW a \in Made, Effect(a)
    PROVE  /\ \A l \in links' : LinkShape(l)
           /\ \A k \in links' : \/ k.id = a /\ pc[a] = "insertLink"
                                \/ \E l \in links : SameLink(l, k)
  <1>1. \A C \in SUBSET links : \A k \in Rewritten(links, C, Used) :
            LinkShape(k) /\ \E l \in links : SameLink(l, k)
    BY UsedRows DEF UseInv, Identified
  <1>2. Locked(a, "links", links) \in SUBSET links
    BY DEF Locked
  <1>3. CASE links' = links
    BY <1>3 DEF UseInv, Identified, SameLink
  <1>4. CASE IssueCommit(a)
    <2>1. LinkShape(NewLink(a)) /\ NewLink(a).id = a
      BY DEF LinkShape, NewLink
    <2> QED
      BY <1>1, <1>2, <1>4, <2>1 DEF IssueCommit
  <1>5. CASE RetireUndelivered(a)
    BY <1>1, <1>5 DEF RetireUndelivered
  <1>6. CASE UseLink(a)
    BY <1>1, <1>2, <1>6 DEF UseLink
  <1> QED
    BY <1>3, <1>4, <1>5, <1>6 DEF Effect, Changes

\* So is an invitation accepted.
InvitationsKept(a) ==
    /\ \A k \in invitations' : InvitationShape(k)
    /\ \A k \in invitations' :
          \/ k.id = a /\ pc[a] = "insertInvitation" /\ pc'[a] = "mailInvitation"
          \/ \E i \in invitations : i.id = k.id /\ (i.accepted => k.accepted)
    /\ \A i \in invitations : \E k \in invitations' : k.id = i.id
    /\ \A i, j \in invitations' : i.id = j.id => i = j

\* What an UPDATE of some invitations leaves.
Updated(S, T) ==
    /\ \A k \in T :
          InvitationShape(k) /\ \E i \in S : i.id = k.id /\ (i.accepted => k.accepted)
    /\ \A i \in S : \E k \in T : k.id = i.id
    /\ \A i, j \in T : i.id = j.id => i = j

\* Revocation keeps the invitations, and takes no acceptance back.
LEMMA RevokedRows ==
    ASSUME UseInv, NEW C \in SUBSET invitations
    PROVE  Updated(invitations, Rewritten(invitations, C, Revoked))
  <1> DEFINE T == Rewritten(invitations, C, Revoked)
  <1>1. \A k \in T : \E i \in invitations :
            \/ i \notin C /\ k = i
            \/ i \in C /\ k = [i EXCEPT !.revoked = TRUE]
    BY DEF Rewritten, Revoked
  <1>2. \A i \in invitations :
            (i \notin C => i \in T) /\ (i \in C => [i EXCEPT !.revoked = TRUE] \in T)
    BY DEF Rewritten, Revoked
  <1> DEFINE Now(i) == IF i \in C THEN [i EXCEPT !.revoked = TRUE] ELSE i
  <1>3. \A i \in invitations :
            /\ InvitationShape(Now(i)) /\ Now(i).id = i.id
            /\ i.accepted => Now(i).accepted
    BY DEF UseInv, Identified, InvitationShape
  <1>4. /\ \A k \in T : \E i \in invitations : k = Now(i)
        /\ \A i \in invitations : Now(i) \in T
    BY <1>1, <1>2
  <1> HIDE DEF T, Now
  <1>5. Updated(invitations, T)
    BY <1>3, <1>4 DEF UseInv, Identified, Updated
  <1> QED
    BY <1>5 DEF T

\* No statement forgets an invitation or an acceptance, and a new invitation has the id
\* of the request for it.
LEMMA InvitationsStep ==
    ASSUME UseInv, NEW a \in Made, Effect(a)
    PROVE  InvitationsKept(a)
  <1>1. CASE invitations' = invitations
    BY <1>1 DEF UseInv, Identified, InvitationsKept
  <1>2. CASE InviteCommit(a)
    <2> DEFINE T == Rewritten(invitations, Locked(a, "invitations", invitations), Revoked)
    <2>1. Updated(invitations, T)
      BY RevokedRows DEF Locked
    <2>2. a \in Requests /\ pc[a] = "insertInvitation"
      BY <1>2 DEF InviteCommit, UseInv, LocksInv, Tidy
    <2>3. \A i \in invitations : i.id # a
      BY <2>2 DEF Answers, UseInv, Identified
    <2>4. pc'[a] = "mailInvitation"
      BY <1>2 DEF InviteCommit, Committed, Goto, Made
    <2>5. InvitationShape(NewInvitation(a)) /\ NewInvitation(a).id = a
      BY DEF InvitationShape, NewInvitation
    <2>6. invitations' = T \union {NewInvitation(a)}
      BY <1>2 DEF InviteCommit
    <2> HIDE DEF T
    <2> QED
      BY <2>1, <2>2, <2>3, <2>4, <2>5, <2>6 DEF Updated, InvitationsKept
  <1>3. CASE RevokeUndelivered(a) \/ RevokeCommit(a)
    <2>1. Updated(invitations, invitations')
      BY <1>3, RevokedRows DEF RevokeUndelivered, RevokeCommit
    <2> QED
      BY <2>1 DEF Updated, InvitationsKept
  <1>4. CASE Join(a)
    <2>1. CASE invitations' = invitations
      BY <2>1 DEF UseInv, Identified, InvitationsKept
    <2>2. CASE invitations' # invitations
      <3> DEFINE j == InvitationOf(a)
                 k == [j EXCEPT !.accepted = TRUE]
      <3>1. j \in invitations
        <4>1. pc[a] = "join"
          BY <1>4 DEF Join
        <4>2. Invites(a)
          BY <4>1 DEF UseInv, Offered, Accepting, Joining
        <4> QED
          BY <4>2 DEF Invites, InvitationOf
      <3>2. invitations' = (invitations \ {j}) \union {k}
        <4>1. {[i EXCEPT !.accepted = TRUE] : i \in {j}} = {k}
          OBVIOUS
        <4>2. ~ Reject(a)
          BY <2>2 DEF Reject, tables, governance
        <4> QED
          BY <1>4, <4>1, <4>2 DEF Join, Rewritten
      <3>3. InvitationShape(k) /\ k.id = j.id /\ k.accepted
        BY <3>1 DEF UseInv, Identified, InvitationShape
      <3> HIDE DEF j, k
      <3> QED
        BY <3>1, <3>2, <3>3 DEF UseInv, Identified, InvitationsKept
    <2> QED
      BY <2>1, <2>2
  <1> QED
    BY <1>1, <1>2, <1>3, <1>4 DEF Effect, Changes

\* Every step keeps what is used used, and who is about to use it alone with it.
LEMMA StepUse ==
    ASSUME UseInv, NEW a \in Made, Step(a)
    PROVE  UseInv'
  <1>1. LocksInv' /\ Effect(a)
    BY StepLocks DEF UseInv
  <1>2. InvitationsKept(a)
    BY <1>1, InvitationsStep
  <1>3. Private(a) /\ Settled(a) /\ Changes(a)
    BY <1>1 DEF Effect
  <1>4. Identified'
    <2>1. \A l \in links' : LinkShape(l)
      BY <1>1, LinksStep
    <2>2. \A k \in invitations' : k.id \in Requests =>
              /\ k.id \in Made'
              /\ pc'[k.id] \in {"mailInvitation", "undeliveredInvitation"} \union Answers
      BY <1>2, <1>3 DEF UseInv, Identified, InvitationsKept, Private, Settled
    <2> QED
      BY <1>2, <2>1, <2>2 DEF Identified, InvitationsKept
  <1>5. \A r \in Made : Invites(r) => Invites(r)'
    BY <1>2 DEF Invites, InvitationsKept
  <1>6. \A r \in Made : Offered(r)'
    <2>1. Acceptable(a) # {} => Invites(a)
      BY DEF Acceptable, Invites
    <2>2. LockInvitation(a) => pc[a] = "lockInvitation"
      BY DEF LockInvitation
    <2>3. Offered(a)'
      BY <1>3, <1>5, <2>1, <2>2 DEF UseInv, Offered, Changes
    <2>4. \A r \in Made \ {a} : Accepting(r)' = Accepting(r) /\ pc'[r] = pc[r]
      BY <1>3 DEF Private, Accepting
    <2> QED
      BY <1>5, <2>3, <2>4 DEF UseInv, Offered
  <1>7. \A r \in Made : UsedUp(r)'
    <2>1. SUFFICES ASSUME NEW r \in Made, pc'[r] = "done"
                   PROVE  UsedUp(r)'
      BY DEF UsedUp
    <2>2. CASE r = a /\ Call[r].op \in LinkOps
      <3>1. UseLink(a) /\ pc[a] = "useLink"
        BY <1>3, <2>1, <2>2 DEF Changes, UseLink
      <3>2. Row("links", Call[a].link) \in locks[a]
        BY <3>1 DEF UseInv, LocksInv, Staged, Holding
      <3>3. \A l \in links' : l.id = Call[a].link => l.used
        BY <3>1, <3>2 DEF UseLink, Locked, Rewritten, Used, UseInv, Identified, LinkShape
      <3> QED
        BY <2>2, <3>3 DEF UsedUp, LinkOps
    <2>3. CASE r = a /\ Call[r].op = "accept"
      <3> DEFINE j == InvitationOf(a)
                 k == [j EXCEPT !.accepted = TRUE]
      <3>1. Join(a) /\ pc[a] = "join"
        BY <1>3, <2>1, <2>3 DEF Changes, Join
      <3>2. Invites(a)
        BY <3>1 DEF UseInv, Offered, Accepting, Joining
      <3>3. j \in invitations /\ j.id = Call[a].invitation
        BY <3>2 DEF Invites, InvitationOf
      <3>4. invitations' = (invitations \ {j}) \union {k}
        <4>1. {[i EXCEPT !.accepted = TRUE] : i \in {j}} = {k}
          OBVIOUS
        <4>2. ~ Reject(a)
          BY <2>1, <2>3 DEF Reject, Answer, Goto, Made
        <4> QED
          BY <3>1, <4>1, <4>2 DEF Join, Rewritten
      <3>5. k.id = j.id /\ k.accepted
        BY <3>3 DEF UseInv, Identified, InvitationShape
      <3>6. \A i \in invitations' : i.id = Call[a].invitation => i.accepted
        <4> HIDE DEF j, k
        <4> QED
          BY <3>3, <3>4, <3>5 DEF UseInv, Identified
      <3> QED
        BY <1>5, <2>3, <3>2, <3>6 DEF UsedUp, LinkOps
    <2>4. CASE r = a /\ Call[r].op \notin LinkOps \union {"accept"}
      BY <2>4 DEF UsedUp
    <2>5. CASE r # a
      <3>1. UsedUp(r) /\ pc[r] = "done" /\ Known(r)
        BY <1>3, <2>1, <2>5 DEF UseInv, Private, LocksInv, AllKnown
      <3>2. ASSUME Call[r].op \in LinkOps, NEW k \in links', k.id = Call[r].link
            PROVE  k.used
        <4>1. ~ (k.id = a /\ pc[a] = "insertLink")
          <5>1. "link" \in DOMAIN Call[r] /\ a \in Requests
            BY <3>2, CallAssumption DEF LinkOps, UseInv, LocksInv, Tidy
          <5> QED
            BY <3>1, <3>2, <5>1 DEF Known, Answers
        <4> QED
          BY <1>1, <3>1, <3>2, <4>1, LinksStep DEF UsedUp, SameLink
      <3>3. ASSUME Call[r].op = "accept", NEW k \in invitations', k.id = Call[r].invitation
            PROVE  k.accepted
        <4>1. ~ (k.id = a /\ pc[a] = "insertInvitation")
          <5>1. "invitation" \in DOMAIN Call[r] /\ a \in Requests
            BY <3>3, CallAssumption DEF UseInv, LocksInv, Tidy
          <5> QED
            BY <3>1, <3>3, <5>1 DEF Known, Answers
        <4> QED
          BY <1>2, <3>1, <3>3, <4>1 DEF UsedUp, InvitationsKept
      <3> QED
        BY <1>5, <3>1, <3>2, <3>3 DEF UsedUp
    <2> QED
      BY <2>2, <2>3, <2>4, <2>5
  <1>8. \A r, q \in Made : Spare(r, q)'
    <2> SUFFICES ASSUME NEW r \in Made, NEW q \in Made, pc'[q] = "done"
                 PROVE  Spare(r, q)'
      BY DEF Spare
    <2>1. ASSUME pc'[r] \in Holding, Call[q].op \in LinkOps, Call[r].link = Call[q].link
          PROVE  FALSE
      <3> DEFINE lock == Row("links", Call[q].link)
      <3>1. r # q
        BY <2>1 DEF Holding
      <3>2. CASE r = a
        <4>1. pc[q] = "done" /\ UsedUp(q) /\ Spare(r, q)
          BY <1>3, <3>1, <3>2 DEF Private, UseInv
        <4>2. LockLink(r)
          BY <1>3, <2>1, <3>2, <4>1 DEF Changes, Spare
        <4>3. Valid(r) = {}
          BY <2>1, <4>1 DEF Valid, UsedUp
        <4> QED
          BY <2>1, <3>2, <4>2, <4>3 DEF LockLink, Reject, Answer, Goto, Holding, Made
      <3>3. CASE r # a /\ q = a
        <4>1. lock \in locks[r]
          BY <1>3, <2>1, <3>3 DEF Private, UseInv, LocksInv, Staged
        <4>2. pc[q] = "useLink"
          BY <1>3, <2>1, <3>3 DEF Changes, UseLink
        <4>3. lock \in locks[q]
          BY <2>1, <4>2 DEF UseInv, LocksInv, Staged, Holding
        <4> QED
          BY <3>1, <4>1, <4>3 DEF UseInv, LocksInv, LocksExclusive
      <3>4. CASE r # a /\ q # a
        BY <1>3, <2>1, <3>4 DEF Private, UseInv, Spare
      <3> QED
        BY <3>2, <3>3, <3>4
    <2>2. ASSUME Accepting(r)', Call[q].op = "accept", Call[r].invitation = Call[q].invitation
          PROVE  FALSE
      <3> DEFINE lock == Row("invitations", Call[q].invitation)
      <3>1. r # q
        BY <2>2 DEF Accepting, Joining
      <3>2. CASE r = a
        <4>1. pc[q] = "done" /\ UsedUp(q) /\ Spare(r, q)
          BY <1>3, <3>1, <3>2 DEF Private, UseInv
        <4>2. LockInvitation(r)
          BY <1>3, <2>2, <3>2, <4>1 DEF Changes, Spare
        <4>3. Acceptable(r) = {}
          BY <2>2, <4>1 DEF Acceptable, Pending, UsedUp, LinkOps
        <4> QED
          BY <2>2, <3>2, <4>2, <4>3
             DEF LockInvitation, Reject, Answer, Goto, Accepting, Joining, Made
      <3>3. CASE r # a /\ q = a
        <4>1. lock \in locks[r]
          BY <1>3, <2>2, <3>3 DEF Private, UseInv, LocksInv, Staged, Accepting
        <4>2. pc[q] = "join"
          BY <1>3, <2>2, <3>3 DEF Changes, Join
        <4>3. lock \in locks[q]
          BY <2>2, <4>2 DEF UseInv, LocksInv, Staged, Accepting, Joining
        <4> QED
          BY <3>1, <4>1, <4>3 DEF UseInv, LocksInv, LocksExclusive
      <3>4. CASE r # a /\ q # a
        BY <1>3, <2>2, <3>4 DEF Private, UseInv, Spare, Accepting
      <3> QED
        BY <3>2, <3>3, <3>4
    <2> QED
      BY <2>1, <2>2 DEF Spare
  <1>9. SingleUse'
    <2> SUFFICES ASSUME NEW op \in {"verify", "reset", "accept"},
                        NEW r \in Done(op)', NEW q \in Done(op)', r # q
                 PROVE  IF op = "accept" THEN Call[r].invitation # Call[q].invitation
                        ELSE Call[r].link # Call[q].link
      BY DEF SingleUse
    <2>1. r \in Made /\ q \in Made /\ pc'[r] = "done" /\ pc'[q] = "done"
          /\ Call[r].op = op /\ Call[q].op = op
      BY <1>3 DEF Done, Private
    <2>2. ASSUME NEW s \in {r, q}, NEW t \in {r, q}, s = a, t # a
          PROVE  IF op = "accept" THEN Call[s].invitation # Call[t].invitation
                 ELSE Call[s].link # Call[t].link
      <3>1. pc[t] = "done" /\ Spare(s, t)
        BY <1>3, <2>1, <2>2 DEF Private, UseInv
      <3>2. CASE op = "accept"
        <4>1. pc[s] = "join"
          BY <1>3, <2>1, <2>2, <3>2 DEF Changes, Join
        <4> QED
          BY <2>1, <3>1, <3>2, <4>1 DEF Spare, Accepting, Joining
      <3>3. CASE op # "accept"
        <4>1. pc[s] = "useLink"
          BY <1>3, <2>1, <2>2, <3>3 DEF Changes, UseLink, LinkOps
        <4> QED
          BY <2>1, <3>1, <3>3, <4>1 DEF Spare, Holding, LinkOps
      <3> QED
        BY <3>2, <3>3
    <2>3. CASE r # a /\ q # a
      BY <1>3, <2>1, <2>3 DEF Private, UseInv, SingleUse, Done
    <2> QED
      BY <2>2, <2>3
  <1> QED
    BY <1>1, <1>3, <1>4, <1>6, <1>7, <1>8, <1>9 DEF UseInv, Private

\* A step that changes nothing keeps it too.
LEMMA UseStutter ==
    ASSUME UseInv, UNCHANGED vars
    PROVE  UseInv'
  <1>1. LocksInv'
    BY DEF UseInv, LocksInv, vars, Tidy, Staged, Aims, Accepting, LocksExclusive,
       AllKnown, Known, Made
  <1> QED
    BY <1>1 DEF UseInv, vars, Identified, Offered, Invites, UsedUp, Spare, Accepting,
       SingleUse, Done, Made

\* SingleUse: however many requests present one link or one invitation at the same
\* time, one of them has the effect.  The request that has it holds the row from the
\* moment it found it unused until it commits it used.
THEOREM UsedOnce == Spec => []SingleUse
  <1>1. UseInv /\ [Next]_vars => UseInv'
    <2>1. CASE Next
      BY <2>1, StepUse DEF Next, Step
    <2>2. CASE UNCHANGED vars
      BY <2>2, UseStutter
    <2> QED
      BY <2>1, <2>2
  <1>2. UseInv => SingleUse
    BY DEF UseInv
  <1> QED
    BY <1>1, <1>2, InitUse, PTL DEF Spec
=============================================================================
