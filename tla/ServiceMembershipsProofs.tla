--------------------- MODULE ServiceMembershipsProofs ----------------------
(***************************************************************************)
(* Theorems about memberships and what locks them, for every database the  *)
(* service starts with and every set of requests: an organization keeps an *)
(* Owner, and whoever waits in a circle waits for a rival.                 *)
(***************************************************************************)
EXTENDS ServiceRacesProofs, FiniteSetTheorems

-----------------------------------------------------------------------------
(* Memberships *)

MemberShape(m) == DOMAIN m = {"id", "org", "email", "role"}
OneMember == \A m, n \in memberships : m.id = n.id => m = n

\* A membership has the id of the request that made it, which has committed it.
Joins == {"registerCommit", "organizationCommit", "bootstrapCommit", "addCommit", "join"}
Joined(id) ==
    id \in Requests => id \in Made /\ pc[id] \in MailSteps \union Answers

\* The target of a request is, or was, a member of its organization.
Targeted(r) ==
    pc[r] \in Managing =>
        /\ Joined(memo[r].row.id)
        /\ \A m \in memberships : m.id = memo[r].row.id => m.org = Call[r].org

\* What a request has found of the memberships of its organization or has locked.
Members(r) == locks[r] \union IF pc[r] = "lockOwners" THEN memo[r].matched ELSE {}

\* A membership stays while it is locked, and who locks those of the organization has
\* the one it will write.
Locks(r) ==
    /\ \A k \in locks[r] : k[1] = "memberships" =>
           \E m \in memberships : k = Row("memberships", m.id)
    /\ pc[r] = "lockOwners" => \A m \in memberships :
           m.id = memo[r].row.id => Row("memberships", m.id) \in Members(r)
    /\ pc[r] = "countOwners" \/ (pc[r] = "write" /\ locks[r] # {}) =>
           \A m \in memberships :
               m.id = memo[r].row.id => Row("memberships", m.id) \in locks[r]

\* Unique keys are locked for what is inserted, a resource before its version.
Versions == {"catalogVersion", "datasetVersion"}
Keys(r) ==
    /\ \A k \in locks[r] : k[1] = "unique" =>
           /\ k[2][1] \in {"organization", "membership", "catalog", "dataset"} \union Versions
           /\ k[2][1] = "membership" =>
                  /\ pc[r] \in {"bootstrapCommit", "addCommit"}
                  /\ k = MembershipKey(Call[r].org, Call[r].email)
           /\ pc[r] \in {"findVersion", "insertVersion"} => k[2][1] \notin Versions
    /\ pc[r] = "insertResource" => TableOf(memo[r].row) \in {"catalog", "dataset"}
    /\ pc[r] = "insertVersion" => TableOf(memo[r].row) \in Versions

MembersInv ==
    /\ LocksInv
    /\ \A m \in memberships : MemberShape(m) /\ Joined(m.id)
    /\ OneMember
    /\ \A r \in Made : Targeted(r) /\ Locks(r) /\ Keys(r)

\* At the start nothing is locked.
LEMMA InitMembers == Init => MembersInv
  <1> SUFFICES ASSUME Init
               PROVE  MembersInv
    OBVIOUS
  <1>1. PICK w \in Workloads : pc = [r \in w |-> "ready"]
    BY DEF Init
  <1>2. \A r \in Made : pc[r] = "ready" /\ locks[r] = {}
    BY <1>1 DEF Made, Init
  <1>3. OneMember /\ \A m \in memberships : MemberShape(m) /\ Joined(m.id)
    BY ServiceAssumption, SeedAssumption
       DEF Init, OneMember, MemberShape, Memberships, Joined
  <1> QED
    BY <1>2, <1>3, InitLocks DEF MembersInv, Targeted, Managing, Locks, Keys

-----------------------------------------------------------------------------
(* Every step of a membership *)

\* m keeps its id, its organization and its email.
Lasts(m, rows) == \E n \in rows : n.id = m.id /\ n.org = m.org /\ n.email = m.email

\* A membership is added by a request that then has joined,
Entered(a, m) ==
    LET New(email, role) == NewMember(a, OrgOf(a), email, role)
    IN  \/ pc[a] = "registerCommit" /\ pc'[a] = "issue" /\ m = New(Call[a].email, "OWNER")
        \/ pc[a] = "organizationCommit" /\ pc'[a] = "done" /\ m = New(memo[a].row.email, "OWNER")
        \/ pc[a] = "bootstrapCommit" /\ pc'[a] = "done" /\ m = New(Call[a].email, "OWNER")
        \/ pc[a] = "addCommit" /\ pc'[a] = "done" /\ m = New(Call[a].email, Call[a].role)
        \/ /\ pc[a] = "join" /\ pc'[a] = "done"
           /\ m = New(memo[a].row.email, InvitationOf(a).role)
Added(a, m) ==
    /\ m.id = a /\ pc[a] \in Joins /\ pc'[a] \in MailSteps \union Answers
    /\ Entered(a, m)

\* Each statement that adds a membership adds one of its own.
LEMMA AddStep ==
    ASSUME MembersInv, NEW a \in Made, Step(a),
           \/ RegisterCommit(a) \/ OrganizationCommit(a) \/ BootstrapCommit(a)
           \/ AddCommit(a) \/ Join(a)
    PROVE  \/ memberships' = memberships
           \/ \E m : /\ memberships' = memberships \union {m}
                     /\ MemberShape(m) /\ Added(a, m)
  <1> USE DEF Joins, MailSteps, Answers, MemberShape, Added, Entered, NewMember, Answer, Reject,
              Goto, tables, governance, Committed, MembersInv, LocksInv, Tidy, Made
  <1>6. Staged(a) /\ (Call[a].op # "accept" => OrgOf(a) = Call[a].org)
    BY DEF OrgOf
  <1>1. CASE RegisterCommit(a)
    BY <1>1, <1>6 DEF RegisterCommit, Staged
  <1>2. CASE OrganizationCommit(a)
    BY <1>2, <1>6 DEF OrganizationCommit, Staged
  <1>3. CASE BootstrapCommit(a)
    BY <1>3, <1>6 DEF BootstrapCommit, Staged, BootstrapSteps
  <1>4. CASE AddCommit(a)
    BY <1>4, <1>6 DEF AddCommit, Staged
  <1>5. CASE Join(a)
    <2> DEFINE new == NewMember(a, OrgOf(a), memo[a].row.email, InvitationOf(a).role)
    <2>1. /\ pc[a] = "join" /\ pc'[a] \in Answers
          /\ \/ memberships' = memberships
             \/ pc'[a] = "done" /\ memberships' = memberships \union {new}
      BY <1>5 DEF Join
    <2>2. MemberShape(new) /\ new.id = a
      OBVIOUS
    <2>3. CASE pc'[a] = "done" /\ memberships' = memberships \union {new}
      <3>1. Entered(a, new)
        BY <2>1, <2>3
      <3> HIDE DEF new, Entered
      <3> QED
        BY <2>1, <2>2, <2>3, <3>1
    <2> QED
      BY <2>1, <2>3
  <1> QED
    BY <1>1, <1>2, <1>3, <1>4, <1>5

\* or its role is changed, or it is removed, by who holds it alone.
LEMMA WriteStep ==
    ASSUME MembersInv, NEW a \in Made, Write(a)
    PROVE  /\ \A m \in memberships' : MemberShape(m) /\ Lasts(m, memberships)
           /\ OneMember'
           /\ \A m \in memberships : Lasts(m, memberships') \/ m.id = memo[a].row.id
  <1> DEFINE found == {m \in memberships : m.id = memo[a].row.id}
             W(m) == [m EXCEPT !.role = Call[a].role]
  <1>1. CASE memberships' = memberships
    BY <1>1 DEF MembersInv, OneMember, Lasts
  <1>2. CASE memberships' = memberships \ found
    BY <1>2 DEF MembersInv, OneMember, Lasts
  <1>3. CASE memberships' = (memberships \ found) \union {W(m) : m \in found}
    <2>1. \A m \in memberships : /\ W(m).id = m.id /\ W(m).org = m.org
                                  /\ W(m).email = m.email /\ MemberShape(W(m))
      BY DEF MembersInv, MemberShape
    <2>2. \A m \in memberships : m \in found \/ m \in memberships'
      BY <1>3
    <2>3. \A m \in found : W(m) \in memberships'
      BY <1>3
    <2> HIDE DEF W
    <2> QED
      BY <1>3, <2>1, <2>2, <2>3 DEF MembersInv, OneMember, Lasts
  <1> QED
    BY <1>1, <1>2, <1>3 DEF Write, Rewritten, tables, governance

\* Who joins has not joined before.
LEMMA JoinedStays ==
    ASSUME NEW a \in Made, a \in Requests, Private(a), Settled(a), NEW id, Joined(id)
    PROVE  Joined(id)' /\ (pc[a] \in Joins => id # a)
  <1>1. id \in Requests => id \in Made' /\ pc'[id] \in MailSteps \union Answers
    BY DEF Joined, Private, Settled
  <1>2. a \in Requests /\ pc[a] \in Joins => id # a
    BY DEF Joined, Joins, MailSteps, Answers
  <1> QED
    BY <1>1, <1>2 DEF Joined

\* What becomes of the memberships: one that goes is locked by nobody.
LEMMA MembersStep ==
    ASSUME MembersInv, NEW a \in Made, Step(a)
    PROVE  /\ \A m \in memberships' :
                  MemberShape(m) /\ (Lasts(m, memberships) \/ Added(a, m))
           /\ \A m \in memberships' : Joined(m.id)'
           /\ OneMember'
           /\ memberships' = memberships \/ locks'[a] = {}
           /\ \A q \in Made \ {a}, m \in memberships :
                  Row("memberships", m.id) \in locks[q] => Lasts(m, memberships')
  <1>1. /\ Private(a) /\ Settled(a) /\ Changes(a) /\ Tidy /\ Tidy'
        /\ a \in Requests
    BY StepLocks DEF MembersInv, LocksInv, Effect, Tidy
  <1>2. \A m \in memberships : /\ MemberShape(m) /\ Lasts(m, memberships) /\ Joined(m.id)'
                               /\ pc[a] \in Joins => m.id # a
    BY <1>1, JoinedStays DEF MembersInv, Lasts
  <1>3. CASE memberships' = memberships
    BY <1>2, <1>3 DEF MembersInv, OneMember
  <1>4. CASE /\ memberships' # memberships
             /\ \/ RegisterCommit(a) \/ OrganizationCommit(a) \/ BootstrapCommit(a)
                \/ AddCommit(a) \/ Join(a)
    <2>1. PICK m : /\ memberships' = memberships \union {m}
                   /\ MemberShape(m) /\ Added(a, m)
      BY <1>4, AddStep
    <2>2. Joined(m.id)'
      BY <1>1, <2>1 DEF Joined, Added, Private
    <2>3. OneMember'
      BY <1>2, <2>1 DEF MembersInv, OneMember, Added
    <2>4. locks'[a] = {}
      BY <1>1, <1>4 DEF RegisterCommit, OrganizationCommit, BootstrapCommit, AddCommit, Join,
         Committed, Answer, Reject, tables, governance, Tidy
    <2> QED
      BY <1>2, <2>1, <2>2, <2>3, <2>4 DEF Lasts
  <1>5. CASE memberships' # memberships /\ Write(a)
    <2>1. locks'[a] = {} /\ Row("memberships", memo[a].row.id) \in Needs(a)
      BY <1>1, <1>5 DEF Write, Answer, tables, governance, Tidy, Needs, Locking, RowByRow,
         AboutUser
    <2>2. Granted(a)
      BY <1>5 DEF Step, Begin, Crash, Abort, Statement, tables, governance
    <2>3. \A m \in memberships' : MemberShape(m) /\ Lasts(m, memberships) /\ Joined(m.id)'
      BY <1>2, <1>5, WriteStep DEF Lasts
    <2> QED
      BY <1>5, <2>1, <2>2, <2>3, WriteStep DEF Granted, Holders, RowByRow, Write
  <1> QED
    BY <1>1, <1>3, <1>4, <1>5 DEF Changes

\* The memberships are locked row by row.
LEMMA OwnersLocked ==
    ASSUME MembersInv, NEW a \in Made, LockOwners(a)
    PROVE  /\ pc[a] = "lockOwners" /\ pc'[a] \in {"lockOwners", "countOwners"}
           /\ Scans(a, "countOwners", MembershipRows(Call[a].org))
           /\ memo'[a].row = memo[a].row /\ memberships' = memberships
           /\ \A k \in Members(a) : k \in MembershipRows(Call[a].org) => k \in Members(a)'
           /\ \A k \in locks'[a] : k \in locks[a] \/ k \in MembershipRows(Call[a].org)
  <1>1. pc[a] = "lockOwners" /\ Scans(a, "countOwners", MembershipRows(Call[a].org))
    BY LockScans DEF LockOwners, MembersInv, LocksInv
  <1> QED
    BY <1>1 DEF Scans, Members, tables, governance

\* The target stays what it was found to be,
LEMMA StepTargeted ==
    ASSUME MembersInv, NEW a \in Made, Step(a), NEW r \in Made
    PROVE  Targeted(r)'
  <1>1. /\ Private(a) /\ Settled(a) /\ Follows(a) /\ Tidy /\ Tidy'
        /\ a \in Requests
    BY StepLocks DEF MembersInv, LocksInv, Effect, Tidy
  <1> SUFFICES ASSUME pc'[r] \in Managing, NEW id, id = memo'[r].row.id
               PROVE  Joined(id)' /\ \A m \in memberships' : m.id = id => m.org = Call[r].org
    BY DEF Targeted, Joined
  <1>2. \/ /\ pc[r] \in Managing
           /\ id = memo[r].row.id
        \/ \E m \in memberships : m.id = id /\ m.org = Call[r].org
    <2>1. CASE r # a
      BY <1>1, <2>1 DEF Private
    <2>2. CASE r = a /\ Target(a)
      BY <1>1, <2>2 DEF Target, Reject, Answer, Answers, Goto, Managing, ReadInto, Remember,
         Tidy, Made
    <2>3. CASE r = a /\ (MatchOwners(a) \/ CountOwners(a))
      BY <1>1, <2>3 DEF MatchOwners, CountOwners, Match, Read, Reject,
         Answer, Answers, Goto, Managing, ReadInto, Remember, Tidy, Made
    <2>4. CASE r = a /\ LockOwners(a)
      BY <2>4, OwnersLocked DEF Managing
    <2> QED
      BY <1>1, <2>1, <2>2, <2>3, <2>4 DEF Follows, Managing
  <1>3. CASE pc[r] \in Managing /\ id = memo[r].row.id
    <2>1. Joined(id)
      BY <1>3 DEF MembersInv, Targeted, Joined
    <2> QED
      BY <1>1, <1>3, <2>1, JoinedStays, MembersStep DEF MembersInv, Targeted, Lasts, Added
  <1>4. CASE \E m \in memberships : m.id = id /\ m.org = Call[r].org
    <2>1. PICK m \in memberships : m.id = id /\ m.org = Call[r].org
      BY <1>4
    <2>2. Joined(m.id)
      BY DEF MembersInv
    <2> QED
      BY <1>1, <2>1, <2>2, JoinedStays, MembersStep
         DEF MembersInv, OneMember, Lasts, Added
  <1> QED
    BY <1>2, <1>3, <1>4

\* and is among what is locked with the Owners, when it is written after them.
LEMMA StepTargetHeld ==
    ASSUME MembersInv, NEW a \in Made, Step(a), NEW r \in Made
    PROVE  Locks(r)'
  <1>1. /\ Private(a) /\ Settled(a) /\ Follows(a) /\ Taken(a) /\ Tidy /\ Tidy'
        /\ Staged(a) /\ Staged(a)' /\ Targeted(a) /\ Locks(a) /\ a \in Requests
    BY StepLocks DEF MembersInv, LocksInv, Effect, Tidy
  <1>2. CASE r # a
    <2>1. /\ pc'[r] = pc[r] /\ memo'[r] = memo[r] /\ locks'[r] = locks[r]
          /\ Locks(r) /\ Targeted(r)
      BY <1>1, <1>2 DEF Private, MembersInv
    <2>2. \A m \in memberships' :
              \/ Lasts(m, memberships)
              \/ pc[r] \in Managing => m.id # memo[r].row.id
      <3> SUFFICES ASSUME NEW m \in memberships', ~Lasts(m, memberships), pc[r] \in Managing
                   PROVE  m.id # memo[r].row.id
        OBVIOUS
      <3>1. Added(a, m)
        BY MembersStep
      <3> QED
        BY <1>1, <2>1, <3>1 DEF Added, Targeted, Joined, Joins, MailSteps, Answers
    <2>3. \A k \in locks[r] : k[1] = "memberships" =>
              \E m \in memberships' : k = Row("memberships", m.id)
      <3> SUFFICES ASSUME NEW k \in locks[r], k[1] = "memberships"
                   PROVE  \E m \in memberships' : k = Row("memberships", m.id)
        OBVIOUS
      <3>1. PICK m \in memberships : k = Row("memberships", m.id)
        BY <2>1 DEF Locks
      <3> QED
        BY <1>2, <3>1, MembersStep DEF Lasts
    <2> QED
      BY <2>1, <2>2, <2>3 DEF Locks, Members, Managing, Lasts
  <1>3. CASE r = a /\ pc'[a] \in {"lockOwners", "countOwners", "write"}
    <2>1. CASE MatchOwners(a)
      BY <1>1, <1>3, <2>1 DEF MatchOwners, Match, ReadInto, Goto, Remember, tables, governance,
         Locks, Members, Targeted, Managing, MembershipRows, RowsOf, Tidy, Made, Staged,
         Fits, Row
    <2>2. CASE LockOwners(a)
      <3>1. \A m \in memberships' : m.id = memo'[a].row.id =>
                Row("memberships", m.id) \in Members(a)'
        <4> SUFFICES ASSUME NEW m \in memberships', m.id = memo'[a].row.id
                     PROVE  Row("memberships", m.id) \in Members(a)'
          OBVIOUS
        <4>1. m \in memberships /\ m.id = memo[a].row.id /\ pc[a] = "lockOwners"
          BY <2>2, OwnersLocked
        <4>2. Row("memberships", m.id) \in Members(a) /\ m.org = Call[a].org
          BY <1>1, <4>1 DEF Locks, Targeted, Managing
        <4>3. Row("memberships", m.id) \in MembershipRows(Call[a].org)
          BY <4>1, <4>2 DEF MembershipRows, RowsOf
        <4> QED
          BY <2>2, <4>2, <4>3, OwnersLocked
      <3>2. \A k \in locks'[a] : k[1] = "memberships" =>
                \E m \in memberships' : k = Row("memberships", m.id)
        BY <1>1, <2>2, OwnersLocked DEF Locks, MembershipRows, RowsOf
      <3>3. pc'[a] \in {"lockOwners", "countOwners"}
        BY <2>2, OwnersLocked
      <3> QED
        BY <1>3, <3>1, <3>2, <3>3 DEF Locks, Members
    <2>3. CASE CountOwners(a)
      BY <1>1, <1>3, <2>3 DEF CountOwners, Read, Reject, Answer, Answers, Goto, tables,
         governance, Locks, Members, Tidy, Made
    <2>4. CASE Target(a)
      <3>1. locks'[a] = {}
        BY <1>1, <2>4 DEF Target, Reject, ReadInto, Answer, Tidy, Made, Staged, Fits,
           Joining, Holding
      <3> QED
        BY <1>1, <1>3, <2>4, <3>1 DEF Target, Reject, ReadInto, Answer, Answers, Goto, Tidy,
           Made, Locks
    <2> QED
      BY <1>1, <1>3, <2>1, <2>2, <2>3, <2>4 DEF Follows
  <1>4. CASE r = a /\ pc'[a] \notin {"lockOwners", "countOwners", "write"}
    <2>1. \A k \in locks'[a] : k[1] # "memberships"
      BY <1>1, <1>4 DEF Staged, Fits
    <2> QED
      BY <1>4, <2>1 DEF Locks
  <1> QED
    BY <1>2, <1>3, <1>4

\* Keys are locked in their order.
LEMMA StepKeys ==
    ASSUME MembersInv, NEW a \in Made, Step(a), NEW r \in Made
    PROVE  Keys(r)'
  <1>1. /\ Private(a) /\ Settled(a) /\ Follows(a) /\ Taken(a) /\ Tidy /\ Tidy'
        /\ Staged(a) /\ Staged(a)' /\ Keys(a) /\ Keys(r)
    BY StepLocks DEF MembersInv, LocksInv, Effect
  <1>2. CASE r # a
    BY <1>1, <1>2 DEF Private, Keys, TableOf
  <1>3. CASE r = a
    <2>1. ASSUME NEW k \in locks'[a], k[1] = "unique"
          PROVE  /\ k[2][1] \in {"organization", "membership", "catalog", "dataset"}
                                \union Versions
                 /\ k[2][1] = "membership" =>
                        /\ pc'[a] \in {"bootstrapCommit", "addCommit"}
                        /\ k = MembershipKey(Call[a].org, Call[a].email)
      <3>1. k[2][1] \in {"organization", "membership", "catalog", "dataset"} \union Versions
        BY <1>1, <2>1 DEF Taken, Unheld, Keys, ResourceKey, Key, Versions
      <3>2. ASSUME k[2][1] = "membership"
            PROVE  /\ InsertMember(a) /\ pc[a] = "insertMember"
                   /\ pc'[a] \in {"bootstrapCommit", "addCommit"}
        <4>1. pc[a] \in {"join", "insertMember", "createCommit", "bootstrapCommit", "addCommit"}
          <5>1. CASE k \in locks[a]
            BY <1>1, <2>1, <3>2, <5>1 DEF Keys
          <5>2. CASE k \in Needs(a) /\ pc[a] \in Locking
            <6>1. k \in memo[a].matched
              BY <5>2 DEF Needs, Locking, RowByRow, AboutUser
            <6>2. Aims(a)
              BY <1>1 DEF Staged
            <6> QED
              BY <2>1, <5>2, <6>1, <6>2 DEF Aims, Locking, RowByRow, Row, UserRow, UserKey
          <5>3. CASE k \in Needs(a) /\ pc[a] \notin Locking
            BY <1>1, <2>1, <3>2, <5>3 DEF Needs, AboutUser, Row, Key, UserRow, UserKey,
               OrganizationKey, MembershipKey, ResourceKey, Keys, Versions
          <5> QED
            BY <1>1, <5>1, <5>2, <5>3 DEF Taken
        <4>2. pc'[a] \in {"registerUser", "registerCommit", "organizationCommit",
                         "bootstrapCommit", "addCommit", "findVersion", "insertVersion",
                         "importCommit"}
          BY <1>1, <2>1 DEF Staged, Fits
        <4>3. pc'[a] \notin {"registerUser", "registerCommit", "organizationCommit"}
          BY <1>1, <4>1 DEF Follows, RegisterOrganization, RegisterUser, CreateOrganization
        <4>4. pc'[a] \notin ImportSteps
          BY <1>1, <4>1 DEF Staged, ImportSteps, Ends, Answers
        <4>5. pc'[a] \in {"bootstrapCommit", "addCommit"}
          BY <4>2, <4>3, <4>4 DEF ImportSteps
        <4> QED
          BY <1>1, <4>5 DEF Follows, InsertMember
      <3>3. ASSUME k[2][1] = "membership"
            PROVE  k = MembershipKey(Call[a].org, Call[a].email)
        <4>1. k \notin locks[a]
          BY <1>1, <2>1, <3>2, <3>3 DEF Keys
        <4>2. Needs(a) = {MembershipKey(Call[a].org, Call[a].email)}
          BY <3>2, <3>3 DEF Needs, Locking, RowByRow, AboutUser
        <4> QED
          BY <1>1, <2>1, <4>1, <4>2 DEF Taken
      <3> QED
        BY <3>1, <3>2, <3>3
    <2>2. CASE FindResource(a)
      <3>1. \A k \in locks'[a] : k[1] # "unique"
        BY <1>1, <2>2 DEF FindResource, ReadInto, Staged, Fits
      <3>2. pc'[a] = "insertResource" => TableOf(memo'[a].row) \in {"catalog", "dataset"}
        BY <1>1, <2>2 DEF FindResource, ReadInto, Goto, Remember, Tidy, Made,
           ImportedResource, NewResource, ResourceTable, TableOf
      <3>3. pc'[a] \in {"findVersion", "insertResource"}
        BY <1>1, <2>2 DEF FindResource, ReadInto, Goto, Tidy, Made
      <3> QED
        BY <1>3, <3>1, <3>2, <3>3 DEF Keys, TableOf
    <2>3. CASE InsertResource(a)
      <3>1. pc[a] = "insertResource" /\ pc'[a] \in {"findVersion"} \union Answers
        BY <1>1, <2>3 DEF InsertResource, Insert, Answer, Answers, Goto, Tidy, Made
      <3>2. \A k \in locks'[a] : k[1] = "unique" => k[2][1] \notin Versions
        BY <1>1, <2>3, <3>1 DEF InsertResource, Insert, Answer, Staged, Fits, Tidy, Keys,
           ResourceKey, Key, Versions
      <3> QED
        BY <1>3, <2>1, <3>1, <3>2 DEF Keys, Answers
    <2>4. CASE FindVersion(a)
      <3>1. \A k \in locks'[a] : k[1] = "unique" => k[2][1] \notin Versions
        BY <1>1, <2>4 DEF FindVersion, ReadInto, Answer, Reject, Tidy, Keys, Made
      <3>2. /\ pc'[a] \in {"insertVersion"} \union Answers
            /\ pc'[a] = "insertVersion" => TableOf(memo'[a].row) \in Versions
        <4> DEFINE new == ImportedVersion(a, memo[a].row.id)
        <4>1. TableOf(new) \in Versions
          BY DEF ImportedVersion, NewResource, VersionTable, TableOf, Versions
        <4> HIDE DEF new
        <4>2. pc'[a] = "insertVersion" => memo'[a].row = new
          <5>1. CASE ReadInto(a, "insertVersion", [memo[a] EXCEPT !.row = new])
            BY <1>1, <5>1 DEF ReadInto, Remember, Tidy, Made
          <5>2. CASE \E answer \in Answers : Answer(a, answer)
            BY <1>1, <5>2 DEF Answer, Answers, Goto, Tidy, Made
          <5> QED
            BY <2>4, <5>1, <5>2 DEF FindVersion, Reject, Answers, new
        <4>3. pc'[a] \in {"insertVersion"} \union Answers
          BY <1>1, <2>4 DEF FindVersion, ReadInto, Answer, Reject, Goto, Answers, Tidy, Made
        <4> QED
          BY <4>1, <4>2, <4>3 DEF TableOf
      <3> QED
        BY <1>3, <2>1, <3>1, <3>2 DEF Keys, TableOf, Answers
    <2>5. CASE pc'[a] \notin {"insertResource", "findVersion", "insertVersion"}
      BY <1>3, <2>1, <2>5 DEF Keys
    <2> QED
      BY <1>1, <2>2, <2>3, <2>4, <2>5 DEF Follows
  <1> QED
    BY <1>2, <1>3

\* Every step keeps all of it.
LEMMA StepMembers ==
    ASSUME MembersInv, NEW a \in Made, Step(a)
    PROVE  MembersInv'
  <1>1. LocksInv' /\ Made' = Made
    BY StepLocks DEF MembersInv, Effect, Private
  <1> QED
    BY <1>1, MembersStep, StepTargeted, StepTargetHeld, StepKeys DEF MembersInv

\* Nothing of it changes without a step.
LEMMA MembersStutter ==
    ASSUME MembersInv, UNCHANGED vars
    PROVE  MembersInv'
  <1>1. LocksInv'
    BY DEF MembersInv, LocksInv, vars, Tidy, Staged, Aims, Accepting, LocksExclusive,
       AllKnown, Known, Made
  <1>2. OneMember' /\ \A m \in memberships' : MemberShape(m) /\ Joined(m.id)'
    BY DEF MembersInv, OneMember, Joined, vars, Made
  <1>3. \A r \in Made : Targeted(r)' /\ Locks(r)' /\ Keys(r)'
    BY DEF MembersInv, Targeted, Joined, Locks, Members, Keys, vars, Made
  <1> QED
    BY <1>1, <1>2, <1>3 DEF MembersInv, vars, Made

-----------------------------------------------------------------------------
(* Waiting in a circle *)

\* How far a transaction with locks has got.
Rank(r) ==
    LET at == pc[r]
    IN  IF at \in {"registerCommit", "importCommit"} THEN 7
        ELSE IF at \in {"bootstrapCommit", "addCommit", "checkMember", "join"} THEN 6
        ELSE IF at \in {"bootstrapMember", "insertMember"} THEN 5
        ELSE IF at \in Holding \union {"retire", "insertLink", "scriptLock", "scriptCommit"} THEN 4
        ELSE IF at \in {"findUser", "lockUser", "insertUser"} THEN 3
        ELSE IF at = "insertInvitation" THEN 2
        ELSE IF at \in {"revokeInvitations", "registerUser", "organizationCommit"} THEN 1
        ELSE 0

\* The operations of rivals.
Kin(r, q) ==
    LET ops == {Call[r].op, Call[q].op}
    IN  \/ ops \subseteq LinkUsers \/ ops \subseteq {"change", "remove"} \/ ops = {"invite"}
        \/ \E one, other \in {r, q} :
              Call[one].op = "accept" /\ Call[other].op \in {"add", "bootstrap"}

\* What a transaction with locks waits for.
LEMMA Waiting ==
    ASSUME MembersInv, NEW r \in Made, locks[r] # {}, NEW k \in Needs(r)
    PROVE  \/ k[1] = "links" /\ pc[r] \in {"retire", "retireAll"}
           \/ k[1] = "sessions" /\ pc[r] \in {"revokeSessions", "scriptLock"}
           \/ k[1] = "invitations" /\ pc[r] = "revokeInvitations"
           \/ k[1] \in {"users", "userKeys"} /\ pc[r] = "lockUser"
           \/ k[1] = "users" /\ pc[r] \in {"registerUser", "useLink", "insertUser"}
           \/ k[1] = "userKeys" /\ pc[r] \in {"organizationCommit", "bootstrapCommit",
                                               "addCommit", "insertInvitation", "insertLink"}
           \/ k[1] = "memberships" /\ pc[r] \in {"lockOwners", "write"}
           \/ k[1] = "unique" /\ k[2][1] = "membership" /\ pc[r] \in {"join", "insertMember"}
           \/ k[1] = "unique" /\ k[2][1] \in Versions /\ pc[r] = "insertVersion"
  <1>1. PICK j \in locks[r] : TRUE
    OBVIOUS
  <1>2. Staged(r) /\ Aims(r) /\ Keys(r)
    BY DEF MembersInv, LocksInv, Staged
  <1>3. Fits(j, pc[r])
    BY <1>2 DEF Staged
  <1>4. CASE pc[r] \in Locking
    <2>1. k \in memo[r].matched
      BY <1>4 DEF Needs, Locking, RowByRow, AboutUser
    <2> QED
      BY <1>2, <1>3, <2>1 DEF Aims, Fits, Joining, Holding
  <1>5. CASE pc[r] \notin Locking
    <2>1. pc[r] \notin {"register", "createOrganization", "scriptUser", "undelivered",
                       "undeliveredInvitation", "logout", "revokeCommit", "createCommit",
                       "insertResource", "openSession"}
      BY <1>3 DEF Fits, Joining, Holding
    <2> QED
      BY <1>2, <1>5, <2>1 DEF Needs, AboutUser, Row, Key, UserRow, UserKey, MembershipKey,
         ResourceKey, Keys
  <1> QED
    BY <1>4, <1>5

\* It waits for one that is ahead of it, or as far as itself and at work on the like.
LEMMA WaitsAhead ==
    ASSUME MembersInv, NEW r \in Made, locks[r] # {}, NEW q \in Holders(r)
    PROVE  Rank(r) < Rank(q) \/ (Rank(r) = Rank(q) /\ Kin(r, q))
  <1>1. PICK k : k \in Needs(r) /\ k \in locks[q] /\ q \in Made
    BY DEF Holders
  <1>2. Staged(r) /\ Staged(q) /\ Keys(q)
    BY <1>1 DEF MembersInv, LocksInv
  <1>3. Fits(k, pc[q])
    BY <1>1, <1>2 DEF Staged
  <1>4. CASE k[1] \in {"links", "sessions"}
    <2>1. Rank(r) = 4 /\ Rank(q) = 4
      BY <1>1, <1>3, <1>4, Waiting DEF Fits, Rank, Holding
    <2>2. Call[r].op \in LinkUsers /\ Call[q].op \in LinkUsers
      BY <1>1, <1>2, <1>3, <1>4, Waiting
         DEF Fits, Staged, LinkUsers, LinkOps, LinkSteps, Holding, ScriptSteps
    <2> QED
      BY <2>1, <2>2 DEF Kin
  <1>5. CASE k[1] = "invitations"
    <2>1. pc[r] = "revokeInvitations" /\ Rank(r) = 1
      BY <1>1, <1>5, Waiting DEF Rank, Holding
    <2>2. CASE pc[q] = "revokeInvitations"
      BY <1>2, <2>1, <2>2 DEF Rank, Holding, Kin, Staged, InviteSteps
    <2>3. CASE pc[q] # "revokeInvitations"
      BY <1>3, <1>5, <2>1, <2>3 DEF Fits, Rank, Joining, Holding
    <2> QED
      BY <2>2, <2>3
  <1>6. CASE k[1] \in {"users", "userKeys"}
    <2>1. Rank(q) \in 4..7 /\ (k[1] = "userKeys" => Rank(q) = 6)
      BY <1>3, <1>6 DEF Fits, Rank, Holding
    <2>2. Rank(r) \in 0..3 \/ pc[r] \in {"useLink", "insertLink", "bootstrapCommit", "addCommit"}
      BY <1>1, <1>6, Waiting DEF Rank, Holding
    <2>3. CASE pc[r] = "useLink"
      <3>1. Rank(r) = 4 /\ Call[r].op \in LinkUsers
        BY <1>2, <2>3 DEF Rank, Holding, Staged, LinkSteps, LinkUsers, LinkOps
      <3>2. CASE pc[q] \in {"scriptLock", "scriptCommit"}
        BY <1>2, <3>1, <3>2 DEF Rank, Holding, Staged, ScriptSteps, LinkUsers, Kin
      <3>3. CASE pc[q] \notin {"scriptLock", "scriptCommit"}
        BY <1>3, <1>6, <3>1, <3>3 DEF Fits, Rank, Holding
      <3> QED
        BY <3>2, <3>3
    <2>4. CASE pc[r] \in {"bootstrapCommit", "addCommit"}
      <3>1. Rank(r) = 6 /\ k[1] = "userKeys" /\ Call[r].op \in {"add", "bootstrap"}
        BY <1>1, <1>2, <1>6, <2>4, Waiting DEF Rank, Staged, BootstrapSteps
      <3>2. Call[q].op = "accept"
        BY <1>2, <1>3, <3>1 DEF Fits, Staged, AcceptSteps, Joining
      <3> QED
        BY <2>1, <3>1, <3>2 DEF Kin
    <2>5. CASE pc[r] = "insertLink"
      BY <1>1, <1>6, <2>1, <2>5, Waiting DEF Rank, Holding
    <2> QED
      BY <2>1, <2>2, <2>3, <2>4, <2>5
  <1>7. CASE k[1] = "memberships"
    <2>1. Rank(r) = 0 /\ Rank(q) = 0
      BY <1>1, <1>3, <1>7, Waiting DEF Fits, Rank, Holding
    <2>2. Call[r].op \in {"change", "remove"} /\ Call[q].op \in {"change", "remove"}
      BY <1>1, <1>2, <1>3, <1>7, Waiting DEF Fits, Staged, Managing
    <2> QED
      BY <2>1, <2>2 DEF Kin
  <1>8. CASE k[1] = "unique"
    <2>1. CASE k[2][1] = "membership" /\ pc[r] \in {"join", "insertMember"}
      <3>1. Rank(q) = 6 /\ Call[q].op \in {"add", "bootstrap"}
        BY <1>1, <1>2, <1>8, <2>1 DEF Keys, Rank, Staged, BootstrapSteps
      <3>2. CASE pc[r] = "join"
        BY <1>2, <3>1, <3>2 DEF Rank, Staged, AcceptSteps, Joining, Kin
      <3>3. CASE pc[r] = "insertMember"
        BY <3>1, <3>3 DEF Rank
      <3> QED
        BY <2>1, <3>2, <3>3
    <2>2. CASE k[2][1] \in Versions /\ pc[r] = "insertVersion"
      BY <1>1, <1>2, <1>3, <1>8, <2>2 DEF Keys, Fits, Rank, Holding
    <2> QED
      BY <1>1, <1>8, <2>1, <2>2, Waiting
  <1> QED
    BY <1>3, <1>4, <1>5, <1>6, <1>7, <1>8 DEF Fits

\* So those who wait in a circle are equally far, however many they are.
LEMMA Circling ==
    ASSUME MembersInv, NEW r \in Made, NEW q \in Holders(r), Circle(r, q)
    PROVE  locks[r] # {} /\ Rank(r) = Rank(q) /\ Kin(r, q)
  <1> DEFINE Edge(x, y) == x \in Made /\ y \in Holders(x) /\ locks[x] # {}
  <1>1. \A x, y : Edge(x, y) => Rank(x) < Rank(y) \/ (Rank(x) = Rank(y) /\ Kin(x, y))
    BY WaitsAhead
  <1>2. \A x : Rank(x) \in Nat
    BY DEF Rank
  <1>3. \A x, y : x \in Made /\ y \in Holders(x) => y \in Made /\ locks[y] # {}
    BY DEF Holders
  <1>4. \/ r \in Holders(q)
        \/ \E p \in Holders(q) : r \in Holders(p)
    BY DEF Circle
  <1>5. q \in Made /\ locks[q] # {} /\ locks[r] # {}
    BY <1>3, <1>4
  <1>6. Edge(r, q) /\ \/ Edge(q, r)
                      \/ \E p : Edge(q, p) /\ Edge(p, r)
    BY <1>3, <1>4, <1>5
  <1> HIDE DEF Edge
  <1> QED
    BY <1>1, <1>2, <1>5, <1>6

-----------------------------------------------------------------------------
(* Owners *)

\* The membership that r changes or removes, if it is there still.
IsTarget(r, m) == m.id = memo[r].row.id
Owner(m, org) == m.org = org /\ m.role = "OWNER"

\* r has found an Owner, so it counts the Owners before it writes.
Counting(r) ==
    pc[r] \in {"lockOwners", "countOwners"} \/ (pc[r] = "write" /\ memo[r].row.role = "OWNER")

\* Of two requests that count, the later one has the target of the other.
Meets(r, q) ==
    Counting(r) /\ Counting(q) /\ Call[r].org = Call[q].org =>
        \A m, n \in memberships : IsTarget(r, m) /\ IsTarget(q, n) =>
            \/ Row("memberships", n.id) \in Members(r)
            \/ Row("memberships", m.id) \in Members(q)

\* A request took its target for no Owner, which was promoted while it was open.
Overtaken(r, q) ==
    /\ q \in Done("change") /\ Met(r, q)
    /\ Call[r].member = Call[q].member /\ Call[q].role = "OWNER"
Lost(org) ==
    \E r \in Done("change") \union Done("remove"), q \in Made :
        Overtaken(r, q) /\ Call[r].org = org

\* What a request that has to count relies on: it takes what it writes, another Owner stays.
Managed(r) ==
    /\ pc[r] \in Managing => memo[r].row.id = Call[r].member
    /\ pc[r] \in {"matchOwners", "lockOwners", "countOwners"} => memo[r].row.role = "OWNER"
    /\ pc[r] = "write" /\ Counting(r) => \A m \in memberships : IsTarget(r, m) =>
           /\ Row("memberships", m.id) \in locks[r]
           /\ \/ \E o \in memberships : Owner(o, Call[r].org) /\ o.id # m.id
              \/ Lost(Call[r].org)
    /\ pc[r] = "write" /\ ~Counting(r) => \A m \in memberships :
           IsTarget(r, m) /\ m.role = "OWNER" => \E q \in Made : Overtaken(r, q)

OwnersInv ==
    /\ MembersInv
    /\ AllMet
    /\ \A r \in Made : Managed(r)
    /\ \A r, q \in Made : r # q => Meets(r, q)
    /\ OwnerRetained

\* At the start each organization has an Owner.
LEMMA InitOwners == Init => OwnersInv
  <1> SUFFICES ASSUME Init
               PROVE  OwnersInv
    OBVIOUS
  <1>1. PICK w \in Workloads : pc = [r \in w |-> "ready"]
    BY DEF Init
  <1>2. \A r \in Made : pc[r] = "ready"
    BY <1>1 DEF Made
  <1>3. OwnerRetained
    BY SeedAssumption DEF Init, OwnerRetained, OwnersOf
  <1> QED
    BY <1>2, <1>3, InitMembers DEF OwnersInv, AllMet, Open, Managed, Managing, Counting, Meets

\* a writes the membership m as it commits.
Writes(a, m) == pc[a] = "write" /\ pc'[a] = "done" /\ IsTarget(a, m)

\* What a step does to the memberships: it writes its target, or adds one.
LEMMA OwnersStep ==
    ASSUME MembersInv, NEW a \in Made, Step(a)
    PROVE  /\ \A m \in memberships : m \in memberships' \/ Writes(a, m)
           /\ \A m \in memberships' :
                 \/ m \in memberships \/ Added(a, m)
                 \/ Writes(a, m) /\ Call[a].op = "change" /\ m.role = Call[a].role
  <1>1. Changes(a) /\ Tidy
    BY StepLocks DEF MembersInv, LocksInv, Effect
  <1>2. CASE memberships' = memberships
    BY <1>2
  <1>3. CASE \/ RegisterCommit(a) \/ OrganizationCommit(a) \/ BootstrapCommit(a)
             \/ AddCommit(a) \/ Join(a)
    BY <1>3, AddStep
  <1>4. CASE memberships' # memberships /\ Write(a)
    <2> DEFINE found == {m \in memberships : m.id = memo[a].row.id}
               W(m) == [m EXCEPT !.role = Call[a].role]
    <2>1. pc[a] = "write" /\ pc'[a] = "done"
      BY <1>1, <1>4 DEF Write, Answer, Goto, Tidy, Made, tables, governance
    <2>2. CASE memberships' = memberships \ found
      BY <2>1, <2>2 DEF Writes, IsTarget
    <2>3. CASE /\ Call[a].op = "change"
               /\ memberships' = (memberships \ found) \union {W(m) : m \in found}
      <3>1. \A m \in found : W(m).id = m.id /\ W(m).role = Call[a].role
        BY DEF MembersInv, MemberShape
      <3>2. \A m \in found : IsTarget(a, m)
        BY DEF IsTarget
      <3> HIDE DEF W
      <3> QED
        BY <2>1, <2>3, <3>1, <3>2 DEF Writes, IsTarget
    <2>4. Call[a].op \in {"change", "remove"}
      BY <2>1 DEF MembersInv, LocksInv, Staged, Managing
    <2> QED
      BY <1>4, <2>2, <2>3, <2>4 DEF Write, Rewritten, tables, governance
  <1> QED
    BY <1>1, <1>2, <1>3, <1>4 DEF Changes

\* What is lost stays lost.
LEMMA LostStays ==
    ASSUME NEW a \in Made, Private(a), Settled(a), met \subseteq met'
    PROVE  /\ \A r \in Made, q \in Made : Overtaken(r, q) => Overtaken(r, q)'
           /\ \A org : Lost(org) => Lost(org)'
  <1>1. \A r, op : r \in Done(op) => r \in Done(op)'
    BY DEF Done, Private, Settled, Answers
  <1>2. \A r \in Made, q \in Made : Overtaken(r, q) => Overtaken(r, q)'
    BY <1>1 DEF Overtaken, Met
  <1> QED
    BY <1>1, <1>2 DEF Lost, Private, Done

\* Who counts has counted before, or looks now; all of it stays what it was.
LEMMA StepCounting ==
    ASSUME OwnersInv, NEW a \in Made, Step(a), Counting(a)'
    PROVE  /\ pc[a] \in Managing /\ pc'[a] \in Managing
           /\ memo'[a].row = memo[a].row
           /\ MatchOwners(a) \/ (Counting(a) /\ memberships' = memberships)
           /\ \A k : k \in Members(a) /\ k \in MembershipRows(Call[a].org) =>
                  MatchOwners(a) \/ k \in Members(a)'
           /\ MatchOwners(a) => MembershipRows(Call[a].org) \subseteq Members(a)'
  <1>1. /\ Follows(a) /\ Private(a) /\ Tidy /\ Tidy' /\ Managed(a)
    BY StepLocks DEF OwnersInv, MembersInv, LocksInv, Effect
  <1> USE DEF Counting, Managing, Members, Goto, Remember, Tidy, Made, Answer, Answers, Read,
              ReadInto, Reject, tables, governance
  <1>2. CASE MatchOwners(a)
    BY <1>1, <1>2 DEF MatchOwners, Match
  <1>3. CASE LockOwners(a)
    <2> HIDE DEF Members
    <2> QED
      BY <1>3, OwnersLocked DEF MatchOwners, OwnersInv
  <1>4. CASE CountOwners(a)
    <2>1. pc[a] = "countOwners" /\ (pc'[a] = "write" \/ pc'[a] = "refused")
      BY <1>1, <1>4 DEF CountOwners
    <2>2. UNCHANGED <<memo, locks, memberships>>
      BY <1>1, <1>4, <2>1 DEF CountOwners
    <2> QED
      BY <2>1, <2>2 DEF MatchOwners
  <1>5. CASE Target(a)
    BY <1>1, <1>5 DEF Target
  <1> QED
    BY <1>1, <1>2, <1>3, <1>4, <1>5 DEF Follows

\* The later of two requests has found the target of the other.
LEMMA StepMeets ==
    ASSUME OwnersInv, NEW a \in Made, Step(a), NEW r \in Made, NEW q \in Made, r # q
    PROVE  Meets(r, q)'
  <1>1. /\ Private(a) /\ Tidy /\ Tidy' /\ Targeted(r) /\ Targeted(q) /\ MembersInv
        /\ Meets(r, q)
    BY StepLocks DEF OwnersInv, MembersInv, LocksInv, Effect
  <1> SUFFICES ASSUME Counting(r)', Counting(q)', Call[r].org = Call[q].org,
                      NEW m \in memberships', NEW n \in memberships',
                      IsTarget(r, m)', IsTarget(q, n)'
               PROVE  Row("memberships", n.id) \in Members(r)' \/ Row("memberships", m.id) \in Members(q)'
    BY DEF Meets, Row
  <1>2. \A x \in {r, q} \ {a} :
            /\ memo'[x] = memo[x] /\ Members(x)' = Members(x) /\ Counting(x)
            /\ pc[x] \in Managing
    BY <1>1 DEF Private, Members, Counting, Managing
  <1>3. \A x \in {r, q} : memo'[x].row = memo[x].row /\ pc[x] \in Managing /\ Targeted(x)
    BY <1>1, <1>2, StepCounting
  <1>4. m.id = memo[r].row.id /\ n.id = memo[q].row.id
    BY <1>3 DEF IsTarget
  <1>5. ~Added(a, m) /\ ~Added(a, n)
    <2>1. Joined(m.id) /\ Joined(n.id)
      BY <1>3, <1>4 DEF Targeted
    <2> QED
      BY <1>1, <2>1 DEF Added, Joined, Joins, MailSteps, Answers, Tidy
  <1>6. PICK i \in memberships, j \in memberships :
            i.id = m.id /\ i.org = m.org /\ j.id = n.id /\ j.org = n.org
    BY <1>1, <1>5, MembersStep DEF Lasts
  <1>7. i.org = Call[r].org /\ j.org = Call[q].org /\ IsTarget(r, i) /\ IsTarget(q, j)
    BY <1>3, <1>4, <1>6 DEF Targeted, IsTarget
  <1>8. /\ Row("memberships", n.id) \in MembershipRows(Call[r].org)
        /\ Row("memberships", m.id) \in MembershipRows(Call[q].org)
    <2>1. Row("memberships", n.id) = Row("memberships", j.id)
      BY <1>6
    <2>2. Row("memberships", m.id) = Row("memberships", i.id)
      BY <1>6
    <2>3. Call[q].org = Call[r].org
      OBVIOUS
    <2> QED
      BY <1>7, <2>1, <2>2, <2>3 DEF MembershipRows, RowsOf
  <1>9. CASE a \in {r, q} /\ MatchOwners(a)
    BY <1>8, <1>9, StepCounting
  <1>10. CASE ~(a \in {r, q} /\ MatchOwners(a))
    <2>1. Counting(r) /\ Counting(q)
      BY <1>2, <1>10, StepCounting
    <2>2. \/ Row("memberships", n.id) \in Members(r)
          \/ Row("memberships", m.id) \in Members(q)
      BY <1>1, <1>6, <1>7, <2>1 DEF Meets
    <2> QED
      BY <1>2, <1>8, <1>10, <2>2, StepCounting
  <1> QED
    BY <1>9, <1>10

\* While a request that has counted is about to write, another one writes an Owner only
\* if it was overtaken.
LEMMA WritesApart ==
    ASSUME OwnersInv, NEW a \in Made, NEW r \in Made \ {a}, pc[r] = "write", Counting(r),
           NEW m \in memberships, IsTarget(r, m),
           NEW o \in memberships, Owner(o, Call[r].org), Writes(a, o)
    PROVE  Call[a].org = Call[r].org /\ \E q \in Made : Overtaken(a, q)
  <1>1. /\ Managed(a) /\ Managed(r) /\ Meets(r, a) /\ Targeted(a) /\ LocksExclusive
        /\ pc[a] = "write"
    BY DEF OwnersInv, MembersInv, LocksInv, Writes
  <1>2. IsTarget(a, o) /\ o.role = "OWNER" /\ Call[a].org = Call[r].org
    BY <1>1 DEF Writes, Owner, Targeted, Managing, IsTarget
  <1>3. CASE Counting(a)
    <2>1. /\ Row("memberships", o.id) \in locks[a]
          /\ Row("memberships", m.id) \in locks[r]
      BY <1>1, <1>2, <1>3 DEF Managed
    <2>2. \/ Row("memberships", o.id) \in locks[r]
          \/ Row("memberships", m.id) \in locks[a]
      BY <1>1, <1>2, <1>3 DEF Meets, Members
    <2> QED
      BY <1>1, <2>1, <2>2 DEF LocksExclusive
  <1>4. CASE ~Counting(a)
    BY <1>1, <1>2, <1>4 DEF Managed
  <1> QED
    BY <1>2, <1>3, <1>4

\* Who is overtaken and writes loses an Owner.
LEMMA LosesOwner ==
    ASSUME OwnersInv, NEW a \in Made, Step(a), NEW o, Writes(a, o),
           NEW q \in Made, Overtaken(a, q)
    PROVE  Lost(Call[a].org)'
  <1>1. /\ Private(a) /\ Settled(a) /\ met \subseteq met' /\ Staged(a)
    BY StepLocks, Meeting DEF OwnersInv, MembersInv, LocksInv, Effect
  <1>2. Overtaken(a, q)'
    BY <1>1, LostStays
  <1>3. a \in Done("change")' \union Done("remove")'
    BY <1>1 DEF Writes, Staged, Managing, Done, Private
  <1> QED
    BY <1>1, <1>2, <1>3 DEF Lost, Private

\* What the others rely on lasts.
LEMMA OthersManaged ==
    ASSUME OwnersInv, NEW a \in Made, Step(a), NEW r \in Made \ {a}
    PROVE  Managed(r)'
  <1>1. /\ Private(a) /\ Settled(a) /\ met \subseteq met' /\ Tidy /\ Managed(r) /\ Managed(a)
        /\ Targeted(r) /\ MembersInv /\ AllMet
    BY StepLocks, Meeting DEF OwnersInv, MembersInv, LocksInv, Effect
  <1>2. /\ pc'[r] = pc[r] /\ memo'[r] = memo[r] /\ locks'[r] = locks[r] /\ Made' = Made
    BY <1>1 DEF Private
  <1>3. CASE pc[r] # "write"
    BY <1>1, <1>2, <1>3 DEF Managed
  <1>4. CASE pc[r] = "write"
    <2>1. Joined(memo[r].row.id)
      BY <1>1, <1>4 DEF Targeted, Managing
    <2>2. \A m \in memberships' : IsTarget(r, m) => ~Added(a, m)
      BY <1>1, <2>1 DEF IsTarget, Added, Joined, Joins, MailSteps, Answers, Tidy
    <2>3. ASSUME Counting(r), NEW m \in memberships', IsTarget(r, m)
          PROVE  /\ Row("memberships", m.id) \in locks[r]
                 /\ \/ \E o \in memberships' : Owner(o, Call[r].org) /\ o.id # m.id
                    \/ Lost(Call[r].org)'
      <3>1. PICK n \in memberships : n.id = m.id
        BY <1>1, <2>2, <2>3, MembersStep DEF Lasts
      <3>2. /\ IsTarget(r, n) /\ Row("memberships", n.id) = Row("memberships", m.id)
        BY <2>3, <3>1 DEF IsTarget
      <3>3. /\ Row("memberships", n.id) \in locks[r]
            /\ \/ \E o \in memberships : Owner(o, Call[r].org) /\ o.id # n.id
               \/ Lost(Call[r].org)
        BY <1>1, <1>4, <2>3, <3>2 DEF Managed
      <3>4. CASE Lost(Call[r].org)
        BY <1>1, <3>2, <3>3, <3>4, LostStays
      <3>5. ASSUME NEW o \in memberships, Owner(o, Call[r].org), o.id # n.id
            PROVE  \/ \E p \in memberships' : Owner(p, Call[r].org) /\ p.id # m.id
                   \/ Lost(Call[r].org)'
        <4>1. CASE o \in memberships'
          BY <3>1, <3>5, <4>1
        <4>2. CASE Writes(a, o)
          BY <1>4, <2>3, <3>2, <3>5, <4>2, WritesApart, LosesOwner
        <4> QED
          BY <1>1, <4>1, <4>2, OwnersStep
      <3> QED
        BY <3>2, <3>3, <3>4, <3>5
    <2>4. ASSUME ~Counting(r), NEW m \in memberships', IsTarget(r, m), m.role = "OWNER"
          PROVE  \E q \in Made : Overtaken(r, q)'
      <3>1. CASE m \in memberships
        BY <1>1, <1>4, <2>4, <3>1, LostStays DEF Managed
      <3>2. CASE Writes(a, m) /\ Call[a].op = "change" /\ m.role = Call[a].role
        <4>1. {r, a} \in met'
          BY <1>1, <1>4, <3>2 DEF AllMet, Open, Answers, Met, Writes
        <4>2. Call[r].member = Call[a].member
          BY <1>1, <1>4, <2>4, <3>2 DEF Managed, Managing, Writes, IsTarget
        <4>3. a \in Done("change")'
          BY <1>2, <3>2 DEF Writes, Done
        <4> QED
          BY <2>4, <3>2, <4>1, <4>2, <4>3 DEF Overtaken, Met
      <3> QED
        BY <1>1, <2>2, <2>4, <3>1, <3>2, OwnersStep
    <2> QED
      BY <1>1, <1>2, <1>4, <2>3, <2>4 DEF Managed, Counting, IsTarget
  <1> QED
    BY <1>3, <1>4

\* More than one Owner: one of them is not the target.
LEMMA OtherOwner ==
    ASSUME OneMember, NEW org, Cardinality(OwnersOf(org)) > 1, NEW m \in memberships
    PROVE  \E o \in memberships : Owner(o, org) /\ o.id # m.id
  <1> SUFFICES ASSUME \A o \in memberships : Owner(o, org) => o.id = m.id
               PROVE  FALSE
    OBVIOUS
  <1>1. \A o \in OwnersOf(org) : o = m
    BY DEF OwnersOf, Owner, OneMember
  <1>2. OwnersOf(org) = {} \/ OwnersOf(org) = {m}
    BY <1>1
  <1>3. Cardinality(OwnersOf(org)) \in {0, 1}
    BY <1>2, FS_EmptySet, FS_Singleton, Zenon
  <1> QED
    BY <1>3

\* A request finds its target as it is, and protects it if it is an Owner.
LEMMA OwnManaged ==
    ASSUME OwnersInv, NEW a \in Made, Step(a)
    PROVE  Managed(a)'
  <1>1. /\ Private(a) /\ Settled(a) /\ Follows(a) /\ Tidy /\ Tidy' /\ Managed(a)
        /\ Locks(a) /\ OneMember
    BY StepLocks DEF OwnersInv, MembersInv, LocksInv, Effect
  <1> USE DEF Managing, Goto, Remember, Tidy, Made, Answer, Answers, Read, ReadInto, Reject,
              tables, governance
  <1>2. CASE pc'[a] \notin Managing
    BY <1>2 DEF Managed, Counting
  <1>3. CASE Target(a) /\ pc'[a] \in Managing
    <2>1. PICK m \in memberships :
              /\ m.id = Call[a].member /\ memo'[a].row = m /\ memberships' = memberships
              /\ pc'[a] = IF m.role = "OWNER" THEN "matchOwners" ELSE "write"
      BY <1>1, <1>3 DEF Target
    <2>2. \A n \in memberships' : IsTarget(a, n)' => n = m
      BY <1>1, <2>1 DEF IsTarget, OneMember
    <2> QED
      BY <2>1, <2>2 DEF Managed, Counting
  <1>4. CASE MatchOwners(a) \/ LockOwners(a)
    <2>1. memo'[a].row = memo[a].row /\ pc[a] \in {"matchOwners", "lockOwners"}
      BY <1>1, <1>4, OwnersLocked DEF MatchOwners, Match, OwnersInv
    <2>2. pc'[a] \in {"lockOwners", "countOwners"}
      BY <1>1, <1>4, OwnersLocked DEF MatchOwners, Match, OwnersInv
    <2> QED
      BY <1>1, <2>1, <2>2 DEF Managed
  <1>5. CASE CountOwners(a) /\ pc'[a] \in Managing
    <2>1. /\ pc[a] = "countOwners" /\ pc'[a] = "write"
          /\ memo' = memo /\ locks' = locks /\ memberships' = memberships
          /\ Cardinality(OwnersOf(Call[a].org)) > 1
      BY <1>1, <1>5 DEF CountOwners
    <2>2. memo[a].row.role = "OWNER" /\ memo[a].row.id = Call[a].member
      BY <1>1, <2>1 DEF Managed
    <2>3. \A m \in memberships : IsTarget(a, m) => Row("memberships", m.id) \in locks[a]
      BY <1>1, <2>1 DEF Locks, IsTarget
    <2>4. \A m \in memberships :
              \E o \in memberships : Owner(o, Call[a].org) /\ o.id # m.id
      BY <1>1, <2>1, OtherOwner
    <2> QED
      BY <2>1, <2>2, <2>3, <2>4 DEF Managed, Counting, IsTarget
  <1> QED
    BY <1>1, <1>2, <1>3, <1>4, <1>5 DEF Follows

\* What OwnerRetained says, in these words.
Retains ==
    \A org \in organizations : (\E o \in memberships : Owner(o, org)) \/ Lost(org)

\* The two say the same.
LEMMA Retained == OwnerRetained <=> Retains
  <1>1. \A org : OwnersOf(org) # {} <=> \E o \in memberships : Owner(o, org)
    BY DEF OwnersOf, Owner
  <1>2. \A org : Lost(org) <=>
            \E r \in Done("change") \union Done("remove"), q \in Done("change") :
              /\ Met(r, q) /\ Call[r].member = Call[q].member
              /\ Call[r].org = org /\ Call[q].role = "OWNER"
    BY DEF Lost, Overtaken, Done
  <1> QED
    BY <1>1, <1>2 DEF OwnerRetained, Retains

\* An organization comes with an Owner, and the last one is lost by who was overtaken.
LEMMA StepRetained ==
    ASSUME OwnersInv, NEW a \in Made, Step(a)
    PROVE  OwnerRetained'
  <1>1. /\ Private(a) /\ Settled(a) /\ Changes(a) /\ met \subseteq met' /\ Tidy /\ Managed(a)
        /\ Targeted(a) /\ MembersInv /\ Retains
    BY StepLocks, Meeting, Retained DEF OwnersInv, MembersInv, LocksInv, Effect
  <1>4. Retains' => OwnerRetained'
    BY Retained, PTL
  <1> SUFFICES ASSUME NEW org \in organizations'
               PROVE  (\E o \in memberships' : Owner(o, org)) \/ Lost(org)'
    BY <1>4 DEF Retains, Owner
  <1>2. CASE org \notin organizations
    <2>1. PICK email : /\ NewMember(a, Call[a].org, email, "OWNER") \in memberships'
                       /\ organizations' = organizations \union {Call[a].org}
      BY <1>1, <1>2 DEF Changes, RegisterCommit, OrganizationCommit
    <2>2. Owner(NewMember(a, org, email, "OWNER"), org)
      BY DEF NewMember, Owner
    <2> QED
      BY <1>2, <2>1, <2>2
  <1>3. CASE org \in organizations
    <2>1. CASE Lost(org)
      BY <1>1, <2>1, LostStays
    <2>2. ASSUME NEW o \in memberships, Owner(o, org)
          PROVE  (\E p \in memberships' : Owner(p, org)) \/ Lost(org)'
      <3>1. CASE o \in memberships'
        BY <2>2, <3>1
      <3>2. CASE Writes(a, o)
        <4>1. Call[a].org = org /\ IsTarget(a, o) /\ pc[a] = "write" /\ o.role = "OWNER"
          BY <1>1, <2>2, <3>2 DEF Writes, Targeted, Managing, IsTarget, Owner
        <4>2. CASE Counting(a)
          <5>1. \/ \E p \in memberships : Owner(p, org) /\ p.id # o.id
                \/ Lost(org)
            BY <1>1, <2>2, <4>1, <4>2 DEF Managed
          <5>2. \A p \in memberships : p.id # o.id => p \in memberships'
            BY <1>1, <4>1, OwnersStep DEF Writes, IsTarget
          <5> QED
            BY <1>1, <5>1, <5>2, LostStays
        <4>3. CASE ~Counting(a)
          <5>1. PICK q \in Made : Overtaken(a, q)
            BY <1>1, <2>2, <4>1, <4>3 DEF Managed
          <5> QED
            BY <3>2, <4>1, <5>1, LosesOwner
        <4> QED
          BY <4>2, <4>3
      <3> QED
        BY <1>1, <2>2, <3>1, <3>2, OwnersStep
    <2>3. (\E o \in memberships : Owner(o, org)) \/ Lost(org)
      BY <1>1, <1>3 DEF Retains
    <2> QED
      BY <2>1, <2>2, <2>3
  <1> QED
    BY <1>2, <1>3

\* Every step keeps all of it.
LEMMA StepOwners ==
    ASSUME OwnersInv, NEW a \in Made, Step(a)
    PROVE  OwnersInv'
  <1>1. MembersInv' /\ AllMet' /\ Made' = Made
    BY StepMembers, StepLocks, Meeting
       DEF OwnersInv, MembersInv, LocksInv, Effect, Private
  <1>2. \A r \in Made : Managed(r)'
    BY OthersManaged, OwnManaged
  <1>3. \A r, q \in Made : r # q => Meets(r, q)'
    BY StepMeets
  <1> QED
    BY <1>1, <1>2, <1>3, StepRetained DEF OwnersInv

\* Nothing of it changes without a step.
LEMMA OwnersStutter ==
    ASSUME OwnersInv, UNCHANGED vars
    PROVE  OwnersInv'
  <1>1. MembersInv' /\ AllMet'
    BY MembersStutter DEF OwnersInv, AllMet, Open, Met, vars, Made
  <1>2. /\ \A r, q : Overtaken(r, q)' <=> Overtaken(r, q)
        /\ \A org : Lost(org)' <=> Lost(org)
    BY DEF Lost, Overtaken, Done, Met, vars, Made
  <1>3. OwnerRetained'
    <2>1. Retains /\ (Retains' => OwnerRetained')
      BY Retained, PTL DEF OwnersInv
    <2> QED
      BY <1>2, <2>1 DEF Retains, Owner, vars
  <1>5. \A r \in Made : Managed(r)'
    <2> TAKE r \in Made
    <2>1. Managed(r) /\ UNCHANGED <<pc, memo, locks, memberships>> /\ Made' = Made
      BY DEF OwnersInv, vars, Made
    <2> QED
      BY <1>2, <2>1 DEF Managed, Counting, IsTarget, Owner
  <1>4. \A r, q \in Made : r # q => Meets(r, q)'
    BY DEF OwnersInv, Meets, Members, Counting, IsTarget, vars, Made
  <1> QED
    BY <1>1, <1>3, <1>4, <1>5 DEF OwnersInv, vars, Made

\* A request that takes the role of an Owner, or removes one, has locked the memberships
\* of the organization and has counted another Owner, and of two that do so together one
\* waits for the other: for every organization and every set of requests, the last Owner
\* is only lost to a promotion that its request has not seen.
THEOREM OwnersAreRetained == Spec => []OwnerRetained
  <1>1. OwnersInv /\ [Next]_vars => OwnersInv'
    BY StepOwners, OwnersStutter DEF Next, Step
  <1>2. OwnersInv => OwnerRetained
    BY DEF OwnersInv
  <1> QED
    BY <1>1, <1>2, InitOwners, PTL DEF Spec

-----------------------------------------------------------------------------
(* Who makes Owners *)

\* S has the first Owners of org, and whom any of S has named.
Closed(org, S) ==
    /\ First(org) \subseteq S
    /\ \A r \in Made : Appoints(r, org) => ~Leads(r, S)

\* Owners are in S, and so is who is about to be one and, of who names one, the signer.
Appointing(r) ==
    /\ Call[r].op \in Appointments /\ Call[r].role = "OWNER"
    /\ pc[r] \notin {"ready", "authenticate", "authorize"} \union Answers
Appointed(org, S) ==
    /\ \A m \in memberships : Owner(m, org) => m.email \in S
    /\ \A i \in invitations : Owner(i, org) => i.email \in S
    /\ \A r \in Made : Appointing(r) /\ Call[r].org = org => SignedBy(r) \intersect S # {}

\* What a request knows of who signed it, what it founds, and who was invited.
Identity(r) ==
    /\ pc[r] \in {"authorize", "createOrganization", "organizationCommit"} =>
           memo[r].row.email \in SignedBy(r)
    /\ pc[r] \in {"registerUser", "registerCommit", "organizationCommit"} =>
           Call[r].org \notin SeedOrgs
    /\ pc[r] \in {"insertUser", "checkMember", "join"} /\ Call[r].op = "accept" =>
           \A i \in invitations : i.id = Call[r].invitation => memo[r].row.email = i.email

AppointInv ==
    /\ OwnersInv /\ SessionsInv
    /\ SeedOrgs \subseteq organizations
    /\ \A m \in memberships : m.email \in EmailsOf(m.id)
    /\ \A r \in Made : Identity(r)
    /\ \A org, S : Closed(org, S) => Appointed(org, S)

\* At the start the Owners are the first ones.
LEMMA InitAppoint == Init => AppointInv
  <1> SUFFICES ASSUME Init
               PROVE  AppointInv
    OBVIOUS
  <1>1. \A r \in Made : pc[r] = "ready"
    BY DEF Init, Made
  <1>2. \A m \in memberships : m.email \in EmailsOf(m.id)
    BY SeedAssumption DEF Init, EmailsOf
  <1>3. \A org, S : Closed(org, S) => Appointed(org, S)
    BY <1>1 DEF Init, Closed, First, Appointed, Owner, Appointing
  <1> QED
    BY <1>1, <1>2, <1>3, InitOwners, InitSessions DEF AppointInv, Init, Identity, SeedOrgs

\* A session and an invitation keep their email.
LEMMA EmailsStay ==
    ASSUME AppointInv, NEW a \in Made, Step(a)
    PROVE  /\ \A s \in sessions : \E t \in sessions' : t.id = s.id /\ t.email = s.email
           /\ \A i \in invitations : \E k \in invitations' : SameOffer(i, k)
           /\ \A r : SignedBy(r) \subseteq SignedBy(r)'
           /\ \A id : EmailsOf(id) \subseteq EmailsOf(id)'
  <1>1. Effect(a) /\ UseInv /\ \A s \in sessions : SessionShape(s)
    BY StepLocks DEF AppointInv, SessionsInv, UseInv, Sound
  <1>2. \A s \in sessions : \E t \in sessions' : t.id = s.id /\ t.email = s.email
    <2>1. \A C \in SUBSET sessions : sessions' = Rewritten(sessions, C, Revoked) =>
              \A s \in sessions : \E t \in sessions' : t.id = s.id /\ t.email = s.email
      <3> SUFFICES ASSUME NEW C \in SUBSET sessions, sessions' = Rewritten(sessions, C, Revoked),
                          NEW s \in sessions
                   PROVE  \E t \in sessions' : t.id = s.id /\ t.email = s.email
        OBVIOUS
      <3>1. CASE s \notin C
        BY <3>1 DEF Rewritten
      <3>2. CASE s \in C
        <4> DEFINE t == [s EXCEPT !.revoked = TRUE]
        <4>1. t \in sessions' /\ t.id = s.id /\ t.email = s.email
          BY <1>1, <3>2 DEF Rewritten, Revoked, SessionShape
        <4> QED
          BY <4>1
      <3> QED
        BY <3>1, <3>2
    <2>2. \/ sessions \subseteq sessions'
          \/ \E C \in SUBSET sessions : sessions' = Rewritten(sessions, C, Revoked)
      BY <1>1 DEF Effect, Changes, OpenSession, Logout, RegisterCommit, UseLink, ScriptCommit,
         Join, Locked, Reject, tables, accounts
    <2> QED
      BY <2>1, <2>2
  <1>3. \A i \in invitations : \E k \in invitations' : SameOffer(i, k)
    <2> TAKE i \in invitations
    <2>1. PICK k \in invitations' : k.id = i.id
      BY <1>1, InvitationsStep DEF InvitationsKept
    <2>2. ~(k = NewInvitation(a) /\ pc[a] = "insertInvitation")
      BY <1>1, <2>1 DEF NewInvitation, UseInv, Identified, LocksInv, Tidy, Answers
    <2>3. \E j \in invitations : j.id = k.id /\ SameOffer(j, k)
      BY <1>1, <2>2, InvitationsBecome DEF Becomes
    <2> QED
      BY <1>1, <2>1, <2>3 DEF UseInv, Identified
  <1>4. \A r : SignedBy(r) \subseteq SignedBy(r)'
    BY <1>2 DEF SignedBy
  <1>5. \A id : EmailsOf(id) \subseteq EmailsOf(id)'
    BY <1>3, <1>4 DEF EmailsOf, SameOffer
  <1> QED
    BY <1>2, <1>3, <1>4, <1>5

\* Who founded an organization has founded it for good, and nobody stops naming Owners.
LEMMA ClosedBefore ==
    ASSUME AppointInv, NEW a \in Made, Step(a), NEW org, NEW S, Closed(org, S)'
    PROVE  Closed(org, S)
  <1>1. Private(a) /\ Settled(a) /\ Follows(a)
    BY StepLocks DEF AppointInv, SessionsInv, UseInv, Effect
  <1>2. \A r \in Made : pc[r] # "ready" => pc'[r] # "ready"
    BY <1>1 DEF Private, Follows
  <1>3. \A r, op : r \in Done(op) => r \in Done(op)'
    BY <1>1 DEF Done, Private, Settled, Answers
  <1>4. \A r \in Made : Founds(r, org) => Founds(r, org)'
    BY <1>3, EmailsStay DEF Founds
  <1>5. First(org) \subseteq First(org)'
    BY <1>1, <1>4, EmailsStay DEF First, Private
  <1>6. \A r \in Made : Appoints(r, org) /\ Leads(r, S) =>
            Appoints(r, org)' /\ Leads(r, S)'
    BY <1>2, EmailsStay DEF Appoints, Leads, Named
  <1> QED
    BY <1>1, <1>5, <1>6 DEF Closed, Private

\* What a request knows stays so, and it looks before it knows.
LEMMA StepIdentity ==
    ASSUME AppointInv, NEW a \in Made, Step(a), NEW r \in Made
    PROVE  Identity(r)'
  <1>1. /\ Private(a) /\ Settled(a) /\ Follows(a) /\ Tidy /\ Tidy' /\ Staged(a) /\ Staged(a)'
        /\ UseInv /\ UseInv' /\ Identity(r) /\ Effect(a) /\ a \in Requests
    BY StepLocks, StepUse DEF AppointInv, SessionsInv, UseInv, Effect, LocksInv, Tidy
  <1>2. CASE r # a
    <2>1. pc'[r] = pc[r] /\ memo'[r] = memo[r]
      BY <1>1, <1>2 DEF Private
    <2>2. ASSUME pc[r] \in {"insertUser", "checkMember", "join"}, Call[r].op = "accept",
                 NEW k \in invitations', k.id = Call[r].invitation
          PROVE  memo[r].row.email = k.email
      <3>1. PICK i \in invitations : i.id = Call[r].invitation
        BY <1>1, <2>2 DEF UseInv, Offered, Accepting, Joining, Invites
      <3>2. ~(k = NewInvitation(a) /\ pc[a] = "insertInvitation")
        BY <1>1, <2>2, <3>1 DEF NewInvitation, UseInv, Identified, LocksInv, Tidy, Answers
      <3>3. \E j \in invitations : SameOffer(j, k)
        BY <1>1, <3>2, InvitationsBecome DEF Becomes
      <3> QED
        BY <1>1, <2>2, <3>3 DEF Identity, SameOffer
    <2>3. SignedBy(r) \subseteq SignedBy(r)'
      BY EmailsStay
    <2> QED
      BY <1>1, <2>1, <2>2, <2>3 DEF Identity, SeedOrgs
  <1>3. CASE r = a
    <2> USE DEF ReadInto, Read, Remember, Reject, Answer, Goto, Tidy, Made, tables, governance,
                accounts
    <2>1. CASE Authenticate(a) /\ pc'[a] \in {"authorize", "createOrganization"}
      <3>1. PICK u : /\ memo'[a].row = u /\ sessions' = sessions
                     /\ \E s \in sessions : s.id = Call[a].cookie /\ s.email = u.email
        BY <1>1, <2>1 DEF Authenticate
      <3> QED
        BY <1>3, <2>1, <3>1 DEF Identity, SignedBy
    <2>2. CASE CreateOrganization(a) /\ pc'[a] = "organizationCommit"
      <3>1. /\ pc[a] = "createOrganization" /\ memo' = memo /\ sessions' = sessions
            /\ Call[a].org \notin organizations
        BY <1>1, <2>2 DEF CreateOrganization, Insert
      <3> QED
        BY <1>1, <1>3, <2>2, <3>1 DEF Identity, SignedBy, AppointInv
    <2>3. CASE pc'[a] \in {"registerUser", "registerCommit"}
      <3>1. Call[a].org \notin organizations \/ pc[a] = "registerUser"
        BY <1>1, <2>3 DEF Follows, RegisterOrganization, RegisterUser, Insert
      <3> QED
        BY <1>1, <1>3, <2>3, <3>1 DEF Identity, AppointInv, SeedOrgs
    <2>4. CASE pc'[a] \in {"insertUser", "checkMember", "join"} /\ Call[a].op = "accept"
      <3>1. Invites(a) /\ invitations' = invitations
        BY <1>1, <2>4 DEF Follows, Bootstrap, FindInvited, LockInvited, InsertUser, CheckMember,
           UseInv, Offered, Accepting, Joining, Staged, BootstrapSteps, Match, Insert
      <3>2. \A i \in invitations : i.id = Call[a].invitation => i = InvitationOf(a)
        BY <1>1, <3>1 DEF UseInv, Identified, Invites, InvitationOf
      <3>3. CASE InsertUser(a) \/ CheckMember(a)
        <4>1. memo'[a].row = memo[a].row /\ pc[a] \in {"insertUser", "checkMember"}
          BY <1>1, <2>4, <3>3 DEF InsertUser, CheckMember, Insert
        <4> QED
          BY <1>1, <1>3, <2>4, <3>1, <4>1 DEF Identity
      <3>4. CASE FindInvited(a) /\ pc'[a] = "insertUser"
        <4>1. memo'[a].row = InvitedUser(a)
          BY <1>1, <3>4 DEF FindInvited, Match
        <4>2. InvitedUser(a).email = InvitationOf(a).email
          BY DEF InvitedUser
        <4> QED
          BY <1>3, <2>4, <3>1, <3>2, <3>4, <4>1, <4>2 DEF Identity
      <3>5. CASE LockInvited(a) /\ pc'[a] = "checkMember"
        <4>1. PICK u \in Invited(a) : memo' = [memo EXCEPT ![a] =
                  [memo[a] EXCEPT !.row = [u EXCEPT !.verified = TRUE], !.matched = {}]]
          BY <1>1, <3>5 DEF LockInvited
        <4>2. UserShape(u) /\ u.email = InvitationOf(a).email
          BY DEF Invited, UserOf, AppointInv, SessionsInv
        <4>3. memo'[a].row.email = InvitationOf(a).email
          BY <1>1, <4>1, <4>2 DEF UserShape
        <4> QED
          BY <1>3, <2>4, <3>1, <3>2, <3>5, <4>3 DEF Identity
      <3>6. ~Bootstrap(a)
        BY <1>1, <2>4 DEF Bootstrap, Staged, BootstrapSteps
      <3> QED
        BY <1>1, <2>4, <3>3, <3>4, <3>5, <3>6 DEF Follows
    <2>5. CASE ~(\/ pc'[a] \in {"authorize", "createOrganization", "organizationCommit",
                                "registerUser", "registerCommit"}
                 \/ pc'[a] \in {"insertUser", "checkMember", "join"} /\ Call[a].op = "accept")
      BY <1>3, <2>5 DEF Identity
    <2> QED
      BY <1>1, <2>1, <2>2, <2>3, <2>4, <2>5 DEF Follows
  <1> QED
    BY <1>2, <1>3

\* Whom a new membership is of.
LEMMA Newcomer ==
    ASSUME AppointInv, NEW a \in Made, Step(a), NEW m, Added(a, m)
    PROVE  m.email \in EmailsOf(a)' /\ a \notin Seeds /\ m.id = a /\ m.org = OrgOf(a)
  <1>1. Staged(a) /\ Identity(a) /\ UseInv /\ a \in Requests
    BY DEF AppointInv, SessionsInv, UseInv, LocksInv, Tidy
  <1>2. a \notin Seeds /\ m.id = a /\ m.org = OrgOf(a)
    BY <1>1, SeedAssumption DEF Added, Entered, NewMember
  <1>3. CASE pc[a] = "registerCommit" \/ pc[a] = "bootstrapCommit" \/ pc[a] = "addCommit"
    <2>1. Call[a].op \in {"register", "bootstrap", "add"} /\ m.email = Call[a].email
      BY <1>1, <1>3 DEF Added, Entered, NewMember, Staged, BootstrapSteps
    <2> QED
      BY <1>2, <2>1 DEF EmailsOf
  <1>4. CASE pc[a] = "organizationCommit"
    <2>1. Call[a].op = "createOrganization" /\ m.email \in SignedBy(a)'
      BY <1>1, <1>4, EmailsStay DEF Added, Entered, NewMember, Staged, Identity
    <2> QED
      BY <1>2, <2>1 DEF EmailsOf
  <1>5. CASE pc[a] = "join"
    <2>1. Call[a].op = "accept" /\ m.email = memo[a].row.email /\ Invites(a)
      BY <1>1, <1>5 DEF Added, Entered, NewMember, Staged, AcceptSteps, Joining, UseInv,
         Offered, Accepting
    <2>2. PICK i \in invitations : i.id = Call[a].invitation /\ m.email = i.email
      BY <1>1, <1>5, <2>1 DEF Identity, Invites
    <2>3. PICK k \in invitations' : SameOffer(i, k)
      BY EmailsStay
    <2> QED
      BY <1>2, <2>1, <2>2, <2>3 DEF EmailsOf, SameOffer
  <1> QED
    BY <1>2, <1>3, <1>4, <1>5 DEF Added, Entered

\* Whoever is named by a is in S.
LEMMA AppointsInto ==
    ASSUME AppointInv, NEW a \in Made, Step(a), NEW org, NEW S, Closed(org, S)',
           Appointing(a), Call[a].org = org
    PROVE  Named(a)' \subseteq S
  <1>1. Closed(org, S) /\ Private(a) /\ Follows(a)
    BY ClosedBefore, StepLocks DEF AppointInv, SessionsInv, UseInv, Effect
  <1>2. SignedBy(a)' \intersect S # {}
    BY <1>1, EmailsStay DEF AppointInv, Appointed
  <1>3. Appoints(a, org)'
    BY <1>1 DEF Appoints, Appointing, Follows
  <1> QED
    BY <1>1, <1>2, <1>3 DEF Closed, Leads, Private

\* An Owner comes by a founding, by the request of an Owner or by an invitation of one.
LEMMA StepMembersAppointed ==
    ASSUME AppointInv, NEW a \in Made, Step(a), NEW org, NEW S, Closed(org, S)',
           NEW m \in memberships', Owner(m, org)
    PROVE  m.email \in S
  <1>1. /\ Closed(org, S) /\ Appointed(org, S) /\ MembersInv /\ Staged(a) /\ Identity(a)
        /\ UseInv /\ Managed(a) /\ Targeted(a) /\ Made' = Made
    BY ClosedBefore, StepLocks
       DEF AppointInv, OwnersInv, SessionsInv, UseInv, LocksInv, MembersInv, Effect, Private
  <1>2. CASE m \in memberships
    BY <1>1, <1>2 DEF Appointed
  <1>3. CASE m \notin memberships /\ Added(a, m)
    <2>1. m.email \in EmailsOf(a)' /\ OrgOf(a) = org
      BY <1>3, Newcomer DEF Owner
    <2>2. ASSUME Founds(a, org)'
          PROVE  m.email \in S
      BY <1>1, <2>1, <2>2 DEF Closed, First
    <2>3. CASE pc[a] = "registerCommit" \/ pc[a] = "organizationCommit"
      <3>1. /\ Call[a].org = org /\ org \notin SeedOrgs
            /\ Call[a].op \in {"register", "createOrganization"}
        BY <1>1, <2>1, <2>3 DEF Staged, Identity, OrgOf
      <3>2. CASE pc[a] = "organizationCommit"
        BY <1>1, <1>3, <2>2, <3>1, <3>2 DEF Founds, Added, Entered, Done, Staged, SeedOrgs
      <3>3. CASE pc[a] = "registerCommit"
        <4>1. RegisterCommit(a)
          <5>1. Changes(a)
            BY StepLocks DEF AppointInv, SessionsInv, UseInv, Effect
          <5> QED
            BY <1>3, <3>3, <5>1 DEF Changes, OrganizationCommit, BootstrapCommit, AddCommit,
               Write, Join
        <4>2. \E s \in sessions' : s.id = a
          <5> DEFINE s == NewSession(a, Call[a].email, Call[a].password)
          <5>1. s \in sessions' /\ s.id = a
            BY <4>1 DEF RegisterCommit, NewSession
          <5> QED
            BY <5>1
        <4>3. Call[a].op = "register"
          BY <1>1, <3>3 DEF Staged
        <4>4. Founds(a, org)'
          BY <3>1, <4>2, <4>3 DEF Founds, SeedOrgs
        <4> QED
          BY <2>2, <4>4
      <3> QED
        BY <2>3, <3>2, <3>3
    <2>4. CASE pc[a] = "bootstrapCommit"
      <3>1. Call[a].org = org /\ Call[a].op = "bootstrap"
        BY <1>1, <2>1, <2>4 DEF Staged, BootstrapSteps, OrgOf
      <3> QED
        BY <1>1, <1>3, <2>2, <2>4, <3>1 DEF Founds, Added, Entered, Done
    <2>5. CASE pc[a] = "addCommit"
      <3>1. /\ Call[a].org = org /\ Call[a].op = "add" /\ m.email = Call[a].email
            /\ Call[a].role = "OWNER"
        BY <1>1, <1>3, <2>1, <2>5 DEF Staged, OrgOf, Added, Entered, NewMember, Owner
      <3>2. Named(a)' \subseteq S
        BY <2>5, <3>1, AppointsInto DEF Appointing, Appointments, Answers
      <3> QED
        BY <3>1, <3>2 DEF Named
    <2>6. CASE pc[a] = "join"
      <3>1. /\ Call[a].op = "accept" /\ m.email = memo[a].row.email /\ Invites(a)
            /\ InvitationOf(a).role = "OWNER"
        BY <1>1, <1>3, <2>6 DEF Added, Entered, NewMember, Staged, AcceptSteps, Joining,
           UseInv, Offered, Accepting, Owner
      <3>2. /\ InvitationOf(a) \in invitations /\ InvitationOf(a).id = Call[a].invitation
            /\ InvitationOf(a).org = org
        BY <2>1, <3>1 DEF Invites, InvitationOf, OrgOf
      <3> QED
        BY <1>1, <2>6, <3>1, <3>2 DEF Identity, Appointed, Owner
    <2> QED
      BY <1>3, <2>3, <2>4, <2>5, <2>6 DEF Added, Entered
  <1>4. CASE Writes(a, m) /\ Call[a].op = "change" /\ m.role = Call[a].role
    <2>1. PICK n \in memberships : n.id = m.id /\ n.org = m.org /\ n.email = m.email
      BY <1>1, <1>4, MembersStep DEF Lasts, Added, Writes, Joins
    <2>2. /\ pc[a] = "write" /\ n.id = Call[a].member /\ Call[a].org = org
          /\ Call[a].role = "OWNER"
      BY <1>1, <1>4, <2>1 DEF Writes, IsTarget, Managed, Managing, Targeted, Owner
    <2>3. Named(a)' \subseteq S
      BY <1>4, <2>2, AppointsInto DEF Appointing, Appointments, Answers
    <2>4. n.email \in EmailsOf(Call[a].member)'
      BY <2>2, EmailsStay DEF AppointInv
    <2> QED
      BY <1>4, <2>1, <2>3, <2>4 DEF Named
  <1> QED
    BY <1>1, <1>2, <1>3, <1>4, OwnersStep

\* An Owner is invited by an Owner.
LEMMA StepInvitationsAppointed ==
    ASSUME AppointInv, NEW a \in Made, Step(a), NEW org, NEW S, Closed(org, S)',
           NEW k \in invitations', Owner(k, org)
    PROVE  k.email \in S
  <1>1. /\ Appointed(org, S) /\ Staged(a) /\ UseInv /\ Effect(a)
    BY ClosedBefore, StepLocks DEF AppointInv, SessionsInv, UseInv, LocksInv
  <1>2. CASE k = NewInvitation(a) /\ pc[a] = "insertInvitation"
    <2>1. /\ Call[a].op = "invite" /\ Call[a].org = org /\ Call[a].role = "OWNER"
          /\ k.email = Call[a].email
      BY <1>1, <1>2 DEF Staged, InviteSteps, NewInvitation, Owner
    <2>2. Named(a)' \subseteq S
      BY <1>2, <2>1, AppointsInto DEF Appointing, Appointments, Answers
    <2> QED
      BY <2>1, <2>2 DEF Named
  <1>3. CASE \E i \in invitations : SameOffer(i, k)
    BY <1>1, <1>3 DEF Appointed, SameOffer, Owner
  <1> QED
    BY <1>1, <1>2, <1>3, InvitationsBecome DEF Becomes

\* The role of the caller lets only an Owner name an Owner.
LEMMA StepAppointing ==
    ASSUME AppointInv, NEW a \in Made, Step(a), NEW org, NEW S, Closed(org, S)',
           NEW r \in Made, Appointing(r)', Call[r].org = org
    PROVE  SignedBy(r)' \intersect S # {}
  <1>1. /\ Appointed(org, S) /\ Private(a) /\ Settled(a) /\ Follows(a) /\ Identity(a) /\ Tidy
    BY ClosedBefore, StepLocks DEF AppointInv, SessionsInv, UseInv, LocksInv, Effect
  <1>2. CASE Appointing(r)
    <2>1. SignedBy(r) \intersect S # {}
      BY <1>1, <1>2 DEF Appointed
    <2> QED
      BY <2>1, EmailsStay
  <1>3. CASE ~Appointing(r)
    <2>1. r = a /\ pc[a] \in {"ready", "authenticate", "authorize"}
      BY <1>1, <1>3 DEF Appointing, Private, Settled
    <2>2. /\ Call[a].op \in Appointments /\ Call[a].role = "OWNER" /\ "role" \in DOMAIN Call[a]
          /\ pc'[a] \notin {"authenticate", "authorize"} \union Answers
      BY <1>1, <2>1, CallAssumption DEF Appointing, Tidy
    <2>3. ~Begin(a)
      <3>1. a \in Requests /\ Call[a].op \notin Unsigned \union {"importCatalog"}
        BY <1>1, <2>2 DEF Appointments, Unsigned, Tidy
      <3>2. Entry(a) = "authenticate"
        BY <3>1, CallAssumption DEF Entry
      <3> QED
        BY <2>2, <3>2 DEF Begin, Goto, Made
    <2>4. ~Authenticate(a)
      BY <2>2 DEF Authenticate, ReadInto, Reject, Answer, Answers, Goto, Made, Appointments,
         Personal
    <2>5. Authorize(a)
      BY <1>1, <2>1, <2>2, <2>3, <2>4 DEF Settled
    <2>6. PICK m \in MemberOf(org, memo[a].row.email) : Permits(a, m.role)
      BY <2>1, <2>2, <2>5 DEF Authorize, Reject, Answer, Answers, Goto, Made
    <2>7. Owner(m, org) /\ m \in memberships /\ m.email = memo[a].row.email
      BY <2>2, <2>6 DEF Permits, MemberOf, Owner, Managers, Appointments
    <2>8. m.email \in S /\ m.email \in SignedBy(a)
      BY <1>1, <2>5, <2>7 DEF Appointed, Authorize, Identity
    <2> QED
      BY <2>1, <2>8, EmailsStay
  <1> QED
    BY <1>2, <1>3

\* Every step keeps all of it.
LEMMA StepAppoint ==
    ASSUME AppointInv, NEW a \in Made, Step(a)
    PROVE  AppointInv'
  <1>1. OwnersInv' /\ SessionsInv' /\ Made' = Made
    BY StepOwners, StepSessions, StepLocks
       DEF AppointInv, SessionsInv, UseInv, Effect, Private
  <1>2. (SeedOrgs \subseteq organizations)'
    BY StepLocks DEF AppointInv, SessionsInv, UseInv, Effect, Changes, RegisterCommit,
       OrganizationCommit, SeedOrgs
  <1>3. ASSUME NEW m \in memberships'
        PROVE  (m.email \in EmailsOf(m.id))'
    <2>1. CASE Lasts(m, memberships)
      <3>1. PICK n \in memberships : n.id = m.id /\ n.email = m.email
        BY <2>1 DEF Lasts
      <3>2. n.email \in EmailsOf(n.id)'
        BY EmailsStay DEF AppointInv
      <3> QED
        BY <3>1, <3>2 DEF EmailsOf, SignedBy
    <2>2. CASE Added(a, m)
      <3>1. m.id = a /\ m.email \in EmailsOf(a)'
        BY <2>2, Newcomer
      <3> QED
        BY <3>1 DEF EmailsOf, SignedBy
    <2> QED
      BY <2>1, <2>2, MembersStep DEF AppointInv, OwnersInv
  <1>4. \A r \in Made : Identity(r)'
    BY StepIdentity
  <1>5. ASSUME NEW org, NEW S, Closed(org, S)'
        PROVE  Appointed(org, S)'
    BY <1>1, <1>5, StepMembersAppointed, StepInvitationsAppointed, StepAppointing
       DEF Appointed, Owner
  <1> QED
    BY <1>1, <1>2, <1>3, <1>4, <1>5 DEF AppointInv

\* Nothing of it changes without a step.
LEMMA AppointStutter ==
    ASSUME AppointInv, UNCHANGED vars
    PROVE  AppointInv'
  <1>1. OwnersInv' /\ SessionsInv' /\ Made' = Made
    BY OwnersStutter, SessionsStutter DEF AppointInv, vars, Made
  <1>2. /\ \A r : SignedBy(r)' = SignedBy(r)
        /\ \A id : EmailsOf(id)' = EmailsOf(id)
        /\ \A op : Done(op)' = Done(op)
    BY DEF SignedBy, EmailsOf, Done, vars, Made
  <1>3. /\ \A m \in memberships' : (m.email \in EmailsOf(m.id))'
        /\ \A r \in Made : Identity(r)'
        /\ (SeedOrgs \subseteq organizations)'
    BY <1>2 DEF AppointInv, Identity, SeedOrgs, vars
  <1>4. \A r, org : Founds(r, org)' <=> Founds(r, org)
    BY <1>2 DEF Founds, vars
  <1>5. \A org, S : Closed(org, S)' => Closed(org, S)
    BY <1>1, <1>2, <1>4 DEF Closed, First, Appoints, Leads, Named, vars
  <1>6. \A org, S : Appointed(org, S) => Appointed(org, S)'
    BY <1>1, <1>2 DEF Appointed, Appointing, Owner, vars
  <1> QED
    BY <1>1, <1>3, <1>5, <1>6 DEF AppointInv, SeedOrgs

\* OwnersMakeOwners: nobody becomes an Owner of an organization but the first ones and whom
\* an Owner adds, promotes or invites, whatever races, whoever has been demoted or removed
\* since, and however long the chain from one to the next is.
THEOREM OwnersAreNamed == Spec => []OwnersMakeOwners
  <1>1. AppointInv /\ [Next]_vars => AppointInv'
    BY StepAppoint, AppointStutter DEF Next, Step
  <1>2. AppointInv => OwnersMakeOwners
    <2> SUFFICES ASSUME AppointInv, NEW m \in memberships, m.role = "OWNER",
                        NEW S \in SUBSET (Emails \ {m.email}), First(m.org) \subseteq S,
                        \A r \in Made : Appoints(r, m.org) => ~Leads(r, S)
                 PROVE  FALSE
      BY DEF OwnersMakeOwners
    <2>1. Closed(m.org, S)
      BY DEF Closed
    <2> QED
      BY <2>1 DEF AppointInv, Appointed, Owner
  <1> QED
    BY <1>1, <1>2, InitAppoint, PTL DEF Spec

-----------------------------------------------------------------------------
(* Rivals *)

\* Links and sessions that have one id are of one user.
Told ==
    /\ \A l, m \in links : l.id = m.id => l.email = m.email
    /\ \A s \in sessions : Joined(s.id)
    /\ \A s, t \in sessions : s.id = t.id => s.email = t.email

\* What a request has found or locked is of its user or its organization.
Ours(r, k) ==
    /\ k[1] = "links" =>
           \E l \in links : k = Row("links", l.id) /\ l.email = OwnerOf(r)
    /\ k[1] = "sessions" =>
           \E s \in sessions : k = Row("sessions", s.id) /\ s.email = OwnerOf(r)
    /\ k[1] = "invitations" /\ Call[r].op = "invite" =>
           \E i \in invitations : /\ k = Row("invitations", i.id)
                                  /\ i.org = Call[r].org /\ i.email = Call[r].email
    /\ k[1] = "memberships" =>
           /\ Joined(k[2])
           /\ \A m \in memberships : m.id = k[2] => m.org = Call[r].org
Claims(r) == locks[r] \union memo[r].matched

\* What a request remembers is the user it was asked about, or whose link it was given.
Adding == {"bootstrapMember", "insertMember", "bootstrapCommit", "addCommit"}
Resetting == {"matchLinks", "retireAll", "matchSessions", "revokeSessions", "useLink",
              "scriptSessions", "scriptUser", "scriptLock", "scriptCommit"}
Knows(r) ==
    LET email == memo[r].row.email
    IN  /\ pc[r] \in Adding \/ (pc[r] = "insertUser" /\ Call[r].op = "bootstrap") =>
               email = Call[r].email
        /\ pc[r] \in Resetting => email = OwnerOf(r)
        /\ pc[r] \in {"scriptLock", "scriptCommit", "checkMember", "join"} =>
               \A k \in locks[r] : k[1] \in {"users", "userKeys"} => k[2] = email

DeadlocksInv ==
    /\ AppointInv /\ LinksInv
    /\ Told
    /\ \A r \in Made : Knows(r) /\ \A k \in Claims(r) : Ours(r, k)

\* At the start nothing is found.
LEMMA InitDeadlocks == Init => DeadlocksInv
  <1> SUFFICES ASSUME Init
               PROVE  DeadlocksInv
    OBVIOUS
  <1>1. \A r \in Made : pc[r] = "ready" /\ Claims(r) = {}
    BY DEF Init, Made, Blank, Claims
  <1>2. Told
    BY SeedAssumption DEF Init, Told, Joined
  <1> QED
    BY <1>1, <1>2, InitAppoint, InitLinks DEF DeadlocksInv, Knows, Adding, Resetting

\* A link keeps its id and its email, and a new one is that of its request.
LEMMA LinksStay ==
    ASSUME UseInv, NEW a \in Made, Effect(a)
    PROVE  /\ \A l \in links : \E k \in links' : k.id = l.id /\ k.email = l.email
           /\ \A k \in links' : \/ k = NewLink(a) /\ pc[a] = "insertLink"
                                \/ \E l \in links : l.id = k.id /\ l.email = k.email
  <1> DEFINE Goes(S, T) == /\ \A l \in S : \E k \in T : k.id = l.id /\ k.email = l.email
                           /\ \A k \in T : \E l \in S : l.id = k.id /\ l.email = k.email
  <1>1. ASSUME NEW C \in SUBSET links
        PROVE  Goes(links, Rewritten(links, C, Used))
    <2> DEFINE Now(l) == IF l \in C THEN [l EXCEPT !.used = TRUE] ELSE l
    <2>1. \A l \in links : Now(l).id = l.id /\ Now(l).email = l.email
      BY DEF UseInv, Identified, LinkShape
    <2>2. /\ \A l \in links : Now(l) \in Rewritten(links, C, Used)
          /\ \A k \in Rewritten(links, C, Used) : \E l \in links : k = Now(l)
      BY DEF Rewritten, Used
    <2> HIDE DEF Now
    <2> QED
      BY <2>1, <2>2
  <1>2. Locked(a, "links", links) \in SUBSET links
    BY DEF Locked
  <1>3. CASE links' = links
    BY <1>3
  <1>4. CASE IssueCommit(a)
    <2>1. /\ pc[a] = "insertLink"
          /\ links' = Rewritten(links, Locked(a, "links", links), Used) \union {NewLink(a)}
      BY <1>4 DEF IssueCommit
    <2> QED
      BY <1>1, <1>2, <2>1
  <1>5. CASE RetireUndelivered(a)
    BY <1>1, <1>5 DEF RetireUndelivered
  <1>6. CASE UseLink(a)
    BY <1>1, <1>2, <1>6 DEF UseLink
  <1> QED
    BY <1>3, <1>4, <1>5, <1>6 DEF Effect, Changes

\* A session is an earlier one, or the first of its request.
LEMMA SessionsBecome ==
    ASSUME AppointInv, NEW a \in Made, Step(a), NEW t \in sessions'
    PROVE  \/ \E s \in sessions : s.id = t.id /\ s.email = t.email
           \/ /\ t.id = a /\ pc[a] \in {"openSession", "registerCommit", "join"}
              /\ pc'[a] \in MailSteps \union Answers
              /\ t.email = IF pc[a] = "registerCommit" THEN Call[a].email ELSE memo[a].row.email
  <1>1. Changes(a) /\ Tidy /\ \A s \in sessions : SessionShape(s)
    BY StepLocks DEF AppointInv, SessionsInv, UseInv, LocksInv, Sound, Effect
  <1>2. \A C \in SUBSET sessions : t \in Rewritten(sessions, C, Revoked) =>
            \E s \in sessions : s.id = t.id /\ s.email = t.email
    BY <1>1 DEF Rewritten, Revoked, SessionShape
  <1>3. CASE OpenSession(a) \/ RegisterCommit(a) \/ (Join(a) /\ sessions' # sessions)
    <2> DEFINE email == IF pc[a] = "registerCommit" THEN Call[a].email ELSE memo[a].row.email
               new == NewSession(a, email, Call[a].password)
    <2>1. /\ pc[a] \in {"openSession", "registerCommit", "join"}
          /\ sessions' = sessions \union {new}
      BY <1>3 DEF OpenSession, RegisterCommit, Join, Reject, tables, accounts
    <2>2. pc'[a] \in {"issue", "done"}
      BY <1>1, <1>3 DEF OpenSession, RegisterCommit, Join, Reject, tables, accounts, Answer,
         Committed, Goto, Made
    <2>3. new.id = a /\ new.email = email
      BY DEF NewSession
    <2> QED
      BY <2>1, <2>2, <2>3 DEF MailSteps, Answers
  <1>4. CASE Logout(a) \/ UseLink(a) \/ ScriptCommit(a)
    BY <1>2, <1>4 DEF Logout, UseLink, ScriptCommit, Locked
  <1> QED
    BY <1>1, <1>3, <1>4 DEF Changes

\* So they are told by their ids.
LEMMA StepTold ==
    ASSUME DeadlocksInv, NEW a \in Made, Step(a)
    PROVE  Told'
  <1>1. /\ Effect(a) /\ Private(a) /\ Settled(a) /\ UseInv /\ Tidy /\ a \in Requests
        /\ AppointInv /\ Sent /\ Told
    BY StepLocks DEF DeadlocksInv, AppointInv, LinksInv, SessionsInv, UseInv, LocksInv, Tidy,
       Effect
  <1>2. ASSUME NEW l \in links', NEW m \in links', l.id = m.id
        PROVE  l.email = m.email
    <2>1. pc[a] = "insertLink" => \A k \in links : k.id # NewLink(a).id
      BY <1>1 DEF Sent, NewLink, Answers
    <2> QED
      BY <1>1, <1>2, <2>1, LinksStay DEF Told
  <1>3. \A s \in sessions : Joined(s.id)' /\
            (pc[a] \in {"openSession", "registerCommit", "join"} => s.id # a)
    BY <1>1, JoinedStays DEF Told, Joined, MailSteps, Answers
  <1>4. ASSUME NEW s \in sessions'
        PROVE  Joined(s.id)'
    <2>1. CASE \E t \in sessions : t.id = s.id
      BY <1>3, <2>1 DEF Joined
    <2>2. CASE s.id = a /\ pc'[a] \in MailSteps \union Answers
      BY <1>1, <2>2 DEF Joined, Private
    <2> QED
      BY <1>1, <2>1, <2>2, SessionsBecome
  <1>5. ASSUME NEW s \in sessions', NEW t \in sessions', s.id = t.id
        PROVE  s.email = t.email
    BY <1>1, <1>3, <1>5, SessionsBecome DEF Told
  <1> QED
    BY <1>2, <1>4, <1>5 DEF Told

\* Whose links a request is about does not change, once it has found its own.
LEMMA OwnerStays ==
    ASSUME DeadlocksInv, NEW a \in Made, Step(a), NEW r \in Made,
           Call[r].op = "resend" => memo'[r].row.email = memo[r].row.email,
           Call[r].op \in LinkOps => \E l \in links : l.id = Call[r].link
    PROVE  OwnerOf(r)' = OwnerOf(r)
  <1>1. CASE Call[r].op \in LinkOps
    <2>1. PICK l \in links : l.id = Call[r].link
      BY <1>1
    <2>2. PICK k \in links' : k.id = l.id /\ k.email = l.email
      BY StepLocks, LinksStay DEF DeadlocksInv, LinksInv, UseInv
    <2>3. LinkOf(r).email = l.email
      BY <2>1 DEF LinkOf, DeadlocksInv, Told
    <2>4. LinkOf(r)'.email = k.email
      BY <2>1, <2>2, StepTold DEF LinkOf, Told
    <2> QED
      BY <1>1, <2>2, <2>3, <2>4 DEF OwnerOf, LinkOps
  <1>2. CASE Call[r].op \notin LinkOps
    BY <1>2 DEF OwnerOf, LinkOps
  <1> QED
    BY <1>1, <1>2

\* Who uses a link has found it.
LEMMA HasLink ==
    ASSUME DeadlocksInv, NEW r \in Made, pc[r] \in Holding \union {"lockLink"}
    PROVE  \E l \in links : l.id = Call[r].link
  <1>1. Row("links", Call[r].link) \in Claims(r)
    BY DEF DeadlocksInv, LinksInv, UseInv, LocksInv, Staged, Claims
  <1> QED
    BY <1>1 DEF DeadlocksInv, Ours, Row

\* What is found and locked of links and sessions, and where.
LEMMA Tokens ==
    ASSUME LocksInv, NEW r \in Made, NEW k \in Claims(r), k[1] \in {"links", "sessions"}
    PROVE  /\ k[1] = "links" => pc[r] \in {"retire", "lockLink", "insertLink"} \union Holding
           /\ k[1] = "sessions" => pc[r] \in {"revokeSessions", "useLink", "scriptUser",
                                              "scriptLock", "scriptCommit"}
           /\ Call[r].op \in LinkOps => pc[r] \in Holding \union {"lockLink"}
  <1>1. Staged(r) /\ Aims(r)
    BY DEF LocksInv, Staged
  <1>2. CASE k \in locks[r]
    <2>1. Fits(k, pc[r])
      BY <1>1, <1>2 DEF Staged
    <2> QED
      BY <1>1, <2>1 DEF Fits, Staged, LinkSteps, Ends, Answers, Holding
  <1>3. CASE k \in memo[r].matched
    BY <1>1, <1>3 DEF Aims, Staged, LinkSteps, Ends, Answers, Holding
  <1> QED
    BY <1>2, <1>3 DEF Claims

\* The statements that lock what they matched find nothing else.
ScanStep(a) ==
    \/ Retire(a) \/ LockLink(a) \/ RetireAll(a) \/ RevokeSessions(a) \/ ScriptFlushSessions(a)
    \/ LockOwners(a) \/ RevokeInvitations(a) \/ LockInvitation(a)
LEMMA Scanned ==
    ASSUME Tidy, NEW a \in Made, ScanStep(a), pc'[a] \notin Answers
    PROVE  Claims(a)' \subseteq Claims(a) /\ memo'[a].row = memo[a].row /\ UNCHANGED tables
  <1>1. ~Reject(a)
    BY DEF Reject, Answer, Answers, Goto, Made
  <1>2. \E to, still : Lock(a, to, still)
    BY <1>1 DEF ScanStep, Retire, LockLink, RetireAll, RevokeSessions, ScriptFlushSessions,
       LockOwners, RevokeInvitations, LockInvitation
  <1>3. PICK to, still : Scans(a, to, still)
    BY <1>2, LockScans
  <1> QED
    BY <1>3 DEF Scans, Claims

\* The links and sessions of others stay theirs,
LEMMA OthersOurs ==
    ASSUME DeadlocksInv, NEW a \in Made, Step(a), NEW r \in Made \ {a}, NEW k \in Claims(r)
    PROVE  Claims(r)' = Claims(r) /\ Ours(r, k)'
  <1>1. /\ Effect(a) /\ Private(a) /\ Settled(a) /\ UseInv /\ LocksInv /\ MembersInv
        /\ AppointInv /\ a \in Requests
    BY StepLocks DEF DeadlocksInv, LinksInv, AppointInv, OwnersInv, UseInv, LocksInv, Tidy,
       Effect
  <1>2. Ours(r, k) /\ memo'[r] = memo[r] /\ locks'[r] = locks[r]
    BY <1>1 DEF DeadlocksInv, Private
  <1>3. ASSUME k[1] \in {"links", "sessions"}
        PROVE  OwnerOf(r)' = OwnerOf(r)
    BY <1>1, <1>2, <1>3, Tokens, HasLink, OwnerStays
  <1>4. ASSUME k[1] = "links"
        PROVE  \E l \in links' : k = Row("links", l.id) /\ l.email = OwnerOf(r)'
    BY <1>1, <1>2, <1>3, <1>4, LinksStay DEF Ours
  <1>5. ASSUME k[1] = "sessions"
        PROVE  \E s \in sessions' : k = Row("sessions", s.id) /\ s.email = OwnerOf(r)'
    BY <1>1, <1>2, <1>3, <1>5, EmailsStay DEF Ours
  <1>6. ASSUME k[1] = "invitations", Call[r].op = "invite"
        PROVE  \E i \in invitations' : /\ k = Row("invitations", i.id)
                                       /\ i.org = Call[r].org /\ i.email = Call[r].email
    BY <1>1, <1>2, <1>6, EmailsStay DEF Ours, SameOffer
  <1>7. ASSUME k[1] = "memberships"
        PROVE  /\ Joined(k[2])'
               /\ \A m \in memberships' : m.id = k[2] => m.org = Call[r].org
    <2>1. Joined(k[2]) /\ \A m \in memberships : m.id = k[2] => m.org = Call[r].org
      BY <1>2, <1>7 DEF Ours
    <2>2. Joined(k[2])' /\ (pc[a] \in Joins => k[2] # a)
      BY <1>1, <2>1, JoinedStays
    <2> QED
      BY <1>1, <2>1, <2>2, MembersStep DEF Lasts, Added
  <1> QED
    BY <1>2, <1>4, <1>5, <1>6, <1>7 DEF Ours, Claims

\* and who matches some matches its own.
LEMMA OwnTokens ==
    ASSUME DeadlocksInv, NEW a \in Made, Step(a), NEW k \in Claims(a)',
           k[1] \in {"links", "sessions"}
    PROVE  Ours(a, k)'
  <1>1. /\ Follows(a) /\ Tidy /\ Tidy' /\ LocksInv /\ LocksInv' /\ Made' = Made
        /\ Knows(a) /\ Staged(a) /\ Told
    BY StepLocks DEF DeadlocksInv, LinksInv, UseInv, LocksInv, Effect, Private
  <1>2. /\ k[1] = "links" => pc'[a] \in {"retire", "lockLink", "insertLink"} \union Holding
        /\ k[1] = "sessions" => pc'[a] \in {"revokeSessions", "useLink", "scriptUser",
                                            "scriptLock", "scriptCommit"}
    <2>1. Staged(a)' /\ Aims(a)'
      BY <1>1 DEF LocksInv, Staged
    <2>2. CASE k \in locks'[a]
      <3>1. Fits(k, pc'[a])
        BY <2>1, <2>2 DEF Staged
      <3> QED
        BY <3>1 DEF Fits
    <2>3. CASE k \in memo'[a].matched
      BY <2>1, <2>3 DEF Aims, Holding
    <2> QED
      BY <2>2, <2>3 DEF Claims
  <1> DEFINE Matches == \/ IssueMatch(a) \/ FindLink(a) \/ FindHolder(a) \/ MatchLinks(a)
                        \/ MatchSessions(a) \/ ScriptFindSessions(a) \/ ScriptFlushUser(a)
  <1>3. pc'[a] \notin Answers /\ (ScanStep(a) \/ Matches)
    BY <1>1, <1>2 DEF Follows, Holding, Answers, ScanStep
  <1>4. /\ UNCHANGED tables
        /\ memo'[a].row = memo[a].row \/ Call[a].op \in LinkOps
        /\ Call[a].op \in LinkOps => \E l \in links : l.id = Call[a].link
        /\ \/ k \in Claims(a)
           \/ k \in RowsOf("links", UnusedLinks(a))
           \/ k \in RowsOf("links", Valid(a)) /\ Call[a].op \in LinkOps
           \/ k \in RowsOf("sessions", LiveSessions(memo[a].row.email)) /\ pc[a] \in Resetting
    <2>1. CASE ScanStep(a)
      <3>1. k \in Claims(a) /\ memo'[a].row = memo[a].row /\ UNCHANGED tables
        BY <1>1, <1>3, <2>1, Scanned
      <3>2. Call[a].op \in LinkOps => \E l \in links : l.id = Call[a].link
        BY <1>1, <3>1, Tokens, HasLink
      <3> QED
        BY <3>1, <3>2
    <2>2. CASE Matches
      <3>1. ~Reject(a)
        BY <1>1, <1>3 DEF Reject, Answer, Answers, Goto, Made
      <3>2. UNCHANGED tables
        BY <2>2, <3>1 DEF IssueMatch, FindLink, FindHolder, MatchLinks, MatchSessions,
           ScriptFindSessions, ScriptFlushUser, Match, ReadInto
      <3>3. CASE FindLink(a)
        <4>1. /\ pc[a] = "findLink" /\ Valid(a) # {}
              /\ Match(a, "lockLink", RowsOf("links", Valid(a)))
          BY <3>1, <3>3 DEF FindLink
        <4>2. Call[a].op \in LinkOps
          BY <1>1, <4>1 DEF Staged, LinkSteps
        <4>3. \E l \in links : l.id = Call[a].link
          BY <4>1 DEF Valid
        <4> QED
          BY <1>1, <3>2, <4>1, <4>2, <4>3 DEF Match, ReadInto, Remember, Tidy, Made, Claims
      <3>4. CASE FindHolder(a)
        <4>1. /\ pc[a] = "findHolder"
              /\ \E u : ReadInto(a, "matchLinks", [memo[a] EXCEPT !.row = u])
          BY <3>1, <3>4 DEF FindHolder
        <4>2. Call[a].op \in LinkOps
          BY <1>1, <4>1 DEF Staged, LinkSteps, Holding
        <4>3. k \in Claims(a)
          BY <1>1, <4>1 DEF ReadInto, Remember, Tidy, Made, Claims
        <4> QED
          BY <3>2, <4>1, <4>2, <4>3, HasLink DEF Holding
      <3>5. CASE IssueMatch(a) \/ MatchLinks(a) \/ MatchSessions(a)
        <4>1. /\ pc[a] \in {"issue", "matchLinks", "matchSessions"}
              /\ \E to, rows : /\ Match(a, to, rows)
                               /\ \/ rows = RowsOf("links", UnusedLinks(a))
                                  \/ /\ rows = RowsOf("sessions",
                                                      LiveSessions(memo[a].row.email))
                                     /\ pc[a] \in Resetting
          BY <3>5 DEF IssueMatch, MatchLinks, MatchSessions, Resetting
        <4>2. Call[a].op \in LinkOps => pc[a] \in Holding
          BY <1>1, <4>1 DEF Staged, LinkSteps, Ends, Answers
        <4>3. memo'[a].row = memo[a].row
          BY <1>1, <4>1 DEF Match, ReadInto, Remember, Tidy, Made
        <4>4. \/ k \in Claims(a)
              \/ k \in RowsOf("links", UnusedLinks(a))
              \/ k \in RowsOf("sessions", LiveSessions(memo[a].row.email)) /\ pc[a] \in Resetting
          BY <1>1, <4>1 DEF Match, ReadInto, Remember, Tidy, Made, Claims
        <4> QED
          BY <3>2, <4>2, <4>3, <4>4, HasLink
      <3>6. CASE ScriptFindSessions(a)
        <4>1. /\ pc[a] = "scriptSessions" /\ Call[a].op \notin LinkOps
              /\ Match(a, "scriptUser",
                       RowsOf("sessions", LiveSessions(memo[a].row.email)))
          BY <1>1, <3>6 DEF ScriptFindSessions, Staged, ScriptSteps, LinkOps
        <4> QED
          BY <1>1, <3>2, <4>1 DEF Match, ReadInto, Remember, Tidy, Made, Claims, Resetting
      <3>7. CASE ScriptFlushUser(a)
        <4>1. /\ pc[a] = "scriptUser" /\ Call[a].op \notin LinkOps
              /\ memo' = memo /\ locks'[a] = {UserRow(memo[a].row.email)}
          BY <1>1, <3>7 DEF ScriptFlushUser, Staged, ScriptSteps, LinkOps, Needs, Locking,
             RowByRow, AboutUser, Tidy, Made
        <4>2. k \in memo[a].matched
          BY <4>1 DEF Claims, UserRow, Row
        <4> QED
          BY <3>2, <4>1, <4>2 DEF Claims
      <3> QED
        BY <2>2, <3>3, <3>4, <3>5, <3>6, <3>7
    <2> QED
      BY <1>3, <2>1, <2>2
  <1>5. OwnerOf(a)' = OwnerOf(a)
    BY <1>4, OwnerStays DEF LinkOps
  <1>6. CASE k \in Claims(a)
    BY <1>4, <1>5, <1>6 DEF DeadlocksInv, Ours, tables, accounts
  <1>7. CASE k \in RowsOf("links", UnusedLinks(a))
    BY <1>4, <1>5, <1>7 DEF RowsOf, UnusedLinks, Ours, Row, tables, accounts
  <1>8. CASE k \in RowsOf("links", Valid(a)) /\ Call[a].op \in LinkOps
    <2>1. PICK l \in links : k = Row("links", l.id) /\ l.id = Call[a].link
      BY <1>8 DEF RowsOf, Valid
    <2>2. OwnerOf(a) = l.email
      BY <1>1, <1>8, <2>1 DEF OwnerOf, LinkOf, LinkOps, Told
    <2> QED
      BY <1>4, <1>5, <2>1, <2>2 DEF Ours, Row, tables, accounts
  <1>9. CASE k \in RowsOf("sessions", LiveSessions(memo[a].row.email)) /\ pc[a] \in Resetting
    <2>1. memo[a].row.email = OwnerOf(a)
      BY <1>1, <1>9 DEF Knows
    <2> QED
      BY <1>4, <1>5, <1>9, <2>1 DEF RowsOf, LiveSessions, Ours, Row, tables, accounts
  <1> QED
    BY <1>4, <1>6, <1>7, <1>8, <1>9

\* So does who matches invitations and memberships,
LEMMA OwnRows ==
    ASSUME DeadlocksInv, NEW a \in Made, Step(a), NEW k \in Claims(a)',
           k[1] \in {"invitations", "memberships"}
    PROVE  Ours(a, k)'
  <1>1. /\ Follows(a) /\ Tidy /\ Tidy' /\ Staged(a)' /\ Aims(a)' /\ Made' = Made
        /\ Private(a) /\ Settled(a) /\ MembersInv /\ a \in Requests
    BY StepLocks
       DEF DeadlocksInv, AppointInv, OwnersInv, LinksInv, UseInv, LocksInv, Staged, Effect,
           Private, Tidy
  <1>2. /\ k[1] = "invitations" /\ Call[a].op = "invite" =>
               pc'[a] \in {"revokeInvitations", "insertInvitation"}
        /\ k[1] = "memberships" => pc'[a] \in {"lockOwners", "countOwners", "write"}
    <2>1. CASE k \in locks'[a]
      <3>1. Fits(k, pc'[a])
        BY <1>1, <2>1 DEF Staged
      <3> QED
        BY <1>1, <3>1 DEF Fits, Staged, AcceptSteps, Joining
    <2>2. CASE k \in memo'[a].matched
      BY <1>1, <2>2 DEF Aims, Staged, AcceptSteps
    <2> QED
      BY <2>1, <2>2 DEF Claims
  <1>3. ASSUME Joined(k[2]), memberships' = memberships,
               \A m \in memberships : m.id = k[2] => m.org = Call[a].org
        PROVE  /\ Joined(k[2])'
               /\ \A m \in memberships' : m.id = k[2] => m.org = Call[a].org
    BY <1>1, <1>3, JoinedStays
  <1> DEFINE Matches == MatchInvitations(a) \/ MatchOwners(a)
             Reads == CountOwners(a) \/ Target(a)
  <1>4. CASE ~(k[1] = "invitations" /\ Call[a].op # "invite")
    <2>1. pc'[a] \notin Answers /\ (ScanStep(a) \/ Matches \/ Reads)
      BY <1>1, <1>2, <1>4 DEF Follows, Answers, ScanStep
    <2>2. ~Reject(a)
      BY <1>1, <2>1 DEF Reject, Answer, Answers, Goto, Made
    <2>3. /\ UNCHANGED tables
          /\ \/ k \in Claims(a)
             \/ k \in RowsOf("invitations", Superseded(a))
             \/ k \in MembershipRows(Call[a].org)
      <3>1. CASE ScanStep(a)
        BY <1>1, <2>1, <3>1, Scanned
      <3>2. CASE Matches
        BY <1>1, <3>2 DEF MatchInvitations, MatchOwners, Match, ReadInto, Remember, Tidy,
           Made, Claims
      <3>3. CASE Reads
        <4>1. \/ \E to : Read(a, to)
              \/ \E to, m : ReadInto(a, to, [memo[a] EXCEPT !.row = m])
          BY <2>1, <2>2, <3>3 DEF CountOwners, Target, Answer, Answers, Goto, Made
        <4> QED
          BY <1>1, <4>1 DEF Read, ReadInto, Remember, Tidy, Made, Claims
      <3> QED
        BY <2>1, <3>1, <3>2, <3>3
    <2>4. CASE k \in Claims(a)
      BY <1>3, <2>3, <2>4 DEF DeadlocksInv, Ours, tables, governance
    <2>5. CASE k \in RowsOf("invitations", Superseded(a))
      BY <2>3, <2>5 DEF RowsOf, Superseded, Ours, Row, tables, governance
    <2>6. CASE k \in MembershipRows(Call[a].org)
      <3>1. PICK m \in memberships : k = Row("memberships", m.id) /\ m.org = Call[a].org
        BY <2>6 DEF MembershipRows, RowsOf
      <3>2. Joined(k[2]) /\ \A n \in memberships : n.id = k[2] => n.org = Call[a].org
        BY <1>1, <3>1 DEF MembersInv, OneMember, Row
      <3> QED
        BY <1>3, <2>3, <3>1, <3>2 DEF Ours, Row, tables, governance
    <2> QED
      BY <2>3, <2>4, <2>5, <2>6
  <1>5. CASE k[1] = "invitations" /\ Call[a].op # "invite"
    BY <1>5 DEF Ours
  <1> QED
    BY <1>4, <1>5

\* and what it remembers is the user it was asked about.
LEMMA StepKnows ==
    ASSUME DeadlocksInv, NEW a \in Made, Step(a), NEW r \in Made
    PROVE  Knows(r)'
  <1>1. /\ Follows(a) /\ Private(a) /\ Taken(a) /\ Tidy /\ Tidy' /\ Staged(a) /\ Staged(a)'
        /\ Staged(r) /\ Knows(a) /\ Knows(r) /\ Opening(a) /\ LocksInv /\ UseInv
    BY StepLocks DEF DeadlocksInv, AppointInv, SessionsInv, LinksInv, UseInv, LocksInv, Effect
  <1>2. ASSUME pc[r] \in Resetting, memo'[r].row = memo[r].row
        PROVE  OwnerOf(r)' = OwnerOf(r)
    <2>1. Call[r].op \in LinkOps => pc[r] \in Holding
      BY <1>1, <1>2 DEF Resetting, Staged, LinkSteps, Ends, Answers, Holding
    <2> QED
      BY <1>2, <2>1, HasLink, OwnerStays
  <1>3. CASE r # a
    <2>1. pc'[r] = pc[r] /\ memo'[r] = memo[r] /\ locks'[r] = locks[r]
      BY <1>1, <1>3 DEF Private
    <2> QED
      BY <1>1, <1>2, <2>1 DEF Knows
  <1>4. CASE r = a
    <2> DEFINE email == memo[a].row.email
    <2>1. ASSUME pc'[a] \in Adding \/ (pc'[a] = "insertUser" /\ Call[a].op = "bootstrap")
          PROVE  memo'[a].row.email = Call[a].email
      <3>1. /\ AddMember(a) \/ Bootstrap(a) \/ BootstrapMember(a) \/ InsertMember(a)
                \/ (InsertUser(a) /\ pc'[a] = "bootstrapMember")
            /\ pc'[a] \notin Answers
        <4>1. pc'[a] = "insertUser" /\ Call[a].op = "bootstrap" => ~FindInvited(a)
          BY <1>1 DEF FindInvited, Staged, AcceptSteps, Joining
        <4> QED
          BY <1>1, <2>1, <4>1 DEF Follows, Adding, Answers
      <3>2. ~Reject(a) /\ \A answer \in Answers : ~Answer(a, answer)
        BY <1>1, <3>1 DEF Reject, Answer, Answers, Goto, Made
      <3>3. CASE AddMember(a)
        BY <1>1, <3>2, <3>3 DEF AddMember, ReadInto, Remember, RequestedUser, UserOf, Tidy, Made
      <3>4. CASE Bootstrap(a)
        BY <1>1, <3>2, <3>4 DEF Bootstrap, ReadInto, Remember, RequestedUser, UserOf, NewUser,
           Tidy, Made
      <3>5. CASE BootstrapMember(a)
        <4>1. pc[a] \in Adding /\ memo' = memo
          BY <3>2, <3>5 DEF BootstrapMember, Read, Adding, Answers
        <4> QED
          BY <1>1, <4>1 DEF Knows
      <3>6. CASE InsertMember(a)
        <4>1. pc[a] \in Adding /\ memo' = memo
          BY <3>2, <3>6 DEF InsertMember, Insert, Adding, Answers
        <4> QED
          BY <1>1, <4>1 DEF Knows
      <3>7. CASE InsertUser(a) /\ pc'[a] = "bootstrapMember"
        <4>1. pc[a] = "insertUser" /\ memo' = memo
          BY <3>2, <3>7 DEF InsertUser, Insert, Answers
        <4>2. Call[a].op = "bootstrap"
          BY <1>1, <3>7 DEF Staged, BootstrapSteps
        <4> QED
          BY <1>1, <4>1, <4>2 DEF Knows
      <3> QED
        BY <3>1, <3>3, <3>4, <3>5, <3>6, <3>7
    <2>2. ASSUME pc'[a] \in Resetting
          PROVE  memo'[a].row.email = OwnerOf(a)'
      <3>1. /\ \/ FindHolder(a) \/ ScriptFindUser(a) \/ ScanStep(a) \/ MatchLinks(a)
               \/ MatchSessions(a) \/ ScriptFindSessions(a) \/ ScriptFlushUser(a)
            /\ pc'[a] \notin Answers
        BY <1>1, <2>2 DEF Follows, Resetting, Answers, ScanStep
      <3>2. ~Reject(a)
        BY <1>1, <3>1 DEF Reject, Answer, Answers, Goto, Made
      <3>3. CASE FindHolder(a)
        <4>1. PICK u \in UserOf(LinkOf(a).email) :
                  /\ pc[a] = "findHolder"
                  /\ ReadInto(a, "matchLinks", [memo[a] EXCEPT !.row = u])
          BY <3>2, <3>3 DEF FindHolder
        <4>2. /\ memo'[a].row = u /\ u.email = LinkOf(a).email
              /\ LinkOf(a)' = LinkOf(a) /\ Call[a].op \in LinkOps
          BY <1>1, <4>1 DEF ReadInto, Remember, UserOf, LinkOf, Tidy, Made, tables, accounts,
             Staged, LinkSteps, Holding
        <4> QED
          BY <4>2 DEF OwnerOf, LinkOps
      <3>4. CASE ScriptFindUser(a)
        <4>1. PICK u \in RequestedUser(a) :
                  /\ pc[a] = "scriptReset"
                  /\ ReadInto(a, "scriptSessions", [memo[a] EXCEPT !.row = u])
          BY <3>2, <3>4 DEF ScriptFindUser
        <4>2. memo'[a].row = u /\ u.email = Call[a].email /\ Call[a].op = "scriptReset"
          BY <1>1, <4>1 DEF ReadInto, Remember, RequestedUser, UserOf, Tidy, Made, Staged,
             ScriptSteps
        <4> QED
          BY <4>2 DEF OwnerOf
      <3>5. CASE ScanStep(a) \/ MatchLinks(a) \/ MatchSessions(a) \/ ScriptFindSessions(a)
                 \/ ScriptFlushUser(a)
        <4>1. memo'[a].row = memo[a].row
          <5>1. CASE ScanStep(a)
            BY <1>1, <3>1, <5>1, Scanned
          <5>2. CASE ~ScanStep(a)
            BY <1>1, <3>5, <5>2 DEF MatchLinks, MatchSessions, ScriptFindSessions,
               ScriptFlushUser, Match, ReadInto, Remember, Tidy, Made
          <5> QED
            BY <5>1, <5>2
        <4>2. pc[a] \in Resetting
          <5>1. \/ RetireAll(a) \/ RevokeSessions(a) \/ ScriptFlushSessions(a) \/ MatchLinks(a)
                \/ MatchSessions(a) \/ ScriptFindSessions(a) \/ ScriptFlushUser(a)
                \/ FindHolder(a) \/ ScriptFindUser(a)
            BY <1>1, <2>2 DEF Follows, Resetting
          <5> QED
            BY <3>5, <5>1 DEF RetireAll, RevokeSessions, ScriptFlushSessions, MatchLinks,
               MatchSessions, ScriptFindSessions, ScriptFlushUser, FindHolder, ScriptFindUser,
               Resetting, ScanStep, Retire, LockLink, LockOwners, RevokeInvitations,
               LockInvitation
        <4> QED
          BY <1>1, <1>2, <1>4, <4>1, <4>2 DEF Knows
      <3> QED
        BY <3>1, <3>3, <3>4, <3>5
    <2>3. ASSUME pc'[a] \in {"scriptLock", "scriptCommit", "checkMember", "join"},
                 NEW k \in locks'[a], k[1] \in {"users", "userKeys"}
          PROVE  k[2] = memo'[a].row.email
      <3>1. pc'[a] \notin Answers /\ ~Reject(a) /\ \A answer \in Answers : ~Answer(a, answer)
        BY <1>1, <2>3 DEF Reject, Answer, Answers, Goto, Made
      <3>2. CASE ScriptFlushUser(a)
        BY <1>1, <2>3, <3>2 DEF ScriptFlushUser, Needs, Locking, RowByRow, AboutUser, UserRow,
           Row, Tidy, Made
      <3>3. CASE ScriptFlushSessions(a)
        <4>1. /\ pc[a] = "scriptLock" /\ k \in Claims(a) /\ memo'[a].row = memo[a].row
          BY <1>1, <3>1, <3>3, Scanned DEF ScriptFlushSessions, ScanStep, Claims
        <4>2. k \in locks[a]
          BY <1>1, <2>3, <4>1 DEF Staged, Aims, Claims
        <4> QED
          BY <1>1, <2>3, <4>1, <4>2 DEF Knows
      <3>4. CASE LockInvited(a)
        <4>1. PICK u \in Invited(a) :
                  /\ pc[a] = "lockUser"
                  /\ locks'[a] = locks[a] \union memo[a].matched
                  /\ memo'[a].row = [u EXCEPT !.verified = TRUE]
          BY <1>1, <3>1, <3>4 DEF LockInvited, Remember, Tidy, Made
        <4>2. u \in users /\ UserShape(u) /\ u.email = InvitationOf(a).email
          BY <4>1 DEF Invited, UserOf, DeadlocksInv, AppointInv, SessionsInv
        <4>3. memo'[a].row.email = InvitationOf(a).email
          BY <4>1, <4>2 DEF UserShape
        <4>4. k \notin locks[a]
          BY <1>1, <2>3, <4>1 DEF Staged, Fits
        <4>5. InvitationOf(a) \in invitations /\ InvitationOf(a).id = Call[a].invitation
          BY <1>1, <4>1 DEF UseInv, Offered, Accepting, Joining, Invites, InvitationOf
        <4>6. k \in {UserRow(InvitationOf(a).email), UserKey(InvitationOf(a).email)}
          BY <1>1, <4>1, <4>4, <4>5 DEF Opening
        <4> QED
          BY <4>3, <4>6 DEF UserRow, UserKey, Row
      <3>5. CASE InsertUser(a)
        <4>1. /\ pc[a] = "insertUser" /\ memo' = memo
              /\ locks'[a] = locks[a] \union {UserRow(memo[a].row.email)}
          BY <1>1, <3>1, <3>5 DEF InsertUser, Insert, Answers, Tidy, Made
        <4>2. k \notin locks[a]
          BY <1>1, <2>3, <4>1 DEF Staged, Fits
        <4> QED
          BY <4>1, <4>2 DEF UserRow, Row
      <3>6. CASE CheckMember(a)
        <4>1. pc[a] = "checkMember" /\ memo' = memo /\ locks' = locks
          BY <3>1, <3>6 DEF CheckMember, Read, Answers
        <4> QED
          BY <1>1, <2>3, <4>1 DEF Knows
      <3> QED
        BY <1>1, <2>3, <3>2, <3>3, <3>4, <3>5, <3>6 DEF Follows
    <2> QED
      BY <1>4, <2>1, <2>2, <2>3 DEF Knows
  <1> QED
    BY <1>3, <1>4

\* Every step keeps all of it.
LEMMA StepDeadlocks ==
    ASSUME DeadlocksInv, NEW a \in Made, Step(a)
    PROVE  DeadlocksInv'
  <1>1. AppointInv' /\ LinksInv' /\ Private(a) /\ Staged(a)' /\ Aims(a)'
    BY StepAppoint, StepLinks, StepLocks
       DEF DeadlocksInv, LinksInv, UseInv, Effect, Staged
  <1>2. ASSUME NEW r \in Made, NEW k \in Claims(r)'
        PROVE  Ours(r, k)'
    <2>1. CASE r # a
      <3>1. Claims(r)' = Claims(r)
        BY <1>1, <2>1 DEF Private, Claims
      <3> QED
        BY <1>2, <2>1, <3>1, OthersOurs
    <2>2. CASE r = a /\ k[1] \in {"links", "sessions", "invitations", "memberships"}
      BY <1>2, <2>2, OwnTokens, OwnRows
    <2>3. CASE k[1] \notin {"links", "sessions", "invitations", "memberships"}
      BY <2>3 DEF Ours
    <2> QED
      BY <2>1, <2>2, <2>3
  <1> QED
    BY <1>1, <1>2, StepTold, StepKnows DEF DeadlocksInv, Private

\* Nothing of it changes without a step.
LEMMA DeadlocksStutter ==
    ASSUME DeadlocksInv, UNCHANGED vars
    PROVE  DeadlocksInv'
  <1>1. AppointInv' /\ LinksInv'
    BY AppointStutter, LinksStutter DEF DeadlocksInv
  <1>2. /\ Made' = Made /\ \A id : Joined(id)' <=> Joined(id)
        /\ \A r : OwnerOf(r)' = OwnerOf(r) /\ Claims(r)' = Claims(r)
    BY DEF Joined, OwnerOf, LinkOf, Claims, vars, Made
  <1>3. Told' /\ \A r \in Made : Knows(r)'
    BY <1>2 DEF DeadlocksInv, Told, Knows, vars
  <1>4. \A r \in Made : \A k \in Claims(r) : Ours(r, k)'
    BY <1>2 DEF DeadlocksInv, Ours, vars
  <1> QED
    BY <1>1, <1>2, <1>3, <1>4 DEF DeadlocksInv

\* Who waits for the like of itself, as far as itself, waits for a rival.
LEMMA WaitsForRival ==
    ASSUME DeadlocksInv, NEW r \in Made, locks[r] # {}, NEW q \in Holders(r),
           Rank(r) = Rank(q), Kin(r, q)
    PROVE  Rivals(r, q)
  <1>1. PICK k : k \in Needs(r) /\ k \in locks[q] /\ q \in Made
    BY DEF Holders
  <1>2. /\ Staged(r) /\ Staged(q) /\ Keys(q) /\ Knows(r) /\ Knows(q)
        /\ MembersInv /\ UseInv /\ Identity(r) /\ Identity(q) /\ Told
    BY <1>1 DEF DeadlocksInv, AppointInv, OwnersInv, LinksInv, MembersInv, UseInv, LocksInv
  <1>3. Fits(k, pc[q]) /\ Ours(q, k)
    BY <1>1, <1>2 DEF Staged, DeadlocksInv, Claims
  <1>4. ASSUME pc[r] \in Locking
        PROVE  Ours(r, k)
    BY <1>1, <1>4 DEF Needs, Locking, RowByRow, AboutUser, DeadlocksInv, Claims
  <1>5. CASE k[1] \in {"links", "sessions"}
    <2>1. pc[r] \in Locking
      BY <1>1, <1>2, <1>5, Waiting DEF Locking, RowByRow
    <2>2. OwnerOf(r) = OwnerOf(q)
      BY <1>2, <1>3, <1>4, <1>5, <2>1 DEF Ours, Told, Row
    <2>3. Call[r].op \in LinkUsers /\ Call[q].op \in LinkUsers
      BY <1>1, <1>2, <1>3, <1>5, Waiting
         DEF Fits, Staged, LinkUsers, LinkOps, LinkSteps, Holding, ScriptSteps
    <2> QED
      BY <2>2, <2>3 DEF Rivals
  <1>6. CASE k[1] = "invitations"
    <2>1. pc[r] = "revokeInvitations" /\ Call[r].op = "invite"
      BY <1>1, <1>2, <1>6, Waiting DEF Staged, InviteSteps
    <2>2. Call[q].op = "invite"
      <3>1. pc[q] = "revokeInvitations"
        BY <1>3, <1>6, <2>1 DEF Fits, Rank, Joining, Holding
      <3> QED
        BY <1>2, <3>1 DEF Staged, InviteSteps
    <2>3. PICK i \in invitations : /\ k = Row("invitations", i.id)
                                   /\ i.org = Call[r].org /\ i.email = Call[r].email
      BY <1>4, <1>6, <2>1 DEF Ours, Locking, RowByRow
    <2>4. PICK j \in invitations : /\ k = Row("invitations", j.id)
                                   /\ j.org = Call[q].org /\ j.email = Call[q].email
      BY <1>3, <1>6, <2>2 DEF Ours
    <2>5. i = j
      BY <1>2, <2>3, <2>4 DEF Row, UseInv, Identified
    <2> QED
      BY <2>1, <2>2, <2>3, <2>4, <2>5 DEF Rivals
  <1>7. CASE k[1] = "memberships"
    <2>1. Call[r].op \in {"change", "remove"} /\ Call[q].op \in {"change", "remove"}
      BY <1>1, <1>2, <1>3, <1>7, Waiting DEF Fits, Staged, Managing
    <2>2. PICK m \in memberships : k = Row("memberships", m.id)
      BY <1>1, <1>2, <1>7 DEF MembersInv, Locks
    <2>3. m.org = Call[q].org
      BY <1>3, <1>7, <2>2 DEF Ours, Row
    <2>4. CASE pc[r] = "lockOwners"
      BY <1>4, <1>7, <2>1, <2>2, <2>3, <2>4 DEF Ours, Row, Rivals, Locking, RowByRow
    <2>5. CASE pc[r] = "write"
      <3>1. m.id = memo[r].row.id
        BY <1>1, <2>2, <2>5 DEF Needs, Locking, RowByRow, AboutUser, Row
      <3>2. m.org = Call[r].org
        BY <1>2, <2>5, <3>1 DEF MembersInv, Targeted, Managing
      <3> QED
        BY <2>1, <2>3, <3>2 DEF Rivals
    <2> QED
      BY <1>1, <1>2, <1>7, <2>4, <2>5, Waiting
  <1>8. CASE k[1] \in {"users", "userKeys"}
    <2>1. \/ pc[r] = "useLink" /\ k[1] = "users" /\ pc[q] \in {"scriptLock", "scriptCommit"}
          \/ /\ pc[r] \in {"bootstrapCommit", "addCommit"} /\ k[1] = "userKeys"
             /\ pc[q] \in {"checkMember", "join"}
      BY <1>1, <1>2, <1>3, <1>8, Waiting DEF Fits, Rank, Holding
    <2>2. k[2] = memo[r].row.email
      BY <1>1, <1>8, <2>1 DEF Needs, Locking, RowByRow, AboutUser, UserRow, UserKey, Row
    <2>3. k[2] = memo[q].row.email
      BY <1>1, <1>2, <1>8, <2>1 DEF Knows
    <2>4. CASE pc[r] = "useLink"
      <3>1. Call[r].op \in LinkUsers /\ Call[q].op \in LinkUsers
        BY <1>2, <2>1, <2>4 DEF Staged, LinkUsers, LinkOps, LinkSteps, Holding, ScriptSteps
      <3> QED
        BY <1>2, <2>1, <2>2, <2>3, <2>4, <3>1 DEF Knows, Resetting, Rivals
    <2>5. CASE pc[r] \in {"bootstrapCommit", "addCommit"}
      <3>1. memo[r].row.email = Call[r].email /\ Call[r].op \in {"add", "bootstrap"}
        BY <1>2, <2>5 DEF Knows, Adding, Staged, BootstrapSteps
      <3>2. Call[q].op = "accept" /\ InvitationOf(q) \in invitations
            /\ InvitationOf(q).id = Call[q].invitation
        BY <1>1, <1>2, <2>1, <2>5
           DEF Staged, AcceptSteps, Joining, UseInv, Offered, Accepting, Invites, InvitationOf
      <3>3. memo[q].row.email = InvitationOf(q).email
        BY <1>2, <2>1, <2>5, <3>2 DEF Identity
      <3> QED
        BY <2>2, <2>3, <3>1, <3>2, <3>3 DEF Rivals
    <2> QED
      BY <2>1, <2>4, <2>5
  <1>9. CASE k[1] = "unique"
    <2>1. pc[r] = "join" /\ k = MembershipKey(Call[q].org, Call[q].email)
          /\ pc[q] \in {"bootstrapCommit", "addCommit"}
      BY <1>1, <1>2, <1>3, <1>9, Waiting DEF Fits, Rank, Holding, Keys
    <2>2. k = MembershipKey(OrgOf(r), memo[r].row.email)
      BY <1>1, <2>1 DEF Needs, Locking, RowByRow, AboutUser
    <2>3. memo[r].row.email = Call[q].email
      BY <2>1, <2>2 DEF MembershipKey, Key
    <2>4. Call[q].op \in {"add", "bootstrap"} /\ Call[r].op = "accept"
      BY <1>2, <2>1 DEF Staged, BootstrapSteps, AcceptSteps, Joining
    <2>5. InvitationOf(r) \in invitations /\ InvitationOf(r).id = Call[r].invitation
      BY <1>2, <2>1 DEF UseInv, Offered, Accepting, Joining, Invites, InvitationOf
    <2>6. memo[r].row.email = InvitationOf(r).email
      BY <1>2, <2>1, <2>4, <2>5 DEF Identity
    <2> QED
      BY <1>1, <2>3, <2>4, <2>6 DEF Rivals
  <1> QED
    BY <1>3, <1>5, <1>6, <1>7, <1>8, <1>9 DEF Fits

\* DeadlocksNamed: in a circle every request waits for a rival.  A transaction waits for
\* one that is as far as itself or ahead of it, so those in a circle, of whatever length,
\* are equally far, and what one of them has and the other needs is then a link or a
\* session of one user, a membership of one organization, an invitation of one email, or
\* the key of a membership or of the user that is to get it.
THEOREM DeadlocksAreNamed == Spec => []DeadlocksNamed
  <1>1. DeadlocksInv /\ [Next]_vars => DeadlocksInv'
    BY StepDeadlocks, DeadlocksStutter DEF Next, Step
  <1>2. DeadlocksInv => DeadlocksNamed
    <2> SUFFICES ASSUME DeadlocksInv, NEW r \in Made, NEW q \in Holders(r), Circle(r, q)
                 PROVE  Rivals(r, q)
      BY DEF DeadlocksNamed
    <2>1. locks[r] # {} /\ Rank(r) = Rank(q) /\ Kin(r, q)
      BY Circling DEF DeadlocksInv, AppointInv, OwnersInv
    <2> QED
      BY <2>1, WaitsForRival
  <1> QED
    BY <1>1, <1>2, InitDeadlocks, PTL DEF Spec
=============================================================================
