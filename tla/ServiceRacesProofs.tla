------------------------- MODULE ServiceRacesProofs -------------------------
(***************************************************************************)
(* Theorems about the races that the locks of the service do not exclude,  *)
(* for every database it starts with and every set of requests: what they  *)
(* leave behind took two requests that were open at the same time.         *)
(***************************************************************************)
EXTENDS ServiceProofs

-----------------------------------------------------------------------------
(* Links *)

\* A link is stored before its request is answered.
Sent == \A l \in links : l.id \in Requests =>
            l.id \in Made /\ pc[l.id] \in {"mail", "undelivered"} \union Answers

\* Whoever is about to store a link has all the others it did not meet.
Retiring(r) ==
    /\ pc[r] = "retire" => \A l \in UnusedLinks(r) :
           Met(r, l.id) \/ Row("links", l.id) \in memo[r].matched \union locks[r]
    /\ pc[r] = "insertLink" => \A l \in UnusedLinks(r) :
           Met(r, l.id) \/ Row("links", l.id) \in locks[r]

LinksInv ==
    /\ UseInv
    /\ AllMet
    /\ Sent
    /\ \A r \in Made : Retiring(r)
    /\ OneLink

\* At the start a user has one link.
LEMMA InitLinks == Init => LinksInv
  <1> SUFFICES ASSUME Init
               PROVE  LinksInv
    OBVIOUS
  <1>1. PICK w \in Workloads : pc = [r \in w |-> "ready"]
    BY DEF Init
  <1>2. \A r \in Made : pc[r] = "ready"
    BY <1>1 DEF Made
  <1>3. Sent /\ OneLink
    BY SeedAssumption DEF Init, Sent, OneLink
  <1> QED
    BY <1>2, <1>3, InitUse DEF LinksInv, AllMet, Open, Retiring

\* The email of a link that is asked for does not change.
LEMMA OwnersStay ==
    ASSUME UseInv, NEW r \in Made, pc[r] \in {"issue", "retire", "insertLink"},
           memo'[r].row = memo[r].row
    PROVE  KindOf(r)' = KindOf(r) /\ OwnerOf(r)' = OwnerOf(r)
  <1>1. Call[r].op \notin LinkOps
    BY DEF UseInv, LocksInv, Staged, LinkSteps, Holding, Ends, Answers
  <1> QED
    BY <1>1 DEF KindOf, OwnerOf, LinkOps

\* What is unused after a step was unused before it, or is the link of a request that
\* is open.
LEMMA UnusedBefore ==
    ASSUME LinksInv, NEW a \in Made, Effect(a)
    PROVE  \A k \in links' : ~k.used =>
               k \in links \/ (k = NewLink(a) /\ IssueCommit(a))
  <1>1. \A C \in SUBSET links : \A k \in Rewritten(links, C, Used) : ~k.used => k \in links
    BY DEF Rewritten, Used, LinksInv, UseInv, Identified, LinkShape
  <1>2. Locked(a, "links", links) \in SUBSET links
    BY DEF Locked
  <1>3. CASE links' = links
    BY <1>3
  <1>4. CASE IssueCommit(a)
    BY <1>1, <1>2, <1>4 DEF IssueCommit
  <1>5. CASE RetireUndelivered(a)
    BY <1>1, <1>5 DEF RetireUndelivered
  <1>6. CASE UseLink(a)
    BY <1>1, <1>2, <1>6 DEF UseLink
  <1> QED
    BY <1>3, <1>4, <1>5, <1>6 DEF Effect, Changes

\* A new link is alone, but for those of requests that its own has met.
LEMMA IssuedAlone ==
    ASSUME LinksInv, NEW a \in Made, Effect(a), IssueCommit(a),
           NEW k \in links', ~k.used, k.email = OwnerOf(a), k.kind = KindOf(a)
    PROVE  k = NewLink(a) \/ Met(a, k.id)
  <1> SUFFICES ASSUME k # NewLink(a)
               PROVE  Met(a, k.id)
    OBVIOUS
  <1>1. k \in links
    BY UnusedBefore
  <1>2. Met(a, k.id) \/ Row("links", k.id) \in locks[a]
    BY <1>1 DEF LinksInv, Retiring, UnusedLinks, IssueCommit
  <1>3. Row("links", k.id) \notin locks[a]
    BY DEF IssueCommit, Rewritten, Locked, Used, LinksInv, UseInv, Identified, LinkShape
  <1> QED
    BY <1>2, <1>3

\* The rows that were matched and are unused still get locked, and others come from
\* requests that were open.
LEMMA StepRetiring ==
    ASSUME LinksInv, NEW a \in Made, Effect(a), NEW r \in Made
    PROVE  Retiring(r)'
  <1>1. /\ Private(a) /\ Settled(a) /\ Follows(a) /\ met \subseteq met'
        /\ \A q \in Made : DOMAIN memo[q] = {"role", "row", "matched"}
        /\ DOMAIN memo = Made /\ DOMAIN locks = Made
    BY Meeting DEF Effect, LinksInv, UseInv, LocksInv, Tidy
  <1>2. CASE r # a
    <2> SUFFICES ASSUME pc[r] \in {"retire", "insertLink"}
                 PROVE  Retiring(r)'
      BY <1>1, <1>2 DEF Private, Retiring
    <2>1. KindOf(r)' = KindOf(r) /\ OwnerOf(r)' = OwnerOf(r)
      BY <1>1, <1>2, OwnersStay DEF Private, LinksInv
    <2>2. ASSUME NEW k \in UnusedLinks(r)'
          PROVE  k \in UnusedLinks(r) \/ {r, k.id} \in met'
      <3>1. CASE k = NewLink(a) /\ IssueCommit(a)
        <4>1. k.id = a /\ pc[a] = "insertLink"
          BY <3>1 DEF NewLink, IssueCommit
        <4> QED
          BY <1>1, <1>2, <4>1 DEF LinksInv, AllMet, Met, Open, Answers
      <3>2. CASE k \in links
        BY <2>1, <2>2, <3>2 DEF UnusedLinks
      <3> QED
        BY <2>2, <3>1, <3>2, UnusedBefore DEF UnusedLinks
    <2> QED
      BY <1>1, <1>2, <2>2 DEF Private, LinksInv, Retiring, Met
  <1>3. CASE r = a /\ IssueMatch(a)
    <2>1. /\ memo'[a].matched = RowsOf("links", UnusedLinks(a)) /\ links' = links
          /\ memo'[a].row = memo[a].row /\ pc[a] = "issue" /\ pc'[a] = "retire"
      BY <1>1, <1>3 DEF IssueMatch, Match, ReadInto, Remember, Goto, Made, tables, accounts
    <2>2. UnusedLinks(a)' = UnusedLinks(a)
      BY <2>1, OwnersStay DEF UnusedLinks, LinksInv
    <2> QED
      BY <1>3, <2>1, <2>2 DEF Retiring, RowsOf
  <1>4. CASE r = a /\ Retire(a)
    <2>1. Scans(a, "insertLink", RowsOf("links", UnusedLinks(a))) /\ pc[a] = "retire"
      BY <1>4, LockScans DEF Retire, LinksInv, UseInv, LocksInv
    <2>2. links' = links /\ memo'[a].row = memo[a].row
      BY <2>1 DEF Scans, tables, accounts
    <2>3. UnusedLinks(a)' = UnusedLinks(a)
      BY <2>1, <2>2, OwnersStay DEF UnusedLinks, LinksInv
    <2>4. \A l \in UnusedLinks(a) :
              Met(a, l.id) \/ Row("links", l.id) \in memo'[a].matched \union locks'[a]
      <3>1. \A l \in UnusedLinks(a) :
                Met(a, l.id) \/ Row("links", l.id) \in memo[a].matched \union locks[a]
        BY <2>1 DEF LinksInv, Retiring
      <3>2. \A l \in UnusedLinks(a) : Row("links", l.id) \in RowsOf("links", UnusedLinks(a))
        BY DEF RowsOf
      <3> QED
        BY <2>1, <3>1, <3>2 DEF Scans
    <2>5. pc'[a] = "insertLink" => memo'[a].matched = {}
      BY <2>1 DEF Scans
    <2> QED
      BY <1>1, <1>4, <2>3, <2>4, <2>5 DEF Retiring, Met
  <1>5. CASE r = a /\ pc'[r] \notin {"retire", "insertLink"}
    BY <1>5 DEF Retiring
  <1> QED
    BY <1>1, <1>2, <1>3, <1>4, <1>5 DEF Follows

\* Every step keeps what OneLink rests on.
LEMMA StepLinks ==
    ASSUME LinksInv, NEW a \in Made, Step(a)
    PROVE  LinksInv'
  <1>1. UseInv' /\ Effect(a)
    BY StepUse, StepLocks DEF LinksInv, UseInv
  <1>2. /\ Private(a) /\ Settled(a) /\ Changes(a)
        /\ AllMet' /\ met \subseteq met'
    BY <1>1, Meeting DEF Effect, LinksInv
  <1>3. Sent'
    <2> SUFFICES ASSUME NEW k \in links', k.id \in Requests
                 PROVE  k.id \in Made' /\ pc'[k.id] \in {"mail", "undelivered"} \union Answers
      BY DEF Sent
    <2>1. CASE \E l \in links : SameLink(l, k)
      BY <1>2, <2>1 DEF LinksInv, Sent, SameLink, Private, Settled
    <2>2. CASE ~ \E l \in links : SameLink(l, k)
      <3>1. k.id = a /\ pc[a] = "insertLink" /\ links' # links
        BY <1>1, <2>2, LinksStep DEF LinksInv, SameLink
      <3>2. IssueCommit(a)
        BY <1>2, <3>1 DEF Changes, RetireUndelivered, UseLink
      <3>3. pc'[a] = "mail"
        BY <3>2 DEF IssueCommit, Committed, Goto, Made
      <3> QED
        BY <1>2, <3>1, <3>3 DEF Private
    <2> QED
      BY <2>1, <2>2
  <1>4. \A r \in Made' : Retiring(r)'
    BY <1>1, <1>2, StepRetiring DEF Private
  <1>5. OneLink'
    <2> SUFFICES ASSUME NEW l \in links', NEW m \in links', l # m, ~l.used, ~m.used,
                        l.email = m.email, l.kind = m.kind
                 PROVE  {l.id, m.id} \in met'
      BY DEF OneLink, Met
    <2>1. CASE IssueCommit(a) /\ NewLink(a) \in {l, m}
      <3>1. \A k \in {l, m} : k = NewLink(a) \/ {a, k.id} \in met
        BY <1>1, <2>1, IssuedAlone DEF NewLink, Met
      <3>2. NewLink(a).id = a /\ {l.id, m.id} = {m.id, l.id}
        BY DEF NewLink
      <3> QED
        BY <1>2, <2>1, <3>1, <3>2
    <2>2. CASE ~(IssueCommit(a) /\ NewLink(a) \in {l, m})
      <3>1. l \in links /\ m \in links
        BY <1>1, <2>2, UnusedBefore
      <3> QED
        BY <1>2, <3>1 DEF LinksInv, OneLink, Met
    <2> QED
      BY <2>1, <2>2
  <1> QED
    BY <1>1, <1>2, <1>3, <1>4, <1>5 DEF LinksInv

\* Nothing of it changes without a step.
LEMMA LinksStutter ==
    ASSUME LinksInv, UNCHANGED vars
    PROVE  LinksInv'
  <1>1. UseInv'
    BY UseStutter DEF LinksInv
  <1> QED
    BY <1>1 DEF LinksInv, vars, AllMet, Open, Met, Sent, Retiring, UnusedLinks, OwnerOf, LinkOf,
       OneLink, Made

\* OneLink: links of a user for one thing that are valid together were asked for by
\* requests that met.  Each retired what it found; what it did not find came later,
\* from a request that was open.
THEOREM LinksReplaced == Spec => []OneLink
  <1>1. LinksInv /\ [Next]_vars => LinksInv'
    BY StepLinks, LinksStutter DEF Next, Step
  <1>2. LinksInv => OneLink
    BY DEF LinksInv
  <1> QED
    BY <1>1, <1>2, InitLinks, PTL DEF Spec

-----------------------------------------------------------------------------
(* Invitations *)

\* a is at a statement that revokes i.
Revokes(a, i) ==
    \/ pc[a] = "insertInvitation" /\ Row("invitations", i.id) \in locks[a]
    \/ pc[a] = "undeliveredInvitation" /\ i.id = a
    \/ pc[a] = "revokeCommit" /\ i.id = memo[a].row.id

\* Whom an invitation is for, and to what.
SameOffer(i, k) == k.id = i.id /\ k.org = i.org /\ k.email = i.email /\ k.role = i.role

\* k is what i has become, other than by being accepted.
Becomes(a, i, k) ==
    /\ SameOffer(i, k) /\ i.id = k.id /\ k.email = i.email
    /\ k.accepted = i.accepted /\ (k.revoked = i.revoked \/ Revokes(a, i))

\* What a commit makes of the invitations.
LEMMA InvitationsBecome ==
    ASSUME UseInv, NEW a \in Made, Effect(a), NEW k \in invitations'
    PROVE  \/ \E i \in invitations : Becomes(a, i, k)
           \/ k = NewInvitation(a) /\ pc[a] = "insertInvitation"
           \/ /\ Join(a) /\ pc'[a] = "done"
              /\ \E i \in invitations : /\ i.id = Call[a].invitation /\ i.id = k.id
                                         /\ k.revoked = i.revoked /\ k.email = i.email
                                         /\ SameOffer(i, k)
  <1> USE DEF SameOffer
  <1>0. \A i \in invitations : InvitationShape(i)
    BY DEF UseInv, Identified
  <1>1. \A C \in SUBSET invitations : k \in Rewritten(invitations, C, Revoked) =>
            \E i \in invitations : /\ i.id = k.id /\ k.accepted = i.accepted
                                   /\ k.email = i.email /\ k.org = i.org /\ k.role = i.role
                                   /\ k.revoked = i.revoked \/ i \in C
    BY <1>0 DEF Rewritten, Revoked, InvitationShape
  <1>2. CASE invitations' = invitations
    BY <1>2 DEF Becomes
  <1>3. CASE InviteCommit(a)
    <2>1. Locked(a, "invitations", invitations) \in SUBSET invitations
      BY DEF Locked
    <2>2. CASE k \in Rewritten(invitations, Locked(a, "invitations", invitations), Revoked)
      BY <1>1, <1>3, <2>1, <2>2 DEF InviteCommit, Locked, Becomes, Revokes
    <2> QED
      BY <1>3, <2>2 DEF InviteCommit
  <1>4. CASE RevokeUndelivered(a)
    BY <1>1, <1>4 DEF RevokeUndelivered, Becomes, Revokes
  <1>5. CASE RevokeCommit(a)
    BY <1>1, <1>5 DEF RevokeCommit, Becomes, Revokes
  <1>6. CASE Join(a) /\ invitations' # invitations
    <2> DEFINE j == InvitationOf(a)
    <2>1. pc[a] = "join" /\ Invites(a)
      BY <1>6 DEF Join, UseInv, Offered, Accepting, Joining
    <2>2. j \in invitations /\ j.id = Call[a].invitation
      BY <2>1 DEF Invites, InvitationOf
    <2>3. ~Reject(a)
      BY <1>6 DEF Reject, tables, governance
    <2>4. pc'[a] = "done" /\ k \in (invitations \ {j}) \union {[j EXCEPT !.accepted = TRUE]}
      BY <1>6, <2>3 DEF Join, Answer, Goto, Made, Rewritten
    <2> HIDE DEF j
    <2> QED
      BY <1>0, <1>6, <2>2, <2>4 DEF Becomes, InvitationShape
  <1> QED
    BY <1>2, <1>3, <1>4, <1>5, <1>6 DEF Effect, Changes

\* Who holds an invitation keeps it as it found it: pending.
HeldPending ==
    \A r \in Made, i \in invitations : Row("invitations", i.id) \in locks[r] => Pending(i)

\* Whoever is open and about to revoke what was accepted was open at that time.
Withdraws(q, i) ==
    Open(q) /\ (q = i.id \/ (pc[q] = "revokeCommit" /\ memo[q].row.id = i.id))
Decided(i) ==
    i.accepted => \E r \in Done("accept") :
        /\ Call[r].invitation = i.id
        /\ \A q \in Made : Withdraws(q, i) => Met(r, q)

InvitesInv ==
    /\ UseInv
    /\ AllMet
    /\ HeldPending
    /\ \A i \in invitations : Decided(i)
    /\ InvitationsDecided

\* At the start nothing is accepted.
LEMMA InitInvites == Init => InvitesInv
  <1> SUFFICES ASSUME Init
               PROVE  InvitesInv
    OBVIOUS
  <1>1. PICK w \in Workloads : pc = [r \in w |-> "ready"]
    BY DEF Init
  <1>2. \A r \in Made : pc[r] = "ready" /\ locks[r] = {}
    BY <1>1 DEF Made, Init
  <1>3. \A i \in invitations : ~i.accepted
    BY SeedAssumption DEF Init
  <1> QED
    BY <1>2, <1>3, InitUse DEF InvitesInv, AllMet, Open, HeldPending, Decided,
       InvitationsDecided

\* Nobody else holds what is revoked or accepted.
LEMMA RevokedAlone ==
    ASSUME UseInv, NEW a \in Made, Step(a), invitations' # invitations,
           NEW i, NEW r \in Made \ {a}, Revokes(a, i) \/ (Join(a) /\ i.id = Call[a].invitation)
    PROVE  Row("invitations", i.id) \notin locks[r]
  <1>1. Granted(a)
    BY DEF Step, Begin, Crash, Abort, Statement, tables, governance
  <1>2. CASE Row("invitations", i.id) \in locks[a]
    BY <1>2 DEF UseInv, LocksInv, LocksExclusive
  <1>3. CASE pc[a] \notin RowByRow /\ Row("invitations", i.id) \in Needs(a)
    BY <1>1, <1>3 DEF Granted, Holders
  <1>4. CASE Revokes(a, i)
    <2>1. CASE pc[a] = "undeliveredInvitation" /\ i.id = a
      BY <1>3, <2>1 DEF Needs, Locking, RowByRow, AboutUser
    <2>2. CASE pc[a] = "revokeCommit" /\ i.id = memo[a].row.id
      BY <1>3, <2>2 DEF Needs, Locking, RowByRow, AboutUser
    <2> QED
      BY <1>2, <1>4, <2>1, <2>2 DEF Revokes
  <1>5. CASE Join(a) /\ i.id = Call[a].invitation
    BY <1>2, <1>5 DEF Join, UseInv, LocksInv, Staged, Accepting, Joining
  <1> QED
    BY <1>4, <1>5

\* Whoever holds an invitation it found pending keeps it pending for itself.
LEMMA StepHeld ==
    ASSUME InvitesInv, NEW a \in Made, Step(a), Effect(a)
    PROVE  HeldPending'
  <1>1. Private(a) /\ Taken(a) /\ DOMAIN locks = Made /\ DOMAIN memo = Made
    BY DEF Effect, InvitesInv, UseInv, LocksInv, Tidy
  <1> SUFFICES ASSUME NEW r \in Made, NEW k \in invitations',
                      Row("invitations", k.id) \in locks'[r]
               PROVE  Pending(k)
    BY <1>1 DEF HeldPending, Private
  <1>2. CASE k = NewInvitation(a)
    BY <1>2 DEF NewInvitation, Pending
  <1>3. CASE invitations' # invitations /\ r # a
    <2>1. Row("invitations", k.id) \in locks[r]
      BY <1>1, <1>3 DEF Private
    <2>2. CASE \E i \in invitations : Becomes(a, i, k)
      BY <1>3, <2>1, <2>2, RevokedAlone DEF Becomes, InvitesInv, HeldPending, Pending
    <2>3. CASE Join(a) /\ k.id = Call[a].invitation
      BY <1>3, <2>1, <2>3, RevokedAlone DEF InvitesInv
    <2> QED
      BY <1>2, <2>2, <2>3, InvitationsBecome DEF InvitesInv
  <1>4. CASE invitations' # invitations /\ r = a
    <2>1. locks'[a] = {}
      BY <1>1, <1>4 DEF Effect, Changes, InviteCommit, Committed, RevokeUndelivered,
         RevokeCommit, Join, Reject, tables, governance, Answer
    <2> QED
      BY <1>4, <2>1
  <1>5. CASE invitations' = invitations /\ Row("invitations", k.id) \in locks[r]
    BY <1>5 DEF InvitesInv, HeldPending
  <1>6. CASE invitations' = invitations /\ Row("invitations", k.id) \notin locks[r]
    <2>1. r = a /\ (RevokeInvitations(a) \/ LockInvitation(a))
      BY <1>1, <1>6 DEF Private, Taken, Row
    <2>2. Row("invitations", k.id) \in RowsOf("invitations", Superseded(a))
          \/ Row("invitations", k.id) \in RowsOf("invitations", Acceptable(a))
      <3>1. CASE RevokeInvitations(a)
        <4>1. Scans(a, "insertInvitation", RowsOf("invitations", Superseded(a)))
          BY <3>1, LockScans DEF RevokeInvitations, InvitesInv, UseInv, LocksInv
        <4> QED
          BY <1>6, <2>1, <4>1 DEF Scans
      <3>2. CASE LockInvitation(a) /\ ~Reject(a)
        <4>1. Scans(a, "findUser", RowsOf("invitations", Acceptable(a)))
          BY <3>2, LockScans DEF LockInvitation, InvitesInv, UseInv, LocksInv
        <4> QED
          BY <1>6, <2>1, <4>1 DEF Scans
      <3>3. CASE Reject(a)
        BY <1>1, <1>6, <2>1, <3>3 DEF Reject, Answer
      <3> QED
        BY <2>1, <3>1, <3>2, <3>3
    <2>3. PICK i \in invitations : i.id = k.id /\ Pending(i)
      BY <2>2 DEF RowsOf, Row, Superseded, Acceptable
    <2> QED
      BY <1>6, <2>3 DEF InvitesInv, UseInv, Identified
  <1> QED
    BY <1>3, <1>4, <1>5, <1>6

\* An invitation is accepted by its request, and revoked as well only by one it met.
LEMMA StepDecided ==
    ASSUME InvitesInv, NEW a \in Made, Step(a), Effect(a), NEW k \in invitations'
    PROVE  Decided(k)'
  <1>1. /\ Private(a) /\ Settled(a) /\ Follows(a) /\ Changes(a)
        /\ met \subseteq met' /\ DOMAIN memo = Made
        /\ \A q \in Made : DOMAIN memo[q] = {"role", "row", "matched"}
    BY Meeting DEF Effect, InvitesInv, UseInv, LocksInv, Tidy
  <1> SUFFICES ASSUME k.accepted
               PROVE  \E r \in Done("accept")' :
                          /\ Call[r].invitation = k.id
                          /\ \A q \in Made : Withdraws(q, k)' => {r, q} \in met'
    BY <1>1 DEF Decided, Met, Private
  <1>2. CASE \E i \in invitations : Becomes(a, i, k)
    <2>1. PICK i \in invitations : i.id = k.id /\ i.accepted
      BY <1>2 DEF Becomes
    <2>2. PICK r \in Done("accept") : /\ Call[r].invitation = k.id
                                     /\ \A q \in Made : Withdraws(q, i) => Met(r, q)
      BY <2>1 DEF InvitesInv, Decided
    <2>3. r \in Done("accept")'
      BY <1>1 DEF Done, Private, Settled, Answers
    <2>4. ASSUME NEW q \in Made, Withdraws(q, k)'
          PROVE  Withdraws(q, i)
      <3>1. CASE q # a
        BY <1>1, <2>1, <2>4, <3>1 DEF Withdraws, Open, Private
      <3>2. CASE q = a /\ q = k.id
        <4>1. pc[a] \in {"mailInvitation", "undeliveredInvitation"}
          BY <1>1, <2>1, <3>2 DEF InvitesInv, UseInv, Identified, LocksInv, Tidy, Settled
        <4> QED
          BY <2>1, <3>2, <4>1 DEF Withdraws, Open, Answers
      <3>3. CASE q = a /\ q # k.id
        <4>1. pc'[a] = "revokeCommit" /\ memo'[a].row.id = i.id
          BY <2>1, <2>4, <3>3 DEF Withdraws
        <4>2. FindPending(a)
          BY <1>1, <4>1 DEF Follows
        <4>3. PICK j \in invitations : Pending(j) /\ memo'[a].row = j
          BY <1>1, <4>1, <4>2 DEF FindPending, ReadInto, Remember, Reject, Answer, Goto, Made
        <4> QED
          BY <2>1, <4>1, <4>3 DEF InvitesInv, UseInv, Identified, Pending
      <3> QED
        BY <3>1, <3>2, <3>3
    <2> QED
      BY <1>1, <2>2, <2>3, <2>4 DEF Met
  <1>3. CASE k = NewInvitation(a)
    BY <1>3 DEF NewInvitation
  <1>4. CASE Join(a) /\ pc'[a] = "done" /\ k.id = Call[a].invitation
    <2>1. pc[a] = "join" /\ Call[a].op = "accept"
      BY <1>4 DEF Join, InvitesInv, UseInv, LocksInv, Staged, AcceptSteps, Joining
    <2>2. a \in Done("accept")'
      BY <1>1, <1>4, <2>1 DEF Done, Private
    <2>3. ASSUME NEW q \in Made, Withdraws(q, k)'
          PROVE  {a, q} \in met'
      BY <1>1, <1>4, <2>1, <2>3 DEF Withdraws, Open, Answers, Private, InvitesInv, AllMet, Met
    <2> QED
      BY <1>4, <2>2, <2>3
  <1> QED
    BY <1>2, <1>3, <1>4, InvitationsBecome, SMTT(60) DEF InvitesInv

\* Every step keeps the invariant.
LEMMA StepInvites ==
    ASSUME InvitesInv, NEW a \in Made, Step(a)
    PROVE  InvitesInv'
  <1>1. UseInv' /\ Effect(a)
    BY StepUse, StepLocks DEF InvitesInv, UseInv
  <1>2. /\ Private(a) /\ Settled(a)
        /\ AllMet' /\ met \subseteq met'
    BY <1>1, Meeting DEF Effect, InvitesInv
  <1>3. HeldPending'
    BY <1>1, StepHeld
  <1>4. \A k \in invitations' : Decided(k)'
    BY <1>1, StepDecided
  <1>5. ASSUME NEW k \in invitations', k.accepted, k.revoked
        PROVE  \E r \in Done("accept")' : \E q \in Made :
                   /\ Call[r].invitation = k.id /\ {r, q} \in met'
                   /\ q = k.id \/ Call[q].op = "revoke"
    <2>1. \A r \in Done("accept") : r \in Done("accept")'
      BY <1>2 DEF Done, Private, Settled, Answers
    <2>2. CASE \E i \in invitations : Becomes(a, i, k)
      <3>1. PICK i \in invitations : Becomes(a, i, k)
        BY <2>2
      <3>2. CASE i.revoked
        BY <1>2, <1>5, <2>1, <3>1, <3>2 DEF InvitesInv, InvitationsDecided, Becomes, Met
      <3>3. CASE ~i.revoked
        <4>1. Revokes(a, i) /\ i.accepted /\ i.id = k.id
          BY <1>5, <3>1, <3>3 DEF Becomes
        <4>2. ~(pc[a] = "insertInvitation" /\ Row("invitations", i.id) \in locks[a])
          BY <4>1 DEF InvitesInv, HeldPending, Pending
        <4>3. Withdraws(a, i) /\ (a = i.id \/ Call[a].op = "revoke")
          BY <4>1, <4>2 DEF Revokes, Withdraws, Open, Answers, InvitesInv, UseInv, LocksInv,
             Staged
        <4> QED
          BY <1>2, <2>1, <4>1, <4>3 DEF InvitesInv, Decided, Met
      <3> QED
        BY <3>2, <3>3
    <2>3. CASE k = NewInvitation(a)
      BY <1>5, <2>3 DEF NewInvitation
    <2>4. CASE Join(a) /\ \E i \in invitations : i.id = Call[a].invitation /\ i.revoked
      <3>1. Row("invitations", Call[a].invitation) \in locks[a]
        BY <2>4 DEF Join, InvitesInv, UseInv, LocksInv, Staged, Accepting, Joining
      <3> QED
        BY <2>4, <3>1 DEF InvitesInv, HeldPending, Pending
    <2> QED
      BY <1>1, <1>5, <2>2, <2>3, <2>4, InvitationsBecome DEF InvitesInv
  <1>6. InvitationsDecided'
    BY <1>2, <1>4, <1>5 DEF InvitationsDecided, Decided, Met, Private
  <1> QED
    BY <1>1, <1>2, <1>3, <1>4, <1>6 DEF InvitesInv

\* InvitationsDecided: an accepted invitation was accepted by a request that was told so,
\* and one that is revoked as well was being revoked, or its mail found undelivered,
\* while it was accepted.
THEOREM InvitationsAreDecided == Spec => []InvitationsDecided
  <1>1. InvitesInv /\ [Next]_vars => InvitesInv'
    <2>1. CASE Next
      BY <2>1, StepInvites DEF Next, Step
    <2>2. CASE UNCHANGED vars
      <3>1. InvitesInv => UseInv'
        BY <2>2, UseStutter DEF InvitesInv
      <3>2. HeldPending /\ AllMet => HeldPending' /\ AllMet'
        BY <2>2 DEF vars, HeldPending, AllMet, Open, Met, Made
      <3>3. Done("accept")' = Done("accept") /\ Made' = Made
        BY <2>2 DEF vars, Done, Made
      <3>4. \A i : Decided(i) => Decided(i)'
        BY <2>2, <3>3 DEF vars, Decided, Withdraws, Open, Met
      <3>5. InvitationsDecided => InvitationsDecided'
        BY <2>2, <3>3 DEF vars, InvitationsDecided, Met
      <3> QED
        BY <2>2, <3>1, <3>2, <3>4, <3>5 DEF InvitesInv, vars
    <2> QED
      BY <2>1, <2>2
  <1>2. InvitesInv => InvitationsDecided
    BY DEF InvitesInv
  <1> QED
    BY <1>1, <1>2, InitInvites, PTL DEF Spec

-----------------------------------------------------------------------------
(* Users and their passwords *)

UserShape(u) == DOMAIN u = {"email", "active", "verified", "password"}
SessionShape(s) == DOMAIN s = {"id", "email", "password", "revoked"}

\* A user is told by the email.
OneUser == \A u, w \in users : u.email = w.email => u = w

HasUser(email) == \E u \in users : u.email = email
Opens(email, password) == \A u \in users : u.email = email => u.password = password

\* A change of a password met r.
Raced(r) == \E q \in Done("reset") \union Done("scriptReset") : Met(r, q)

\* A session is one of a user, and open with the user's password or in a race.
Sound(s) ==
    /\ SessionShape(s) /\ HasUser(s.email)
    /\ s.revoked \/ Opens(s.email, s.password) \/ Raced(s.id)

\* What a request knows of the user it makes a session for, or creates.
Opening(r) ==
    LET row == memo[r].row
        call == Call[r]
        held == UserRow(row.email) \in locks[r]
    IN  /\ pc[r] \in {"ready", "bootstrap"} => locks[r] = {}
        /\ pc[r] = "openSession" =>
               HasUser(row.email) /\ (Opens(row.email, call.password) \/ Raced(r))
        /\ pc[r] = "registerCommit" =>
               UserRow(call.email) \in locks[r] /\ ~HasUser(call.email)
        /\ pc[r] = "insertUser" => UserShape(row) /\ row.password = call.password
        /\ pc[r] \in {"bootstrapMember", "insertMember", "bootstrapCommit"} /\ held =>
               UserShape(row) /\ ~HasUser(row.email)
        /\ pc[r] = "lockUser" => \A i \in invitations :
               i.id = call.invitation => memo[r].matched = {UserRow(i.email), UserKey(i.email)}
        /\ pc[r] \in {"checkMember", "join"} =>
               /\ UserShape(row) /\ row.password = call.password
               /\ held /\ Opens(row.email, call.password)

\* Who changes a password has the open sessions it did not meet, and the user at the end.
Revoking(q) ==
    LET row == memo[q].row
    IN  /\ pc[q] \in {"revokeSessions", "scriptUser", "scriptLock"} =>
               \A s \in LiveSessions(row.email) :
                   Met(s.id, q) \/ Row("sessions", s.id) \in memo[q].matched \union locks[q]
        /\ (pc[q] = "scriptCommit" \/ (pc[q] = "useLink" /\ Call[q].op = "reset")) =>
               \A s \in LiveSessions(row.email) :
                   Met(s.id, q) \/ Row("sessions", s.id) \in locks[q]
        /\ pc[q] = "scriptUser" => \A s \in LiveSessions(row.email) :
                   Met(s.id, q) \/ Row("sessions", s.id) \in memo[q].matched
        /\ pc[q] \in {"scriptLock", "scriptCommit"} => UserRow(row.email) \in locks[q]

SessionsInv ==
    /\ UseInv
    /\ AllMet
    /\ \A u \in users : UserShape(u)
    /\ OneUser
    /\ \A s \in sessions : Sound(s)
    /\ \A r \in Made : Opening(r) /\ Revoking(r)

\* At the start a session is open with its user's password.
LEMMA InitSessions == Init => SessionsInv
  <1> SUFFICES ASSUME Init
               PROVE  SessionsInv
    OBVIOUS
  <1>1. PICK w \in Workloads : pc = [r \in w |-> "ready"]
    BY DEF Init
  <1>2. \A r \in Made : pc[r] = "ready" /\ locks[r] = {}
    BY <1>1 DEF Made, Init
  <1>3. (\A u \in users : UserShape(u)) /\ OneUser
    BY ServiceAssumption, SeedAssumption DEF Init, UserShape, Users, OneUser
  <1>4. \A s \in sessions : Sound(s)
    BY ServiceAssumption, SeedAssumption
       DEF Init, Sound, SessionShape, Sessions, HasUser, Opens
  <1> QED
    BY <1>2, <1>3, <1>4, InitUse DEF SessionsInv, AllMet, Open, Opening, Revoking

\* a commits a new password of the user.
Resets(a) ==
    /\ pc'[a] = "done"
    /\ pc[a] = "scriptCommit" \/ (pc[a] = "useLink" /\ Call[a].op = "reset")

Alone(a, email) == \A r \in Made \ {a} : UserRow(email) \notin locks[r]

\* A user keeps the password but for a reset, and is new only where there was none; and
\* whoever has locked a user in either case is the one that does it.
Kept(a) ==
    /\ \A w \in users' : UserShape(w)
    /\ OneUser'
    /\ \A u \in users : \E w \in users' : w.email = u.email
    /\ \A w \in users' :
          \/ \E u \in users : u.email = w.email /\ u.password = w.password
          \/ Alone(a, w.email) /\ ~HasUser(w.email)
          \/ Alone(a, w.email) /\ Resets(a) /\ w.email = memo[a].row.email /\ HasUser(w.email)

\* What a link, a script and an invitation make of users.
LEMMA UsersStep ==
    ASSUME SessionsInv, NEW a \in Made, Step(a), Effect(a)
    PROVE  Kept(a)
  <1>0. /\ \A u \in users : UserShape(u)
        /\ OneUser /\ Opening(a) /\ Revoking(a) /\ Staged(a) /\ LocksExclusive
    BY DEF SessionsInv, UseInv, LocksInv
  <1>1. CASE users' = users
    BY <1>0, <1>1 DEF Kept, OneUser
  <1>2. \A email : UserRow(email) \in locks[a] => Alone(a, email)
    BY <1>0 DEF LocksExclusive, Alone
  <1>3. CASE RegisterCommit(a)
    <2>1. /\ users' = users \union {NewUser(a, FALSE)}
          /\ ~HasUser(Call[a].email) /\ UserRow(Call[a].email) \in locks[a]
      BY <1>0, <1>3 DEF RegisterCommit, Opening
    <2>2. UserShape(NewUser(a, FALSE)) /\ NewUser(a, FALSE).email = Call[a].email
      BY DEF NewUser, UserShape
    <2> QED
      BY <1>0, <1>2, <2>1, <2>2 DEF Kept, OneUser, HasUser
  <1>4. CASE BootstrapCommit(a) /\ users' # users
    <2> DEFINE w == memo[a].row
    <2>1. /\ pc[a] = "bootstrapCommit"
          /\ users' = users \union {u \in {w} : UserRow(u.email) \in locks[a]}
      BY <1>4 DEF BootstrapCommit, tables, accounts
    <2>2. UserRow(w.email) \in locks[a] /\ users' = users \union {w}
      BY <1>4, <2>1
    <2>3. UserShape(w) /\ ~HasUser(w.email)
      BY <1>0, <2>1, <2>2 DEF Opening
    <2> HIDE DEF w
    <2> QED
      BY <1>0, <1>2, <2>2, <2>3 DEF Kept, OneUser, HasUser
  <1>5. CASE Join(a) /\ users' # users
    <2> DEFINE w == memo[a].row
    <2>1. pc[a] = "join" /\ users' = (users \ UserOf(w.email)) \union {w}
      BY <1>5 DEF Join, Reject, tables, accounts
    <2>2. /\ UserShape(w) /\ w.password = Call[a].password
          /\ UserRow(w.email) \in locks[a] /\ Opens(w.email, Call[a].password)
      BY <1>0, <2>1 DEF Opening
    <2> HIDE DEF w
    <2>3. \A v \in users' : v = w \/ (v \in users /\ v.email # w.email)
      BY <2>1 DEF UserOf
    <2>4. \A u \in users : u.email = w.email \/ u \in users'
      BY <2>1 DEF UserOf
    <2>5. w \in users'
      BY <2>1
    <2> QED
      BY <1>0, <1>2, <2>2, <2>3, <2>4, <2>5 DEF Kept, OneUser, HasUser, Opens
  <1>6. CASE UseLink(a) /\ users' # users
    <2> DEFINE C == UserOf(memo[a].row.email)
    <2>1. /\ pc[a] = "useLink" /\ pc'[a] = "done"
          /\ users' = (users \ C) \union {Changed(a, u) : u \in C}
      BY <1>6 DEF UseLink, Answer, Goto, Made, Rewritten
    <2>2. \A u \in users : /\ UserShape(Changed(a, u)) /\ Changed(a, u).email = u.email
                            /\ \/ Changed(a, u).password = u.password
                               \/ KindOf(a) = "reset"
      BY <1>0 DEF Changed, UserShape
    <2>3. KindOf(a) = "reset" => Resets(a)
      BY <1>0, <2>1 DEF KindOf, Resets, Staged, LinkSteps, Holding, LinkOps
    <2>4. Alone(a, memo[a].row.email)
      <3>1. Granted(a)
        BY <1>6 DEF Step, Begin, Crash, Abort, Statement, tables, accounts
      <3> QED
        BY <2>1, <3>1 DEF Granted, Holders, Needs, Locking, RowByRow, AboutUser, Alone
    <2>5. \A v \in users' : \/ v \in users /\ v.email # memo[a].row.email
                            \/ \E u \in users : /\ u.email = memo[a].row.email
                                                 /\ v = Changed(a, u)
      BY <2>1 DEF UserOf
    <2>6. \A u \in users : u \in users' \/ Changed(a, u) \in users'
      BY <2>1
    <2> HIDE DEF C
    <2>7. (\A w \in users' : UserShape(w)) /\ OneUser'
      BY <1>0, <2>2, <2>5 DEF OneUser
    <2>8. \A u \in users : \E w \in users' : w.email = u.email
      BY <2>2, <2>6
    <2> QED
      BY <2>2, <2>3, <2>4, <2>5, <2>7, <2>8 DEF Kept, HasUser
  <1>7. CASE ScriptCommit(a)
    <2> DEFINE C == UserOf(memo[a].row.email)
               W(u) == [u EXCEPT !.password = Call[a].password]
    <2>1. /\ pc[a] = "scriptCommit" /\ pc'[a] = "done"
          /\ users' = (users \ C) \union {W(u) : u \in C}
      BY <1>7 DEF ScriptCommit, Answer, Goto, Made, Rewritten
    <2>2. \A u \in users : UserShape(W(u)) /\ W(u).email = u.email
      BY <1>0 DEF UserShape
    <2>3. Resets(a) /\ Alone(a, memo[a].row.email)
      BY <1>0, <1>2, <2>1 DEF Resets, Revoking
    <2>4. \A v \in users' : \/ v \in users /\ v.email # memo[a].row.email
                            \/ \E u \in users : u.email = memo[a].row.email /\ v = W(u)
      BY <2>1 DEF UserOf
    <2>5. \A u \in users : u \in users' \/ W(u) \in users'
      BY <2>1
    <2> HIDE DEF C, W
    <2>6. (\A w \in users' : UserShape(w)) /\ OneUser'
      BY <1>0, <2>2, <2>4 DEF OneUser
    <2>7. \A u \in users : \E w \in users' : w.email = u.email
      BY <2>2, <2>5
    <2> QED
      BY <2>2, <2>3, <2>4, <2>6, <2>7 DEF Kept, HasUser
  <1> QED
    BY <1>1, <1>3, <1>4, <1>5, <1>6, <1>7 DEF Effect, Changes

-----------------------------------------------------------------------------
(* Sessions *)

\* Where a session comes from: who resets leaves those open that it met, and who opens
\* one knows the password.
Stays(a, s) == s \in sessions /\ (Resets(a) /\ s.email = memo[a].row.email => Met(s.id, a))
Opened(a, s) ==
    /\ pc[a] \in {"openSession", "registerCommit", "join"} /\ s.id = a
    /\ \E u \in users' : u.email = s.email
    /\ (\A u \in users' : u.email = s.email => u.password = s.password) \/ Raced(a)

\* UPDATE of sessions revokes them.
LEMMA RevokedSessions ==
    ASSUME SessionsInv, NEW C \in SUBSET sessions, NEW s \in Rewritten(sessions, C, Revoked)
    PROVE  /\ SessionShape(s)
           /\ \/ s \in sessions /\ s \notin C
              \/ s.revoked /\ \E t \in sessions : t.email = s.email
  <1>1. \A t \in sessions : SessionShape(t)
    BY DEF SessionsInv, Sound
  <1>2. CASE s \in sessions \ C
    BY <1>1, <1>2
  <1>3. CASE s \notin sessions \ C
    <2>1. PICK t \in C : s = [t EXCEPT !.revoked = TRUE]
      BY <1>3 DEF Rewritten, Revoked
    <2> QED
      BY <1>1, <2>1 DEF SessionShape
  <1> QED
    BY <1>2, <1>3

\* No other statement touches a session.
LEMMA SessionsStep ==
    ASSUME SessionsInv, NEW a \in Made, Effect(a), NEW s \in sessions'
    PROVE  /\ SessionShape(s)
           /\ \/ Stays(a, s)
              \/ s.revoked /\ \E t \in sessions : t.email = s.email
              \/ Opened(a, s)
  <1>0. /\ \A t \in sessions : SessionShape(t)
        /\ Opening(a) /\ Revoking(a) /\ DOMAIN pc = Made
    BY DEF SessionsInv, Sound, Made
  <1>1. CASE sessions' = sessions /\ ~UseLink(a) /\ ~ScriptCommit(a)
    <2>1. ~Resets(a)
      BY <1>1 DEF Effect, Changes, Resets, LinkOps
    <2> QED
      BY <1>0, <1>1, <2>1 DEF Stays
  <1>2. CASE OpenSession(a)
    <2>1. /\ sessions' = sessions \union {NewSession(a, memo[a].row.email, Call[a].password)}
          /\ pc[a] = "openSession" /\ users' = users
      BY <1>2 DEF OpenSession
    <2> QED
      BY <1>0, <2>1 DEF Opening, NewSession, SessionShape, Opened, HasUser, Opens,
             Stays, Resets
  <1>3. CASE RegisterCommit(a)
    <2>1. /\ sessions' = sessions \union {NewSession(a, Call[a].email, Call[a].password)}
          /\ pc[a] = "registerCommit" /\ users' = users \union {NewUser(a, FALSE)}
      BY <1>3 DEF RegisterCommit
    <2>2. NewUser(a, FALSE).email = Call[a].email
          /\ NewUser(a, FALSE).password = Call[a].password
      BY DEF NewUser
    <2>3. CASE s \in sessions
      BY <1>0, <2>1, <2>3 DEF Stays, Resets
    <2>4. CASE s = NewSession(a, Call[a].email, Call[a].password)
      <3>1. \A u \in users : u.email # Call[a].email
        BY <1>0, <2>1 DEF Opening, HasUser
      <3> QED
        BY <2>1, <2>2, <2>4, <3>1 DEF NewSession, SessionShape, Opened
    <2> QED
      BY <2>1, <2>3, <2>4
  <1>4. CASE Join(a) /\ sessions' # sessions
    <2> DEFINE w == memo[a].row
    <2>1. /\ sessions' = sessions \union {NewSession(a, w.email, Call[a].password)}
          /\ pc[a] = "join" /\ users' = (users \ UserOf(w.email)) \union {w}
      BY <1>4 DEF Join, Reject, tables, accounts
    <2>2. w.password = Call[a].password
      BY <1>0, <2>1 DEF Opening
    <2> HIDE DEF w
    <2> QED
      BY <1>0, <2>1, <2>2 DEF NewSession, SessionShape, Opened, UserOf, Stays, Resets
  <1>5. CASE Logout(a)
    <2>1. s \in sessions \/ (s.revoked /\ \E t \in sessions : t.email = s.email)
      BY <1>5, RevokedSessions DEF Logout
    <2>2. SessionShape(s) /\ ~Resets(a)
      BY <1>5, RevokedSessions DEF Logout, Resets
    <2> QED
      BY <2>1, <2>2 DEF Stays
  <1>6. CASE UseLink(a)
    <2> DEFINE C == Locked(a, "sessions", sessions)
    <2>1. pc[a] = "useLink" /\ C \in SUBSET sessions
          /\ s \in Rewritten(sessions, C, Revoked)
      BY <1>6 DEF UseLink, Locked
    <2>2. CASE s \in sessions /\ s \notin C
      BY <1>0, <2>1, <2>2 DEF Revoking, LiveSessions, Locked, Stays, Resets
    <2> HIDE DEF C
    <2> QED
      BY <2>1, <2>2, RevokedSessions
  <1>7. CASE ScriptCommit(a)
    <2> DEFINE C == Locked(a, "sessions", sessions)
    <2>1. pc[a] = "scriptCommit" /\ C \in SUBSET sessions
          /\ s \in Rewritten(sessions, C, Revoked)
      BY <1>7 DEF ScriptCommit, Locked
    <2>2. CASE s \in sessions /\ s \notin C
      BY <1>0, <2>1, <2>2 DEF Revoking, LiveSessions, Locked, Stays, Resets
    <2> HIDE DEF C
    <2> QED
      BY <2>1, <2>2, RevokedSessions
  <1>8. CASE Join(a) /\ sessions' = sessions
    BY <1>0, <1>8 DEF Join, Stays, Resets
  <1> QED
    BY <1>1, <1>2, <1>3, <1>4, <1>5, <1>6, <1>7 DEF Effect, Changes

-----------------------------------------------------------------------------
(* What requests know *)

\* Users stay, races stay, and whoever has locked a user finds it as it was.
LEMMA PasswordsStep ==
    ASSUME SessionsInv, NEW a \in Made, Effect(a), Kept(a)
    PROVE  /\ \A e : HasUser(e) => HasUser(e)'
           /\ \A r : Raced(r) => Raced(r)'
           /\ Resets(a) => a \in Done("reset")' \union Done("scriptReset")'
           /\ \A r \in Made \ {a} : \A e : UserRow(e) \in locks[r] =>
                 /\ HasUser(e)' => HasUser(e)
                 /\ \A p : Opens(e, p) => Opens(e, p)'
  <1>1. /\ Private(a) /\ Settled(a) /\ met \subseteq met' /\ Staged(a)
        /\ \A r \in Made \ {a} : pc'[r] = pc[r]
    BY Meeting DEF Effect, SessionsInv, UseInv, LocksInv, Private
  <1>2. \A e : HasUser(e) => HasUser(e)'
    BY DEF Kept, HasUser
  <1>3. \A op : \A q \in Done(op) : q \in Done(op)'
    BY <1>1 DEF Done, Private, Settled, Answers
  <1>4. \A r : Raced(r) => Raced(r)'
    BY <1>1, <1>3 DEF Raced, Met
  <1>5. Resets(a) => a \in Done("reset")' \union Done("scriptReset")'
    BY <1>1 DEF Resets, Done, Private, Staged, ScriptSteps
  <1>6. ASSUME NEW r \in Made \ {a}, NEW e, UserRow(e) \in locks[r]
        PROVE  /\ HasUser(e)' => HasUser(e)
               /\ \A p : Opens(e, p) => Opens(e, p)'
    <2>1. \A w \in users' : w.email = e =>
              \E u \in users : u.email = e /\ u.password = w.password
      BY <1>6 DEF Kept, Alone
    <2> QED
      BY <2>1 DEF HasUser, Opens
  <1> QED
    BY <1>2, <1>4, <1>5, <1>6

\* A request that is open while the password changes has met the change.
LEMMA PasswordChanges ==
    ASSUME SessionsInv, NEW a \in Made, Effect(a), Kept(a),
           NEW id, NEW e, NEW p, HasUser(e), Opens(e, p),
           Resets(a) /\ e = memo[a].row.email => {id, a} \in met'
    PROVE  Opens(e, p)' \/ Raced(id)'
  <1>1. CASE \E w \in users' : w.email = e /\ Resets(a) /\ e = memo[a].row.email
    <2>1. a \in Done("reset")' \union Done("scriptReset")'
      BY <1>1, PasswordsStep
    <2> QED
      BY <1>1, <2>1 DEF Raced, Met
  <1>2. CASE ~ \E w \in users' : w.email = e /\ Resets(a) /\ e = memo[a].row.email
    <2>1. \A w \in users' : w.email = e =>
              \E u \in users : u.email = e /\ u.password = w.password
      BY <1>2 DEF Kept
    <2> QED
      BY <2>1 DEF Opens
  <1> QED
    BY <1>1, <1>2

\* What others know is not changed.
LEMMA OthersOpening ==
    ASSUME SessionsInv, NEW a \in Made, Effect(a), Kept(a), NEW r \in Made \ {a}
    PROVE  Opening(r)'
  <1>1. /\ pc'[r] = pc[r] /\ memo'[r] = memo[r] /\ locks'[r] = locks[r]
        /\ Settled(a) /\ Opening(r) /\ met \subseteq met'
    BY Meeting DEF Effect, Private, SessionsInv
  <1> DEFINE e == memo[r].row.email
             p == Call[r].password
  <1>2. CASE pc[r] = "openSession"
    <2>1. HasUser(e) /\ (Opens(e, p) \/ Raced(r))
      BY <1>1, <1>2 DEF Opening
    <2>2. Resets(a) => {r, a} \in met'
      BY <1>1, <1>2 DEF Resets, SessionsInv, AllMet, Open, Met, Answers
    <2>3. HasUser(e)' /\ (Opens(memo[r].row.email, p)' \/ Raced(r)')
      <3> HIDE DEF p
      <3>1. PICK f : f = memo[r].row.email
        OBVIOUS
      <3>2. HasUser(f)' /\ (Opens(f, p)' \/ Raced(r)')
        BY <2>1, <2>2, <3>1, PasswordsStep, PasswordChanges
      <3> QED
        BY <1>1, <3>1, <3>2 DEF HasUser, Opens, p
    <2> QED
      BY <1>1, <1>2, <2>3 DEF Opening
  <1>3. CASE pc[r] = "registerCommit"
    <2>1. UserRow(Call[r].email) \in locks[r] /\ ~HasUser(Call[r].email)
      BY <1>1, <1>3 DEF Opening
    <2>2. ~HasUser(Call[r].email)'
      BY <2>1, PasswordsStep
    <2> QED
      BY <1>1, <1>3, <2>1, <2>2 DEF Opening
  <1>4. CASE pc[r] \in {"bootstrapMember", "insertMember", "bootstrapCommit", "checkMember",
                       "join"}
    <2>1. PICK f : f = memo[r].row.email
      OBVIOUS
    <2>2. UserRow(f) \in locks[r] => /\ HasUser(f)' => HasUser(f)
                                     /\ \A q : Opens(f, q) => Opens(f, q)'
      BY PasswordsStep
    <2>3. (HasUser(f)' <=> HasUser(memo[r].row.email)')
          /\ (Opens(f, Call[r].password)' <=> Opens(memo[r].row.email, Call[r].password)')
      BY <1>1, <2>1 DEF HasUser, Opens
    <2> QED
      BY <1>1, <1>4, <2>1, <2>2, <2>3 DEF Opening
  <1>5. CASE pc[r] = "lockUser"
    <2> SUFFICES ASSUME NEW k \in invitations', k.id = Call[r].invitation
                 PROVE  memo[r].matched = {UserRow(k.email), UserKey(k.email)}
      BY <1>1, <1>5 DEF Opening
    <2>1. PICK i \in invitations : i.id = Call[r].invitation
      BY <1>5 DEF SessionsInv, UseInv, Offered, Accepting, Joining, Invites
    <2>2. CASE k = NewInvitation(a) /\ pc[a] = "insertInvitation"
      <3>1. i.id = a
        BY <2>1, <2>2 DEF NewInvitation
      <3> QED
        BY <2>2, <3>1 DEF SessionsInv, UseInv, Identified, LocksInv, Tidy, Answers
    <2>3. CASE \E j \in invitations : j.id = k.id /\ j.email = k.email
      BY <1>1, <1>5, <2>3 DEF Opening
    <2> QED
      BY <2>2, <2>3, InvitationsBecome DEF SessionsInv, Becomes
  <1>6. CASE pc[r] \in {"ready", "bootstrap", "insertUser"}
    BY <1>1, <1>6 DEF Opening
  <1> QED
    BY <1>1, <1>2, <1>3, <1>4, <1>5, <1>6 DEF Opening

\* What a request learns is so.
LEMMA OwnOpening ==
    ASSUME SessionsInv, NEW a \in Made, Effect(a)
    PROVE  Opening(a)'
  <1>1. /\ Follows(a) /\ Settled(a) /\ Opening(a)
        /\ DOMAIN pc = Made /\ DOMAIN memo = Made /\ DOMAIN locks = Made
        /\ DOMAIN memo[a] = {"role", "row", "matched"}
        /\ (\A u \in users : UserShape(u)) /\ OneUser
    BY DEF Effect, SessionsInv, UseInv, LocksInv, Tidy, Made
  <1>2. CASE pc'[a] = "bootstrap"
    BY <1>1, <1>2 DEF Follows, Begin, Opening
  <1>3. CASE pc'[a] = "openSession"
    <2>1. PICK u \in RequestedUser(a) :
              u.password = Call[a].password /\ memo'[a].row = u /\ users' = users
      BY <1>1, <1>3 DEF Follows, Login, ReadInto, Remember, Reject, Answer, Goto, tables,
         accounts
    <2> QED
      BY <1>1, <1>3, <2>1 DEF Opening, HasUser, Opens, RequestedUser, UserOf, OneUser
  <1>4. CASE pc'[a] = "registerCommit"
    <2>1. /\ RequestedUser(a) = {} /\ users' = users
          /\ UserRow(Call[a].email) \in locks'[a]
      BY <1>1, <1>4 DEF Follows, RegisterUser, Insert, Answer, Goto, tables, accounts
    <2> QED
      BY <1>1, <1>4, <2>1 DEF Opening, HasUser, RequestedUser, UserOf
  <1>5. CASE pc'[a] = "insertUser"
    <2>1. memo'[a].row \in {NewUser(a, TRUE), InvitedUser(a)}
      <3>1. CASE Bootstrap(a)
        BY <1>1, <1>5, <3>1 DEF Bootstrap, ReadInto, Remember, Reject, Answer, Goto
      <3>2. CASE FindInvited(a)
        BY <1>1, <1>5, <3>2 DEF FindInvited, Match, ReadInto, Remember, Reject, Answer, Goto
      <3> QED
        BY <1>1, <1>5, <3>1, <3>2 DEF Follows
    <2>2. /\ UserShape(NewUser(a, TRUE)) /\ NewUser(a, TRUE).password = Call[a].password
          /\ UserShape(InvitedUser(a)) /\ InvitedUser(a).password = Call[a].password
      BY DEF NewUser, InvitedUser, UserShape
    <2> QED
      BY <1>5, <2>1, <2>2 DEF Opening
  <1>6. CASE InsertUser(a) /\ pc'[a] \in {"bootstrapMember", "checkMember"}
    <2>1. /\ pc[a] = "insertUser" /\ UserOf(memo[a].row.email) = {}
          /\ memo' = memo /\ users' = users
          /\ locks'[a] = locks[a] \union {UserRow(memo[a].row.email)}
      BY <1>1, <1>6 DEF InsertUser, Insert, Answer, Goto, tables, accounts
    <2> QED
      BY <1>1, <1>6, <2>1 DEF Opening, UserOf, HasUser, Opens
  <1>7. CASE Bootstrap(a) /\ pc'[a] = "bootstrapMember"
    <2>1. pc[a] = "bootstrap" /\ locks' = locks
      BY <1>1, <1>7 DEF Bootstrap, ReadInto, Reject, Answer, Goto
    <2> QED
      BY <1>1, <1>7, <2>1 DEF Opening
  <1>8. CASE pc'[a] \in {"insertMember", "bootstrapCommit"}
    <2>1. CASE BootstrapMember(a) \/ InsertMember(a)
      <3>1. /\ pc[a] \in {"bootstrapMember", "insertMember"} /\ memo' = memo /\ users' = users
            /\ locks'[a] \subseteq locks[a] \union {MembershipKey(Call[a].org, Call[a].email)}
        BY <1>1, <1>8, <2>1 DEF BootstrapMember, InsertMember, Insert, Read, Reject, Answer,
           Goto, tables, accounts
      <3>2. UserRow(memo[a].row.email) \in locks'[a] => UserRow(memo[a].row.email) \in locks[a]
        BY <3>1 DEF UserRow, Row, MembershipKey, Key
      <3> QED
        BY <1>1, <1>8, <3>1, <3>2 DEF Opening, HasUser
    <2>2. CASE AddMember(a)
      <3>1. pc'[a] = "insertMember" /\ Call[a].op = "add"
        BY <1>1, <1>8, <2>2 DEF AddMember, ReadInto, Reject, Answer, Goto, SessionsInv, UseInv,
           LocksInv, Staged
      <3>2. locks'[a] = {}
        BY <3>1 DEF Effect, Staged
      <3> QED
        BY <1>8, <3>1, <3>2 DEF Opening
    <2> QED
      BY <1>1, <1>8, <2>1, <2>2 DEF Follows
  <1>9. CASE pc'[a] = "lockUser"
    <2>1. /\ memo'[a].matched = {UserRow(InvitationOf(a).email), UserKey(InvitationOf(a).email)}
          /\ invitations' = invitations /\ pc[a] = "findUser"
      BY <1>1, <1>9 DEF Follows, FindInvited, Match, ReadInto, Remember, Reject, Answer, Goto,
         tables, governance
    <2>2. \A i \in invitations : i.id = Call[a].invitation => i = InvitationOf(a)
      BY DEF InvitationOf, SessionsInv, UseInv, Identified
    <2> QED
      BY <1>9, <2>1, <2>2 DEF Opening
  <1>10. CASE LockInvited(a) /\ pc'[a] = "checkMember"
    <2>0. ~Reject(a)
      BY <1>1, <1>10 DEF Reject, Answer, Goto
    <2>1. PICK u \in Invited(a) :
              /\ u.password = Call[a].password /\ users' = users
              /\ locks'[a] = locks[a] \union memo[a].matched
              /\ memo'[a].row = [u EXCEPT !.verified = TRUE]
      <3>1. PICK u \in Invited(a) :
                /\ u.password = Call[a].password /\ UNCHANGED tables
                /\ locks' = [locks EXCEPT ![a] = @ \union memo[a].matched]
                /\ memo' = [memo EXCEPT ![a] =
                               [memo[a] EXCEPT !.row = [u EXCEPT !.verified = TRUE],
                                               !.matched = {}]]
        BY <1>10, <2>0 DEF LockInvited, Remember
      <3> QED
        BY <1>1, <3>1 DEF tables, accounts
    <2>2. u \in users /\ u.email = InvitationOf(a).email
      BY DEF Invited, UserOf
    <2>3. InvitationOf(a) \in invitations /\ InvitationOf(a).id = Call[a].invitation
      BY <1>10 DEF LockInvited, SessionsInv, UseInv, Offered, Accepting, Joining, Invites,
         InvitationOf
    <2>4. UserRow(u.email) \in locks'[a]
      BY <1>1, <1>10, <2>1, <2>2, <2>3 DEF LockInvited, Opening
    <2>5. /\ UserShape(memo'[a].row) /\ memo'[a].row.email = u.email
          /\ memo'[a].row.password = Call[a].password
      BY <1>1, <2>1, <2>2 DEF UserShape
    <2>6. \A w \in users' : w.email = u.email => w.password = Call[a].password
      BY <1>1, <2>1, <2>2 DEF OneUser
    <2> QED
      BY <1>10, <2>4, <2>5, <2>6 DEF Opening, Opens
  <1>11. CASE pc'[a] = "join"
    <2>1. /\ pc[a] = "checkMember" /\ memo' = memo /\ locks' = locks /\ users' = users
      BY <1>1, <1>11 DEF Follows, CheckMember, Read, Reject, Answer, Goto, tables, accounts
    <2> QED
      BY <1>1, <1>11, <2>1 DEF Opening, Opens
  <1>12. CASE pc'[a] \notin {"bootstrap", "openSession", "registerCommit", "insertUser",
                            "bootstrapMember", "insertMember", "bootstrapCommit", "lockUser",
                            "checkMember", "join"}
    BY <1>1, <1>12 DEF Follows, Opening
  <1> QED
    BY <1>1, <1>2, <1>3, <1>4, <1>5, <1>6, <1>7, <1>8, <1>9, <1>10, <1>11, <1>12 DEF Follows

\* Who resets a password has found the open sessions, but for those of requests that
\* were open then.
LEMMA StepRevoking ==
    ASSUME SessionsInv, NEW a \in Made, Effect(a), NEW r \in Made
    PROVE  Revoking(r)'
  <1>1. /\ Private(a) /\ Settled(a) /\ Follows(a) /\ Staged(r) /\ met \subseteq met'
        /\ Revoking(r) /\ DOMAIN pc = Made /\ DOMAIN memo = Made /\ DOMAIN locks = Made
        /\ DOMAIN memo[a] = {"role", "row", "matched"}
    BY Meeting DEF Effect, SessionsInv, UseInv, LocksInv, Tidy, Made
  <1>2. CASE r # a
    <2> SUFFICES ASSUME pc[r] \in {"revokeSessions", "scriptUser", "scriptLock", "scriptCommit",
                              "useLink"}
                 PROVE  Revoking(r)'
      BY <1>1, <1>2 DEF Private, Revoking
    <2>1. ASSUME NEW s \in sessions', ~s.revoked
          PROVE  s \in sessions \/ {s.id, r} \in met'
      <3>1. CASE Opened(a, s)
        BY <1>1, <1>2, <3>1 DEF Opened, SessionsInv, AllMet, Open, Met, Answers
      <3>2. CASE Stays(a, s)
        BY <3>2 DEF Stays
      <3> QED
        BY <2>1, <3>1, <3>2, SessionsStep
    <2>2. \A e : \A s \in LiveSessions(e)' : s \in LiveSessions(e) \/ {s.id, r} \in met'
      BY <2>1 DEF LiveSessions
    <2>3. pc'[r] = pc[r] /\ memo'[r] = memo[r] /\ locks'[r] = locks[r]
      BY <1>1, <1>2 DEF Private
    <2>4. \A s \in LiveSessions(memo[r].row.email)' :
              s \in LiveSessions(memo[r].row.email) \/ {s.id, r} \in met'
      BY <2>1, <2>3 DEF LiveSessions
    <2> QED
      BY <1>1, <2>3, <2>4 DEF Revoking, Met
  <1>3. CASE r = a /\ (MatchSessions(a) \/ ScriptFindSessions(a))
    <2>1. /\ memo'[a].matched = RowsOf("sessions", LiveSessions(memo[a].row.email))
          /\ memo'[a].row = memo[a].row /\ sessions' = sessions
          /\ pc'[a] \in {"revokeSessions", "scriptUser"}
      BY <1>1, <1>3 DEF MatchSessions, ScriptFindSessions, Match, ReadInto, Remember, Goto,
         tables, accounts
    <2> QED
      BY <1>3, <2>1 DEF Revoking, LiveSessions, RowsOf
  <1>4. CASE r = a /\ ScriptFlushUser(a)
    <2>1. /\ pc[a] = "scriptUser" /\ memo' = memo /\ sessions' = sessions
          /\ locks'[a] = Needs(a) /\ pc'[a] = "scriptLock"
      BY <1>1, <1>4 DEF ScriptFlushUser, Goto, tables, accounts
    <2>2. UserRow(memo[a].row.email) \in Needs(a)
      BY <2>1 DEF Needs, Locking, RowByRow, AboutUser
    <2> QED
      BY <1>1, <1>4, <2>1, <2>2 DEF Revoking, LiveSessions, Met
  <1>5. CASE r = a /\ (RevokeSessions(a) \/ ScriptFlushSessions(a))
    <2>1. PICK to, still :
              /\ to \in {"useLink", "scriptCommit"} /\ Scans(a, to, still)
              /\ still \in {memo[a].matched, RowsOf("sessions", LiveSessions(memo[a].row.email))}
              /\ \/ pc[a] = "revokeSessions" /\ to = "useLink"
                 \/ pc[a] = "scriptLock" /\ to = "scriptCommit"
      <3>1. Tidy
        BY DEF SessionsInv, UseInv, LocksInv
      <3>2. CASE RevokeSessions(a)
        <4>1. Scans(a, "useLink", RowsOf("sessions", LiveSessions(memo[a].row.email)))
              /\ pc[a] = "revokeSessions"
          BY <3>1, <3>2, LockScans DEF RevokeSessions
        <4> QED
          BY <4>1
      <3>3. CASE ScriptFlushSessions(a)
        <4>1. Scans(a, "scriptCommit", memo[a].matched) /\ pc[a] = "scriptLock"
          BY <3>1, <3>3, LockScans DEF ScriptFlushSessions
        <4> QED
          BY <4>1
      <3> QED
        BY <1>5, <3>2, <3>3
    <2>2. /\ sessions' = sessions /\ memo'[a].row = memo[a].row /\ locks[a] \subseteq locks'[a]
          /\ pc'[a] # pc[a] => pc'[a] = to /\ memo'[a].matched = {}
      BY <2>1 DEF Scans, tables, accounts
    <2>3. \A s \in LiveSessions(memo[a].row.email) :
              Met(s.id, a) \/ Row("sessions", s.id) \in memo'[a].matched \union locks'[a]
      <3>1. \A s \in LiveSessions(memo[a].row.email) :
                Met(s.id, a) \/ Row("sessions", s.id) \in memo[a].matched \union locks[a]
        BY <1>1, <1>5, <2>1 DEF Revoking
      <3>2. \A s \in LiveSessions(memo[a].row.email) :
                Row("sessions", s.id) \in memo[a].matched => Row("sessions", s.id) \in still
        BY <2>1 DEF RowsOf
      <3> QED
        BY <2>1, <3>1, <3>2 DEF Scans
    <2>4. UserRow(memo[a].row.email) \in locks[a] \/ pc[a] = "revokeSessions"
      BY <1>1, <1>5, <2>1 DEF Revoking
    <2>5. LiveSessions(memo[a].row.email)' = LiveSessions(memo[a].row.email)
      BY <2>2 DEF LiveSessions
    <2> QED
      BY <1>1, <1>5, <2>1, <2>2, <2>3, <2>4, <2>5 DEF Revoking, Met
  <1>6. CASE r = a /\ pc'[a] \notin {"revokeSessions", "scriptUser", "scriptLock", "scriptCommit"}
                 /\ ~(pc'[a] = "useLink" /\ Call[a].op = "reset")
    BY <1>6 DEF Revoking
  <1>7. pc'[a] = "useLink" /\ Call[a].op = "reset" => RevokeSessions(a)
    <2> SUFFICES ASSUME pc'[a] = "useLink", Call[a].op = "reset", RetireAll(a)
                 PROVE  FALSE
      BY <1>1 DEF Follows
    <2>1. Scans(a, "matchSessions", RowsOf("links", UnusedLinks(a))) /\ pc[a] = "retireAll"
      BY LockScans DEF RetireAll, KindOf, SessionsInv, UseInv, LocksInv
    <2> QED
      BY <2>1 DEF Scans
  <1> QED
    BY <1>1, <1>2, <1>3, <1>4, <1>5, <1>6, <1>7 DEF Follows

\* Every step keeps what the sessions rest on.
LEMMA StepSessions ==
    ASSUME SessionsInv, NEW a \in Made, Step(a)
    PROVE  SessionsInv'
  <1>1. UseInv' /\ Effect(a)
    BY StepUse, StepLocks DEF SessionsInv, UseInv
  <1>2. AllMet' /\ met \subseteq met' /\ Made' = Made
    BY <1>1, Meeting DEF SessionsInv, Effect, Private
  <1>3. Kept(a)
    BY <1>1, UsersStep
  <1>4. \A r \in Made : Opening(r)' /\ Revoking(r)'
    BY <1>1, <1>3, OthersOpening, OwnOpening, StepRevoking
  <1>5. ASSUME NEW s \in sessions'
        PROVE  Sound(s)'
    <2>1. SessionShape(s)
      BY <1>1, SessionsStep
    <2>2. CASE \E t \in sessions : t.email = s.email /\ s.revoked
      BY <1>1, <1>3, <2>1, <2>2, PasswordsStep DEF SessionsInv, Sound
    <2>3. CASE Opened(a, s)
      <3>1. Raced(a) => Raced(a)'
        BY <1>1, <1>3, PasswordsStep
      <3> QED
        BY <2>1, <2>3, <3>1 DEF Opened, Sound, HasUser, Opens
    <2>4. CASE Stays(a, s) /\ ~s.revoked
      <3>1. HasUser(s.email) /\ (Opens(s.email, s.password) \/ Raced(s.id))
        BY <2>4 DEF Stays, SessionsInv, Sound
      <3>2. HasUser(s.email)' /\ (Raced(s.id) => Raced(s.id)')
        BY <1>1, <1>3, <3>1, PasswordsStep
      <3>3. Resets(a) /\ s.email = memo[a].row.email => {s.id, a} \in met'
        BY <1>2, <2>4 DEF Stays, Met
      <3>4. Opens(s.email, s.password)' \/ Raced(s.id)'
        BY <1>1, <1>3, <3>1, <3>2, <3>3, PasswordChanges
      <3> QED
        BY <2>1, <3>2, <3>4 DEF Sound
    <2>5. CASE Stays(a, s) /\ s.revoked
      BY <2>2, <2>5 DEF Stays
    <2> QED
      BY <1>1, <2>2, <2>3, <2>4, <2>5, SessionsStep
  <1> QED
    BY <1>1, <1>2, <1>3, <1>4, <1>5 DEF SessionsInv, Kept

\* Nothing of it changes without a step.
LEMMA SessionsStutter ==
    ASSUME SessionsInv, UNCHANGED vars
    PROVE  SessionsInv'
  <1>1. UseInv'
    BY UseStutter DEF SessionsInv
  <1>2. AllMet' /\ Made' = Made
    BY DEF SessionsInv, vars, AllMet, Open, Met, Made
  <1>3. \A r : Raced(r) => Raced(r)'
    BY DEF vars, Raced, Done, Made, Met
  <1>4. \A s : Sound(s) => Sound(s)'
    BY <1>3 DEF vars, Sound, HasUser, Opens
  <1>5. \A r \in Made : Opening(r)'
    BY <1>3 DEF SessionsInv, vars, Opening, HasUser, Opens
  <1>6. \A r \in Made : Revoking(r)'
    BY DEF SessionsInv, vars, Revoking, LiveSessions, Met
  <1>7. OneUser'
    BY DEF SessionsInv, vars, OneUser
  <1> QED
    BY <1>1, <1>2, <1>4, <1>5, <1>6, <1>7 DEF SessionsInv, vars

\* SessionsFollowPassword: whoever has changed a password has revoked every session of
\* the user but those whose requests it met.  A reset finds the sessions before it
\* changes the password, so what it did not find came from a request that was open; and
\* who looked at the old password and opens a session after the change met it as well.
THEOREM SessionsAreRevoked == Spec => []SessionsFollowPassword
  <1>1. SessionsInv /\ [Next]_vars => SessionsInv'
    BY StepSessions, SessionsStutter DEF Next, Step
  <1>2. SessionsInv => SessionsFollowPassword
    BY DEF SessionsInv, Sound, Opens, Raced, SessionsFollowPassword
  <1> QED
    BY <1>1, <1>2, InitSessions, PTL DEF Spec

=============================================================================
