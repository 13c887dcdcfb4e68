----------------------------- MODULE Governance -----------------------------
(***************************************************************************)
(* Governance of organizations: how they are created and get their Owners, *)
(* how members are added, change their role and leave, and the invitations *)
(* that are sent, revoked and accepted.                                    *)
(***************************************************************************)
EXTENDS Accounts

-----------------------------------------------------------------------------
(* Organizations and the script bootstrap_owner *)

CreateOrganization(r) ==
    /\ pc[r] = "createOrganization"
    /\ \/ memo[r].row.verified /\ Insert(r, "organizationCommit",
                                     OrganizationKey(Call[r].org),
                                     Call[r].org \in organizations, "refused")
       \/ ~memo[r].row.verified /\ Reject(r)
OrganizationCommit(r) ==
    /\ pc[r] = "organizationCommit"
    /\ Answer(r, "done")
    /\ organizations' = organizations \union {Call[r].org}
    /\ memberships' = memberships \union
                      {NewMember(r, Call[r].org, memo[r].row.email, "OWNER")}
    /\ UNCHANGED <<accounts, invitations, resources>>

\* The script finds the organization and the user, or inserts the user.
Bootstrap(r) ==
    /\ pc[r] = "bootstrap"
    /\ \/ Call[r].org \notin organizations /\ Reject(r)
       \/ /\ Call[r].org \in organizations
          /\ \/ \E u \in RequestedUser(r) :
                   ReadInto(r, "bootstrapMember", [memo[r] EXCEPT !.row = u])
             \/ /\ RequestedUser(r) = {}
                /\ ReadInto(r, "insertUser",
                            [memo[r] EXCEPT !.row = NewUser(r, TRUE)])

\* INSERT of the user in bootstrap_owner and accept_invitation.
InsertUser(r) ==
    /\ pc[r] = "insertUser"
    /\ Insert(r, IF Call[r].op = "accept" THEN "checkMember" ELSE "bootstrapMember",
              UserRow(memo[r].row.email), UserOf(memo[r].row.email) # {}, "error")

BootstrapMember(r) ==
    LET found == MemberOf(Call[r].org, Call[r].email)
    IN  /\ pc[r] = "bootstrapMember"
        /\ \/ found = {} /\ Read(r, "insertMember")
           \/ \E m \in found :
                 \/ m.role = "OWNER" /\ Answer(r, "done") /\ UNCHANGED tables
                 \/ m.role # "OWNER" /\ Reject(r)

\* INSERT of the membership in bootstrap_owner and add_member.
InsertMember(r) ==
    /\ pc[r] = "insertMember"
    /\ Insert(r, IF Call[r].op = "add" THEN "addCommit" ELSE "bootstrapCommit",
              MembershipKey(Call[r].org, Call[r].email),
              MemberOf(Call[r].org, Call[r].email) # {},
              IF Call[r].op = "add" THEN "refused" ELSE "error")

\* The script commits it with the user, if that is new.
BootstrapCommit(r) ==
    /\ pc[r] = "bootstrapCommit"
    /\ Answer(r, "done")
    /\ users' = users \union {u \in {memo[r].row} : UserRow(u.email) \in locks[r]}
    /\ memberships' = memberships \union {NewMember(r, Call[r].org, Call[r].email, "OWNER")}
    /\ UNCHANGED <<sessions, links, organizations, invitations, resources>>

-----------------------------------------------------------------------------
(* Members *)

AddMember(r) ==
    LET active == {u \in RequestedUser(r) : u.active}
    IN  /\ pc[r] = "add"
        /\ \/ \E u \in active : ReadInto(r, "insertMember", [memo[r] EXCEPT !.row = u])
           \/ active = {} /\ Reject(r)
AddCommit(r) ==
    /\ pc[r] = "addCommit"
    /\ Answer(r, "done")
    /\ memberships' = memberships \union
                      {NewMember(r, Call[r].org, Call[r].email, Call[r].role)}
    /\ UNCHANGED <<accounts, organizations, invitations, resources>>

\* _authorize_change, as far as it looks at the target.
MayManage(r, target) == memo[r].role = "OWNER" \/ target.role # "OWNER"

\* change_member_role and remove_member read their target once, without a lock.
Target(r) ==
    LET call == Call[r]
        found == {m \in memberships : m.id = call.member /\ m.org = call.org}
        same(m) == call.op = "change" /\ m.role = call.role
    IN  /\ pc[r] = "target"
        /\ \/ found = {} /\ Reject(r)
           \/ \E m \in found :
                 \/ ~MayManage(r, m) /\ Reject(r)
                 \/ /\ MayManage(r, m) /\ same(m)
                    /\ Answer(r, "done") /\ UNCHANGED tables
                 \/ /\ MayManage(r, m) /\ ~same(m)
                    /\ ReadInto(r, IF m.role = "OWNER" THEN "matchOwners" ELSE "write",
                                [memo[r] EXCEPT !.row = m])

\* Mutant: the Owners are counted without a lock.
MatchNoMembers(r) == pc[r] = "matchOwners" /\ Match(r, "lockOwners", {})

\* _lock_and_protect_last_owner locks all the memberships and counts the Owners.
MembershipRows(org) == RowsOf("memberships", {m \in memberships : m.org = org})
MatchOwners(r) ==
    /\ pc[r] = "matchOwners"
    /\ Match(r, "lockOwners", MembershipRows(Call[r].org))
LockOwners(r) ==
    /\ pc[r] = "lockOwners"
    /\ Lock(r, "countOwners", MembershipRows(Call[r].org))
OwnersOf(org) == {m \in memberships : m.org = org /\ m.role = "OWNER"}

CountOwners(r) ==
    /\ pc[r] = "countOwners"
    /\ \/ Cardinality(OwnersOf(Call[r].org)) > 1 /\ Read(r, "write")
       \/ Cardinality(OwnersOf(Call[r].org)) <= 1 /\ Reject(r)

\* UPDATE of no row is an error of the ORM, DELETE of none is not.
Write(r) ==
    LET found == {m \in memberships : m.id = memo[r].row.id}
        W(m) == [m EXCEPT !.role = Call[r].role]
    IN  /\ pc[r] = "write"
        /\ \/ /\ Call[r].op = "change" /\ found = {}
              /\ Answer(r, "error") /\ UNCHANGED tables
           \/ /\ Call[r].op = "remove" \/ found # {}
              /\ Answer(r, "done")
              /\ memberships' = IF Call[r].op = "remove" THEN memberships \ found
                                ELSE Rewritten(memberships, found, W)
              /\ UNCHANGED <<accounts, organizations, invitations, resources>>

-----------------------------------------------------------------------------
(* Invitations *)

Pending(i) == ~i.accepted /\ ~i.revoked

\* Mutant: the invited user is locked before the earlier invitations.
InviteUserLocked(r) ==
    /\ pc[r] = "invite"
    /\ RequestedUser(r) # {} /\ MemberOf(Call[r].org, Call[r].email) = {}
    /\ \A q \in Made : UserRow(Call[r].email) \notin locks[q]
    /\ Goto(r, "matchInvitations")
    /\ locks' = [locks EXCEPT ![r] = {UserRow(Call[r].email), UserKey(Call[r].email)}]
    /\ UNCHANGED <<memo, met, tables>>

Invite(r) ==
    LET barred == \/ \E u \in RequestedUser(r) : ~u.active
                  \/ RequestedUser(r) # {} /\ MemberOf(Call[r].org, Call[r].email) # {}
    IN  /\ pc[r] = "invite"
        /\ \/ barred /\ Reject(r)
           \/ ~barred /\ Read(r, "matchInvitations")

\* Earlier invitations of the email are revoked.
Superseded(r) == {i \in invitations : /\ i.org = Call[r].org /\ i.email = Call[r].email
                                      /\ Pending(i)}
MatchInvitations(r) ==
    /\ pc[r] = "matchInvitations"
    /\ Match(r, "revokeInvitations", RowsOf("invitations", Superseded(r)))
RevokeInvitations(r) ==
    /\ pc[r] = "revokeInvitations"
    /\ Lock(r, "insertInvitation", RowsOf("invitations", Superseded(r)))

NewInvitation(r) == [id |-> r, org |-> Call[r].org, email |-> Call[r].email,
                     role |-> Call[r].role, accepted |-> FALSE, revoked |-> FALSE,
                     fresh |-> TRUE]
InviteCommit(r) ==
    /\ pc[r] = "insertInvitation"
    /\ Committed(r, "mailInvitation")
    /\ invitations' = Rewritten(invitations, Locked(r, "invitations", invitations), Revoked)
                      \union {NewInvitation(r)}
    /\ UNCHANGED <<accounts, organizations, memberships, resources>>
MailInvitation(r) ==
    /\ pc[r] = "mailInvitation"
    /\ \/ Answer(r, "done") /\ UNCHANGED tables
       \/ Read(r, "undeliveredInvitation")
RevokeUndelivered(r) ==
    /\ pc[r] = "undeliveredInvitation"
    /\ Answer(r, "refused")
    /\ invitations' = Rewritten(invitations, {i \in invitations : i.id = r}, Revoked)
    /\ UNCHANGED <<accounts, organizations, memberships, resources>>

\* revoke_invitation reads the invitation without a lock and writes it later.
FindPending(r) ==
    LET found == {i \in invitations : i.id = Call[r].invitation /\ i.org = Call[r].org /\ Pending(i)}
    IN  /\ pc[r] = "revoke"
        /\ \/ found = {} /\ Reject(r)
           \/ \E i \in found :
                 \/ ~MayManage(r, i) /\ Reject(r)
                 \/ MayManage(r, i)
                    /\ ReadInto(r, "revokeCommit", [memo[r] EXCEPT !.row = i])
RevokeCommit(r) ==
    /\ pc[r] = "revokeCommit"
    /\ Answer(r, "done")
    /\ invitations' = Rewritten(invitations, {i \in invitations : i.id = memo[r].row.id},
                                Revoked)
    /\ UNCHANGED <<accounts, organizations, memberships, resources>>

\* accept_invitation locks the invitation,
Acceptable(r) == {i \in invitations : i.id = Call[r].invitation /\ Pending(i) /\ i.fresh}
Accept(r) ==
    /\ pc[r] = "accept"
    /\ \/ /\ Acceptable(r) # {}
          /\ Match(r, "lockInvitation", RowsOf("invitations", Acceptable(r)))
       \/ Acceptable(r) = {} /\ Reject(r)

\* Mutant: the invitation is not looked at again once it is locked.
LockInvitationFound(r) == pc[r] = "lockInvitation" /\ Lock(r, "findUser", memo[r].matched)

LockInvitation(r) ==
    /\ pc[r] = "lockInvitation"
    /\ \/ /\ Acceptable(r) # {}
          /\ Lock(r, "findUser", RowsOf("invitations", Acceptable(r)))
       \/ Acceptable(r) = {} /\ Reject(r)

\* then its user, or creates one,
Invited(r) == UserOf(InvitationOf(r).email)
InvitedUser(r) == [email |-> InvitationOf(r).email, active |-> TRUE, verified |-> TRUE,
                   password |-> Call[r].password]
FindInvited(r) ==
    /\ pc[r] = "findUser"
    /\ \/ Invited(r) # {} /\ Match(r, "lockUser", {UserRow(InvitationOf(r).email),
                                                       UserKey(InvitationOf(r).email)})
       \/ /\ Invited(r) = {} /\ Call[r].named
          /\ ReadInto(r, "insertUser", [memo[r] EXCEPT !.row = InvitedUser(r)])
       \/ Invited(r) = {} /\ ~Call[r].named /\ Reject(r)
LockInvited(r) ==
    /\ pc[r] = "lockUser"
    /\ \E u \in Invited(r) :
           \/ /\ u.active /\ u.password = Call[r].password
              /\ Goto(r, "checkMember")
              /\ locks' = [locks EXCEPT ![r] = @ \union memo[r].matched]
              /\ Remember(r, [memo[r] EXCEPT !.row = [u EXCEPT !.verified = TRUE], !.matched = {}])
              /\ UNCHANGED <<met, tables>>
           \/ ~(u.active /\ u.password = Call[r].password) /\ Reject(r)

\* checks that it is no member, and commits all of it with a session.
CheckMember(r) ==
    LET found == MemberOf(OrgOf(r), memo[r].row.email)
    IN  /\ pc[r] = "checkMember"
        /\ \/ found # {} /\ Reject(r)
           \/ found = {} /\ Read(r, "join")
Join(r) ==
    LET user == memo[r].row
        taken == MemberOf(OrgOf(r), user.email) # {}
        W(i) == [i EXCEPT !.accepted = TRUE]
    IN  /\ pc[r] = "join"
        /\ \/ taken /\ Reject(r)
           \/ /\ ~taken
              /\ Answer(r, "done")
              /\ users' = (users \ UserOf(user.email)) \union {user}
              /\ memberships' = memberships \union
                                {NewMember(r, OrgOf(r), user.email, InvitationOf(r).role)}
              /\ invitations' = Rewritten(invitations, {InvitationOf(r)}, W)
              /\ sessions' = sessions \union {NewSession(r, user.email, Call[r].password)}
              /\ UNCHANGED <<links, organizations, resources>>

GovernanceStep(r) ==
    \/ CreateOrganization(r) \/ OrganizationCommit(r)
    \/ Bootstrap(r) \/ InsertUser(r) \/ BootstrapMember(r) \/ InsertMember(r)
    \/ BootstrapCommit(r) \/ AddMember(r) \/ AddCommit(r) \/ Target(r) \/ MatchOwners(r) \/ LockOwners(r)
    \/ CountOwners(r) \/ Write(r)
    \/ Invite(r) \/ MatchInvitations(r) \/ RevokeInvitations(r) \/ InviteCommit(r)
    \/ MailInvitation(r) \/ RevokeUndelivered(r) \/ FindPending(r) \/ RevokeCommit(r)
    \/ Accept(r) \/ LockInvitation(r) \/ FindInvited(r) \/ LockInvited(r) \/ CheckMember(r)
    \/ Join(r)
=============================================================================
