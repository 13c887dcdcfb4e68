------------------------------ MODULE Accounts ------------------------------
(***************************************************************************)
(* Accounts: registration, sessions, the single-use links that verify an   *)
(* email and reset a password, and the script that resets one.             *)
(***************************************************************************)
EXTENDS ServiceTables

RequestedUser(r) == UserOf(Call[r].email)

-----------------------------------------------------------------------------
(* Sessions *)

NewSession(r, email, password) ==
    [id |-> r, email |-> email, password |-> password, revoked |-> FALSE]

\* authenticate_user reads the user and checks the password.
Login(r) ==
    LET valid == {u \in RequestedUser(r) : u.active /\ u.password = Call[r].password}
    IN  /\ pc[r] = "login"
        /\ \/ \E u \in valid : ReadInto(r, "openSession", [memo[r] EXCEPT !.row = u])
           \/ valid = {} /\ Reject(r)

\* create_session commits whatever the user has become since.
OpenSession(r) ==
    /\ pc[r] = "openSession"
    /\ Answer(r, "done")
    /\ sessions' = sessions \union {NewSession(r, memo[r].row.email, Call[r].password)}
    /\ UNCHANGED <<users, links, governance, resources>>

Logout(r) ==
    /\ pc[r] = "logout"
    /\ Answer(r, "done")
    /\ sessions' = Rewritten(sessions, {s \in sessions : s.id = Call[r].cookie}, Revoked)
    /\ UNCHANGED <<users, links, governance, resources>>

-----------------------------------------------------------------------------
(* Registration *)

\* One flush inserts the organization and then the user.
RegisterOrganization(r) ==
    /\ pc[r] = "register"
    /\ Insert(r, "registerUser", OrganizationKey(Call[r].org),
              Call[r].org \in organizations, "refused")
RegisterUser(r) ==
    /\ pc[r] = "registerUser"
    /\ Insert(r, "registerCommit", UserRow(Call[r].email), RequestedUser(r) # {}, "refused")

NewUser(r, verified) == [email |-> Call[r].email, active |-> TRUE, verified |-> verified,
                         password |-> Call[r].password]
NewMember(r, org, email, role) == [id |-> r, org |-> org, email |-> email, role |-> role]

\* They commit with the Owner membership and a session; the link comes after.
RegisterCommit(r) ==
    LET call == Call[r]
    IN  /\ pc[r] = "registerCommit"
        /\ Committed(r, "issue")
        /\ users' = users \union {NewUser(r, FALSE)}
        /\ organizations' = organizations \union {call.org}
        /\ memberships' = memberships \union {NewMember(r, call.org, call.email, "OWNER")}
        /\ sessions' = sessions \union {NewSession(r, call.email, call.password)}
        /\ UNCHANGED <<links, invitations, resources>>

-----------------------------------------------------------------------------
(* Links *)

Forgot(r) ==
    LET active == {u \in RequestedUser(r) : u.active}
    IN  /\ pc[r] = "forgot"
        /\ \/ active # {} /\ Read(r, "issue")
           \/ active = {} /\ Answer(r, "done") /\ UNCHANGED tables

Resend(r) ==
    /\ pc[r] = "resend"
    /\ \/ ~memo[r].row.verified /\ Read(r, "issue")
       \/ memo[r].row.verified /\ Answer(r, "done") /\ UNCHANGED tables

KindOf(r) == IF Call[r].op \in {"forgot", "reset"} THEN "reset" ELSE "verify"

UnusedLinks(r) == {l \in links : l.kind = KindOf(r) /\ l.email = OwnerOf(r) /\ ~l.used}
RowsOf(table, rows) == {Row(table, row.id) : row \in rows}

\* Mutant: earlier links are left valid.
IssueMatchNone(r) == pc[r] = "issue" /\ Match(r, "retire", {})

\* Earlier links are retired, and the new one is committed before it is sent.
IssueMatch(r) ==
    /\ pc[r] = "issue"
    /\ Match(r, "retire", RowsOf("links", UnusedLinks(r)))
Retire(r) ==
    /\ pc[r] = "retire"
    /\ Lock(r, "insertLink", RowsOf("links", UnusedLinks(r)))
NewLink(r) == [id |-> r, kind |-> KindOf(r), email |-> OwnerOf(r), used |-> FALSE,
               fresh |-> TRUE]
IssueCommit(r) ==
    /\ pc[r] = "insertLink"
    /\ Committed(r, "mail")
    /\ links' = Rewritten(links, Locked(r, "links", links), Used) \union {NewLink(r)}
    /\ UNCHANGED <<users, sessions, governance, resources>>

\* A mail that fails may have arrived.
Mail(r) ==
    /\ pc[r] = "mail"
    /\ \/ Answer(r, "done") /\ UNCHANGED tables
       \/ Read(r, "undelivered")
RetireUndelivered(r) ==
    /\ pc[r] = "undelivered"
    /\ Answer(r, "done")
    /\ links' = Rewritten(links, {l \in links : l.id = r}, Used)
    /\ UNCHANGED <<users, sessions, governance, resources>>

\* verify_email and reset_password: the link is locked,
Valid(r) == {l \in links : /\ l.id = Call[r].link /\ l.kind = KindOf(r)
                           /\ ~l.used /\ l.fresh}
FindLink(r) ==
    /\ pc[r] = "findLink"
    /\ \/ Valid(r) # {} /\ Match(r, "lockLink", RowsOf("links", Valid(r)))
       \/ Valid(r) = {} /\ Reject(r)

\* Mutant: the link is not looked at again once it is locked.
LockLinkFound(r) == pc[r] = "lockLink" /\ Lock(r, "findHolder", memo[r].matched)

LockLink(r) ==
    /\ pc[r] = "lockLink"
    /\ \/ Valid(r) # {} /\ Lock(r, "findHolder", RowsOf("links", Valid(r)))
       \/ Valid(r) = {} /\ Reject(r)

\* its user is read, and the user's other links are retired,
FindHolder(r) ==
    LET active == {u \in UserOf(LinkOf(r).email) : u.active}
    IN  /\ pc[r] = "findHolder"
        /\ \/ \E u \in active :
                 ReadInto(r, "matchLinks", [memo[r] EXCEPT !.row = u])
           \/ active = {} /\ Reject(r)
MatchLinks(r) ==
    /\ pc[r] = "matchLinks"
    /\ Match(r, "retireAll", RowsOf("links", UnusedLinks(r)))
RetireAll(r) ==
    /\ pc[r] = "retireAll"
    /\ Lock(r, IF KindOf(r) = "reset" THEN "matchSessions" ELSE "useLink",
            RowsOf("links", UnusedLinks(r)))

\* Mutant: a password reset leaves the sessions open.
MatchNoSessions(r) == pc[r] = "matchSessions" /\ Match(r, "revokeSessions", {})

LiveSessions(email) == {s \in sessions : s.email = email /\ ~s.revoked}
MatchSessions(r) ==
    /\ pc[r] = "matchSessions"
    /\ Match(r, "revokeSessions",
             RowsOf("sessions", LiveSessions(memo[r].row.email)))
RevokeSessions(r) ==
    /\ pc[r] = "revokeSessions"
    /\ Lock(r, "useLink", RowsOf("sessions", LiveSessions(memo[r].row.email)))

\* and the user, who is updated in the flush of the commit.
Changed(r, u) == IF KindOf(r) = "reset" THEN [u EXCEPT !.password = Call[r].password]
                 ELSE [u EXCEPT !.verified = TRUE]
UseLink(r) ==
    LET W(u) == Changed(r, u)
    IN  /\ pc[r] = "useLink"
        /\ Answer(r, "done")
        /\ users' = Rewritten(users, UserOf(memo[r].row.email), W)
        /\ links' = Rewritten(links, Locked(r, "links", links), Used)
        /\ sessions' = Rewritten(sessions, Locked(r, "sessions", sessions), Revoked)
        /\ UNCHANGED <<governance, resources>>

-----------------------------------------------------------------------------
(* The script reset_password *)

\* The script loads the user and the sessions without locks,
ScriptFindUser(r) ==
    /\ pc[r] = "scriptReset"
    /\ \/ \E u \in RequestedUser(r) :
             ReadInto(r, "scriptSessions", [memo[r] EXCEPT !.row = u])
       \/ RequestedUser(r) = {} /\ Reject(r)
ScriptFindSessions(r) ==
    /\ pc[r] = "scriptSessions"
    /\ Match(r, "scriptUser",
             RowsOf("sessions", LiveSessions(memo[r].row.email)))

\* and its commit updates first the one and then the others, as they were read.
ScriptFlushUser(r) ==
    /\ pc[r] = "scriptUser"
    /\ Goto(r, "scriptLock")
    /\ locks' = [locks EXCEPT ![r] = Needs(r)]
    /\ UNCHANGED <<memo, met, tables>>
ScriptFlushSessions(r) ==
    /\ pc[r] = "scriptLock"
    /\ Lock(r, "scriptCommit", memo[r].matched)
ScriptCommit(r) ==
    LET W(u) == [u EXCEPT !.password = Call[r].password]
    IN  /\ pc[r] = "scriptCommit"
        /\ Answer(r, "done")
        /\ users' = Rewritten(users, UserOf(memo[r].row.email), W)
        /\ sessions' = Rewritten(sessions, Locked(r, "sessions", sessions), Revoked)
        /\ UNCHANGED <<links, governance, resources>>

AccountStep(r) ==
    \/ Login(r) \/ OpenSession(r) \/ Logout(r)
    \/ RegisterOrganization(r) \/ RegisterUser(r) \/ RegisterCommit(r)
    \/ Forgot(r) \/ Resend(r) \/ IssueMatch(r) \/ Retire(r) \/ IssueCommit(r)
    \/ Mail(r) \/ RetireUndelivered(r)
    \/ FindLink(r) \/ LockLink(r) \/ FindHolder(r) \/ MatchLinks(r) \/ RetireAll(r)
    \/ MatchSessions(r) \/ RevokeSessions(r) \/ UseLink(r)
    \/ ScriptFindUser(r) \/ ScriptFindSessions(r) \/ ScriptFlushUser(r)
    \/ ScriptFlushSessions(r) \/ ScriptCommit(r)
=============================================================================
