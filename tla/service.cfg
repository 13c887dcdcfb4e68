\* Requests of two organizations meet in twos, threes and fours.
SPECIFICATION Spec
CONSTANTS
    Emails = {"ann", "bob", "cid", "dee", "eve", "gil", "hal"}
    Slugs = {"one", "two", "three", "four", "five"}
    Passwords = {"old", "new", "other"}
    Names = {"shop", "lab", "goods", "golden", "demo", "v1", "v2"}
    Requests <- TheRequests
    Call <- TheCalls
    Workloads <- TheWorkloads
    Seeds <- TheSeeds
    SeedUsers <- TheUsers
    SeedMembers <- TheMembers
    SeedSessions <- TheSessions
    SeedLinks <- TheLinks
    SeedInvitations <- TheInvitations
    SeedResources <- TheResources
    NoRow = NoRow
    MaxFaults = 1
INVARIANTS TypeOK SessionsFollowPassword OneLink SingleUse InvitationsDecided OwnerRetained OwnersMakeOwners DeadlocksNamed TenantsApart ImportsStored DatasetsGrounded ImportErrors
CHECK_DEADLOCK FALSE
