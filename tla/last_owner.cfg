\* docs/api-persistence.md:150-151 "row locking plus a last-Owner check prevents every
\* removal or downgrade that would leave an organization without an Owner."
SPECIFICATION Spec
CONSTANTS
    Emails = {"ann", "bob", "cid", "dee", "eve", "gil", "hal"}
    Slugs = {"one", "two", "three", "four", "five"}
    Passwords = {"old", "new", "other"}
    Names = {"shop", "lab", "goods", "golden", "demo", "v1", "v2"}
    Requests <- TheRequests
    Call <- TheCalls
    Workloads <- LastOwnerWorkloads
    Seeds <- TheSeeds
    SeedUsers <- TheUsers
    SeedMembers <- TheMembers
    SeedSessions <- TheSessions
    SeedLinks <- TheLinks
    SeedInvitations <- TheInvitations
    SeedResources <- TheResources
    NoRow = NoRow
    MaxFaults = 1
INVARIANTS LastOwnerKept
CHECK_DEADLOCK FALSE
