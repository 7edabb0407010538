SPECIFICATION FairSpec
CONSTANTS
    Notices = {n1}
    Requests = {r1, r2}
    Pages = {p1}
    Users <- AdminOrParent
    Forms <- Submitted
    MayFail = {r1}
    HasTargets = TRUE
    HasCards = TRUE
    MaxVisits = 2
    MaxDrops = 1
    None = None
INVARIANTS TypeOK LastWordIsCurrent OnlyForItsAudience CountIsChildren NoGhosts
PROPERTIES ChangesAreAnnounced DestroyedLeavesPages
CHECK_DEADLOCK FALSE
