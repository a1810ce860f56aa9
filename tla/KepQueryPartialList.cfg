\* A page of the list of pull requests that fails: repo.go:74 says the cache holds them all.
CONSTANTS
    Groups = {"sig-a", "sig-b", "sig-c"}
    PRRApprovers = {"prr"}
    Nil = Nil
    Malformed = Malformed
    NotExist = NotExist
    Unreadable = Unreadable
    BadMilestone = BadMilestone
    Layouts <- OneLayout
    GroupLists <- AllGroups
    AliasLists <- AliasAnswers
    Matches <- MCMatches
    BadRegexps = {"("}
    TokenPath = TRUE
    Local <- MCLocal
    PullRequests <- ThreePRs
    PerPage = 2
    Requests <- OneRequest
    MaxQueries = 2
    MaxFailures = 1
    MaxChanges = 0
SPECIFICATION Spec
INVARIANT CachedListIsComplete
\* The caller may stop calling Query.
CHECK_DEADLOCK FALSE
