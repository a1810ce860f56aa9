---------------------------- MODULE NodeApprovers ----------------------------
(***************************************************************************)
(* The two checks of SIG Node's approvers (pkg/nodeapprovers/verify.go) as *)
(* test/node_approvers_test.go runs them on every change:                  *)
(*                                                                         *)
(*   "owners"     TestNodeApprovers: the people that a kep.yaml marks as   *)
(*                assigned and the OWNERS file beside it agree;            *)
(*   "techleads"  TestNodeTechLeadApprovers: a KEP for a release that is   *)
(*                still to come is approved by a tech lead.                *)
(*                                                                         *)
(* Between two tests the repository changes and kubernetes/kubernetes, an  *)
(* external repository, is tagged; a test works on a checkout of its own.  *)
(* A v1 tag is <<minor, n>>, where n is its place among the tags of the    *)
(* minor version: an alpha, a beta, a candidate, the release, patches.     *)
(***************************************************************************)
EXTENDS Naturals, FiniteSets

CONSTANTS
    Nil,            \* an absent key, a node of another kind, or an absent alias
    Malformed,      \* a document that yaml.Unmarshal rejects
    NotExist,       \* os.ReadFile finds no such file
    Unreadable,     \* os.ReadFile fails for another reason
    BadMilestone,   \* a milestone from which no minor version can be read
    KEPs,           \* the kep.yaml files, numbered in the order of the walk
    NodeKEPs,       \* those below keps/sig-node
    Docs,           \* what a kep.yaml may be
    OwnersFiles,    \* what an OWNERS file may be
    AliasFiles,     \* what sig-node-tech-leads may be in OWNERS_ALIASES
    Minors,         \* the minor versions of Kubernetes
    Repositories,   \* kinds of repositories to start on: [kep, owners, aliases, tags] to choose from
    MaxTags,        \* bound: tags of one minor version
    PerPage,        \* tags that GitHub returns (100)
    MaxTests,       \* bound: tests run
    MaxMerges,      \* bound: changes to the repository
    MaxFailures     \* bound: calls of GitHub that fail

Candidate == 3
Release == 4

minEnforcedMinor == 36
Fallback == 999

\* A handle as it is spelled: with or without "@", in capitals or not.
normalizeUser(handle) == handle.name

ASSUME NodeFiles ==
    /\ KEPs \subseteq Nat /\ NodeKEPs \subseteq KEPs
    /\ \A d \in Docs \ {Malformed, Unreadable} : d.latestMilestone \in Nat \cup {BadMilestone}

\* GitHub sorts the newest tags first, and the release of a minor version is on
\* the first page with all of its patches.
ASSUME PageShowsRelease ==
    /\ Minors \subseteq Nat \ {0} /\ IsFiniteSet(Minors) /\ \A m \in Minors : m + 1 < Fallback
    /\ MaxTags \in Nat /\ PerPage \in Nat /\ MaxTags < PerPage + Release

ASSUME RepositoriesHaveFiles ==
    \A k \in Repositories :
        /\ k.kep \subseteq [KEPs -> Docs] /\ k.owners \subseteq [KEPs -> OwnersFiles]
        /\ k.aliases \subseteq AliasFiles /\ k.tags \subseteq [Minors -> 0 .. MaxTags]

ASSUME NodeBounds == {MaxTests, MaxMerges, MaxFailures} \subseteq Nat

VARIABLES
    kep,        \* KEPs -> the content of kep.yaml
    owners,     \* KEPs -> the content of OWNERS
    aliases,    \* the sig-node-tech-leads of OWNERS_ALIASES
    tags,       \* Minors -> how many of its tags exist
    pc, test,   \* where the test is, and which of the two it is
    upcoming,   \* upcomingMinor
    todo,       \* the kep.yaml files that the walk has still to visit
    violations, \* what the walk has collected
    passed,     \* history: the tests this tree has passed, with their upcoming
    tests, merges, failures

repository == <<kep, owners, aliases>>
vars == <<kep, owners, aliases, tags, pc, test, upcoming, todo, violations, passed,
          tests, merges, failures>>

Init ==
    /\ \E k \in Repositories :
         kep \in k.kep /\ owners \in k.owners /\ aliases \in k.aliases /\ tags \in k.tags
    /\ pc = "idle" /\ test = "owners"
    /\ upcoming = 0 /\ todo = {} /\ violations = {}
    /\ passed = {}
    /\ tests = 0 /\ merges = 0 /\ failures = 0

----------------------------------------------------------------------------
(* FetchUpcomingMinor *)

Tags == {t \in Minors \X (1 .. MaxTags) : t[2] <= tags[t[1]]}
Newer(s, t) == s[1] > t[1] \/ (s[1] = t[1] /\ s[2] > t[2])

\* The tags on the first page.
Page == {t \in Tags : Cardinality({s \in Tags : Newer(s, t)}) < PerPage}

seen == {t[1] : t \in Page}
released == {t[1] : t \in {s \in Page : s[2] \in {Candidate, Release}}}
maxMinor(m) == m \in seen /\ \A n \in seen : n <= m

\* Mutant of FetchUpcomingMinor: the highest minor is always the upcoming one.
FetchHighestMinor(m) == m

\* What it returns if the highest minor version on the page is m.
FetchUpcomingMinor(m) == IF m \in released THEN m + 1 ELSE m

----------------------------------------------------------------------------
(* The two tests *)

\* TestNodeApprovers starts with VerifyAllWithTechLeads.
TestNodeApprovers ==
    /\ pc = "idle" /\ tests < MaxTests
    /\ tests' = tests + 1
    /\ test' = "owners" /\ pc' = "aliases" /\ upcoming' = 0
    /\ UNCHANGED <<repository, tags, todo, violations, passed, merges, failures>>

\* TestNodeTechLeadApprovers asks GitHub first; without an answer, or without a
\* tag, it falls back on 999.
TestNodeTechLeadApprovers ==
    /\ pc = "idle" /\ tests < MaxTests
    /\ tests' = tests + 1
    /\ test' = "techleads" /\ pc' = "aliases"
    /\ \/ /\ failures < MaxFailures
          /\ failures' = failures + 1
          /\ upcoming' = Fallback
       \/ seen = {} /\ upcoming' = Fallback /\ UNCHANGED failures
       \/ /\ \E m \in Minors : maxMinor(m) /\ upcoming' = FetchUpcomingMinor(m)
          /\ UNCHANGED failures
    /\ UNCHANGED <<repository, tags, todo, violations, passed, merges>>

----------------------------------------------------------------------------
(* loadTechLeads *)

AliasError == aliases \in {NotExist, Unreadable, Malformed, Nil} \/ aliases = {}

techLeads == {normalizeUser(m) : m \in aliases}

\* An alias that is absent or has no members is an error; then walkKEPs starts.
LoadTechLeads ==
    /\ pc = "aliases"
    /\ IF AliasError
       THEN pc' = "error" /\ UNCHANGED todo
       ELSE /\ pc' = "walk"
            /\ todo' = IF test = "owners" THEN KEPs ELSE NodeKEPs
    /\ UNCHANGED <<repository, tags, test, upcoming, violations, passed, tests, merges, failures>>

----------------------------------------------------------------------------
(* verifyKEP *)

\* Items of the list that are not scalars (Nil) are passed over.
Entries(list) == IF list = Nil THEN {} ELSE list \ {Nil}

assignedUsers(list, marker) ==
    {normalizeUser(e.user) : e \in {i \in Entries(list) : i.marker = marker}}

assignedReviewers(k) == assignedUsers(k.reviewers, "sig-node-assigned-reviewer")
assignedApprovers(k) == assignedUsers(k.approvers, "sig-node-assigned-approver")
listedApprovers(k) == {normalizeUser(e.user) : e \in Entries(k.approvers)}

Violations(role, users, reason) == {<<role, u, reason>> : u \in users}

\* The violations when there is no OWNERS file.
Unowned(k) ==
    Violations("reviewer", assignedReviewers(k), "OWNERS file not found")
      \cup Violations("approver", assignedApprovers(k), "OWNERS file not found")

\* Mutant of Compare: the reviewers of OWNERS are not looked up in kep.yaml.
CompareForward(k, o) ==
    LET reviewers == {normalizeUser(u) : u \in o.reviewers}
        approvers == {normalizeUser(u) : u \in o.approvers}
    IN  Violations("reviewer", assignedReviewers(k) \ reviewers, "not listed in OWNERS")
          \cup Violations("approver", assignedApprovers(k) \ approvers, "not listed in OWNERS")
          \cup Violations("approver",
                          {u \in approvers \ assignedApprovers(k) :
                             u \notin techLeads \/ u \notin listedApprovers(k)},
                          "not annotated")

\* Mutant of Compare: every listed approver may go without a mark, not only a
\* tech lead.
CompareAnyListed(k, o) ==
    LET reviewers == {normalizeUser(u) : u \in o.reviewers}
        approvers == {normalizeUser(u) : u \in o.approvers}
    IN  Violations("reviewer", assignedReviewers(k) \ reviewers, "not listed in OWNERS")
          \cup Violations("approver", assignedApprovers(k) \ approvers, "not listed in OWNERS")
          \cup Violations("reviewer", reviewers \ assignedReviewers(k), "not annotated")
          \cup Violations("approver", approvers \ (assignedApprovers(k) \cup listedApprovers(k)),
                          "not annotated")

\* The check in both directions when there is one.
Compare(k, o) ==
    LET reviewers == {normalizeUser(u) : u \in o.reviewers}
        approvers == {normalizeUser(u) : u \in o.approvers}
    IN  Violations("reviewer", assignedReviewers(k) \ reviewers, "not listed in OWNERS")
          \cup Violations("approver", assignedApprovers(k) \ approvers, "not listed in OWNERS")
          \cup Violations("reviewer", reviewers \ assignedReviewers(k), "not annotated")
          \cup Violations("approver",
                          {u \in approvers \ assignedApprovers(k) :
                             u \notin techLeads \/ u \notin listedApprovers(k)},
                          "not annotated")

ownersError(k, o) == k \in {Malformed, Unreadable} \/ o \in {Malformed, Unreadable}

verifyKEP(k, o) == IF o = NotExist THEN Unowned(k) ELSE Compare(k, o)

----------------------------------------------------------------------------
(* VerifyTechLeadApprovers *)

parseMilestoneMinor(milestone) == IF milestone = BadMilestone THEN 0 ELSE milestone

Skipped(k) ==
    \/ k.status \in {"withdrawn", "rejected", "replaced"}
    \/ parseMilestoneMinor(k.latestMilestone) < minEnforcedMinor

\* Mutant of activelyAlpha: only the upcoming release counts, not a later one.
activelyAlphaNow(k, upcomingMinor) ==
    k.stage = "alpha" /\ parseMilestoneMinor(k.latestMilestone) = upcomingMinor

activelyAlpha(k, upcomingMinor) ==
    k.stage = "alpha" /\ parseMilestoneMinor(k.latestMilestone) >= upcomingMinor

VerifyTechLeadApprovers(k, upcomingMinor) ==
    LET hasTechLead == listedApprovers(k) \cap techLeads # {}
        hasMarked == assignedApprovers(k) # {}
    IN  IF Skipped(k) THEN {}
        ELSE IF Entries(k.approvers) = {}
             THEN Violations("approver", {Nil}, "no approvers listed")
        ELSE IF activelyAlpha(k, upcomingMinor)
             THEN Violations("approver", IF hasTechLead THEN {} ELSE {Nil}, "alpha needs a tech lead")
                    \cup Violations("approver", assignedApprovers(k) \ techLeads, "marked in alpha")
        ELSE Violations("approver", IF hasTechLead \/ hasMarked THEN {} ELSE {Nil}, "needs an approver")

----------------------------------------------------------------------------
(* walkKEPs *)

verifyError(i) ==
    IF test = "owners" THEN ownersError(kep[i], owners[i]) ELSE kep[i] \in {Malformed, Unreadable}

verify(i) ==
    IF test = "owners" THEN verifyKEP(kep[i], owners[i]) ELSE VerifyTechLeadApprovers(kep[i], upcoming)

\* Mutant of VisitKEP: the violations of a walk that fails are kept.
VisitKEPKeeps ==
    /\ pc = "walk"
    /\ \E i \in todo :
         /\ \A j \in todo : i <= j
         /\ IF verifyError(i)
            THEN pc' = "error" /\ UNCHANGED <<todo, violations>>
            ELSE /\ pc' = pc /\ todo' = todo \ {i}
                 /\ violations' = violations \cup {<<i, v>> : v \in verify(i)}
    /\ UNCHANGED <<repository, tags, test, upcoming, passed, tests, merges, failures>>

\* Mutant of VisitKEP: a KEP without violations is visited again.
VisitKEPAgain ==
    /\ pc = "walk"
    /\ \E i \in todo :
         /\ \A j \in todo : i <= j
         /\ IF verifyError(i)
            THEN pc' = "error" /\ todo' = {} /\ violations' = {}
            ELSE /\ pc' = pc /\ todo' = IF verify(i) = {} THEN todo ELSE todo \ {i}
                 /\ violations' = violations \cup {<<i, v>> : v \in verify(i)}
    /\ UNCHANGED <<repository, tags, test, upcoming, passed, tests, merges, failures>>

\* A KEP that cannot be verified ends the walk, and its violations are dropped.
VisitKEP ==
    /\ pc = "walk"
    /\ \E i \in todo :
         /\ \A j \in todo : i <= j
         /\ IF verifyError(i)
            THEN pc' = "error" /\ todo' = {} /\ violations' = {}
            ELSE /\ pc' = pc /\ todo' = todo \ {i}
                 /\ violations' = violations \cup {<<i, v>> : v \in verify(i)}
    /\ UNCHANGED <<repository, tags, test, upcoming, passed, tests, merges, failures>>

\* The test fails if there are violations.
Report ==
    /\ pc = "walk" /\ todo = {}
    /\ pc' = IF violations = {} THEN "passed" ELSE "failed"
    /\ passed' = IF violations = {} THEN passed \cup {[test |-> test, upcoming |-> upcoming]} ELSE passed
    /\ UNCHANGED <<repository, tags, test, upcoming, todo, violations, tests, merges, failures>>

Ended == pc \in {"passed", "failed", "error"}

\* The process of the test is gone.
Exit ==
    /\ Ended
    /\ pc' = "idle" /\ violations' = {}
    /\ UNCHANGED <<repository, tags, test, upcoming, todo, passed, tests, merges, failures>>

----------------------------------------------------------------------------
(* The environment *)

\* A change is merged; the next test sees another tree.
Merge ==
    /\ pc = "idle" /\ merges < MaxMerges
    /\ merges' = merges + 1
    /\ \/ \E i \in KEPs, d \in Docs : kep' = [kep EXCEPT ![i] = d] /\ UNCHANGED <<owners, aliases>>
       \/ \E i \in KEPs, o \in OwnersFiles : owners' = [owners EXCEPT ![i] = o] /\ UNCHANGED <<kep, aliases>>
       \/ \E a \in AliasFiles : aliases' = a /\ UNCHANGED <<kep, owners>>
    /\ repository' # repository
    /\ passed' = {}
    /\ UNCHANGED <<tags, pc, test, upcoming, todo, violations, tests, failures>>

\* The next tag of a minor version: its branch may be open before the release of
\* the one before.
CutTag ==
    /\ \E m \in Minors :
         /\ tags[m] < MaxTags
         /\ m - 1 \in Minors => tags[m - 1] > 0
         /\ tags' = [tags EXCEPT ![m] = @ + 1]
    /\ UNCHANGED <<repository, pc, test, upcoming, todo, violations, passed, tests, merges, failures>>

Step == LoadTechLeads \/ VisitKEP \/ Report

Next == \/ TestNodeApprovers \/ TestNodeTechLeadApprovers
        \/ Step \/ Exit
        \/ Merge \/ CutTag

\* A test that runs goes on until it ends.
Spec == Init /\ [][Next]_vars /\ WF_vars(Step)

----------------------------------------------------------------------------
(* Properties *)

\* The variables have their types; a walk that ends in an error has no report.
TypeOK ==
    /\ kep \in [KEPs -> Docs] /\ owners \in [KEPs -> OwnersFiles] /\ aliases \in AliasFiles
    /\ tags \in [Minors -> 0 .. MaxTags]
    /\ pc \in {"idle", "aliases", "walk", "passed", "failed", "error"}
    /\ test \in {"owners", "techleads"}
    /\ upcoming \in Nat
    /\ todo \in SUBSET KEPs
    /\ pc = "error" => violations = {} /\ todo = {}
    /\ passed \in SUBSET [test : {"owners", "techleads"}, upcoming : Nat]
    /\ <<tests, merges, failures>> \in (0 .. MaxTests) \X (0 .. MaxMerges) \X (0 .. MaxFailures)

\* The people that OWNERS names for a KEP are those that kep.yaml marks, and tech
\* leads among its approvers; nobody is marked where there is no OWNERS.
Agrees(k, o) ==
    IF o = NotExist THEN assignedReviewers(k) = {} /\ assignedApprovers(k) = {}
    ELSE LET approvers == {normalizeUser(u) : u \in o.approvers}
         IN  /\ assignedReviewers(k) = {normalizeUser(u) : u \in o.reviewers}
             /\ approvers = assignedApprovers(k)
                              \cup (approvers \cap techLeads \cap listedApprovers(k))

\* The tech leads among the approvers of a KEP are in its OWNERS as well.
LeadsAreListed(k, o) ==
    listedApprovers(k) \cap techLeads \subseteq
        IF o = NotExist THEN {} ELSE {normalizeUser(u) : u \in o.approvers}

\* TestNodeApprovers passes if every KEP of the tree agrees with its OWNERS and has
\* its tech leads there, and fails if one does not agree; it is an error exactly
\* when a file cannot be read.  Whether a tech lead may be missing from OWNERS is
\* disputed: see TechLeadsAreOwners.
OwnersReportIsExact ==
    test = "owners" /\ Ended =>
        LET readable == ~AliasError /\ \A i \in KEPs : ~ownersError(kep[i], owners[i])
            agree == \A i \in KEPs : Agrees(kep[i], owners[i])
            listed == \A i \in KEPs : LeadsAreListed(kep[i], owners[i])
        IN  /\ pc = "error" <=> ~readable
            /\ pc = "passed" => readable /\ agree
            /\ readable /\ agree /\ listed => pc = "passed"

\* TestNodeApprovers "verifies that each assigned reviewer/approver and listed SIG
\* Node tech lead is listed in the neighboring OWNERS file"
\* (node_approvers_test.go:30-31): where there is an OWNERS, it has the tech leads
\* that kep.yaml lists.
TechLeadsAreOwners ==
    test = "owners" /\ pc = "passed" =>
        \A i \in KEPs : owners[i] # NotExist => LeadsAreListed(kep[i], owners[i])

\* On a tree that has passed both tests with an answer from GitHub, nobody but a
\* tech lead is an approver in the OWNERS of an alpha KEP for a coming release.
OnlyTechLeadsApproveAlpha ==
    \A p, q \in passed : p.test = "owners" /\ q.test = "techleads" /\ q.upcoming # Fallback =>
        \A i \in NodeKEPs :
            /\ ~Skipped(kep[i]) /\ activelyAlpha(kep[i], q.upcoming)
            /\ owners[i] # NotExist
            => {normalizeUser(u) : u \in owners[i].approvers} \subseteq techLeads

\* A tree that has passed the tech lead check with an answer from GitHub passes it
\* ever after: a new tag of Kubernetes never breaks the tests of this repository.
PassSurvivesReleases ==
    pc = "failed" /\ test = "techleads" =>
        \A p \in passed : p.test = "techleads" => p.upcoming = Fallback

\* The upcoming version that a test gets has neither a release nor a candidate:
\* "returns N+1" of the highest N "that has a v1.N.0 or v1.N.0-rc.* tag"
\* (verify.go:533).
UpcomingIsUnreleased ==
    [][\A m \in Minors : upcoming' = m /\ pc = "idle" /\ pc' = "aliases" => tags[m] < Candidate]_vars

\* When the test falls back on 999 it says "all alpha KEPs will be strictly
\* enforced" (node_approvers_test.go:69): an alpha KEP without a tech lead fails.
FallbackIsStrict ==
    pc = "passed" /\ test = "techleads" /\ upcoming = Fallback =>
        \A i \in NodeKEPs :
            kep[i].stage = "alpha" /\ ~Skipped(kep[i]) => listedApprovers(kep[i]) \cap techLeads # {}

\* Every test ends.
TestsEnd == (pc = "aliases") ~> Ended
==============================================================================
