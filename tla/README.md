# Verification of the enhancements tooling

`kubernetes/enhancements` keeps the Kubernetes Enhancement Proposals (KEPs) under
`keps/` and the Go programs that create, change, search and check them.  This
directory models those programs in TLA+, checks the models with TLC on small
instances and proves every safety property of those runs with TLAPS for every
instance.  Paths such as `pkg/repo/validate.go` are relative to the root of the
repository.  `PROJECT.json` maps each definition to the lines it models.

## Inventory

| Component | State | Operations | Interacts with |
|---|---|---|---|
| Documents (`api/`) | `kep.yaml`, `prod-readiness/<sig>/<n>.yaml`; `Parser.Errors` | `KEPHandler.Parse`, `Validate`, `PRRHandler.Parse`, `ApproverForStage` | every other part |
| PRR gate (`pkg/kepval`) | none | `isPRRRequired`, `ValidatePRR` | documents, approval files |
| Repository validation (`pkg/repo/validate.go`) | files found, `valErrMap` | `Repo.Validate`: walk, then check each file | file system, which others may change |
| Query (`pkg/repo/query.go`) | options, collected KEPs | `PrepareQueryOpts`, `Query` | local and pull request loaders |
| Loaders (`pkg/repo/repo.go`) | cached list `allPRs`, cached clone `gitRepo` | `LoadLocalKEPs`, `LoadLocalKEP`, `LoadPullRequestKEPs`, `loadKEPFromYaml` | file system, GitHub, git |
| Writer (`pkg/repo/write.go`, `pkg/yaml`) | files | `WriteKEP` | Create, Promote |
| Create, Promote (`pkg/proposal`) | files | `Create`, `Promote` | documents, writer; other processes through the files |
| SIG Node checks (`pkg/nodeapprovers`, `test/node_approvers_test.go`) | violations, upcoming version | `FetchUpcomingMinor`, `loadTechLeads`, `walkKEPs`, `verifyKEP`, `VerifyTechLeadApprovers` | `kep.yaml`, OWNERS, OWNERS_ALIASES, tags of kubernetes/kubernetes |
| Construction (`NewRepo`), group fetcher (`api/groups.go`) | paths, template, groups | one download each | GitHub |
| kepify (`cmd/kepify`) | JSON output | find, parse, print | documents |
| kepctl (`cmd/kepctl`, `pkg/kepctl`), output (`pkg/output`) | none | flags, dispatch, formatting | query, create, promote |

What is hard here is not threads within one process, of which there are none.
It is that the programs share a working tree with people and with each other,
that a query is a long sequence of remote calls each of which may fail with
caches kept in between, that writes are several system calls which a kill may
separate, and that a verdict may depend on another repository that moves on.
The programs also meet in one file: `Promote` rewrites a `kep.yaml` without its
comments, in which the SIG Node checks read who is assigned.

Correctness, per component:

- Validation: every error in the tree is reported, nothing else is, and a pass
  means that production readiness approvals are there; edits elsewhere in the
  tree do not change the verdict on a KEP.
- Query: failures of GitHub or git cost only the pull requests they concern; what
  is attributed to a pull request was read from its branch; the caches are what
  they claim to be; each version of a KEP is shown, with a link that leads
  somewhere; without a complete clone there is no answer.
- Local loader and kepify: on a tree that changes, the result has every KEP that
  was left alone and nothing that was never there; kepify's old output stays until
  all is parsed.
- Create and Promote: what they leave passes the validation; what a kill leaves
  can be repaired by running the command again; the command line reaches the KEP
  that it names.
- SIG Node checks: a pass means that OWNERS and the marks in `kep.yaml` agree and that alpha
  KEPs are in the hands of tech leads; a release of Kubernetes does not break it.

## Modules

| Module | Models |
|---|---|
| `KepMetadata` | `api/proposal.go`, `api/approval.go`, `pkg/kepval/approval.go` as operators |
| `FileTree` | the paths under `keps/` in the order of a walk, without state |
| `KepGate` | abstract specification: what a check of the repository promises |
| `RepoValidate`, `MCRepoValidate` | `Repo.Validate` on a changing tree; implements `KepGate` |
| `WorkingTree` | a tree that its user changes while a program walks it |
| `LocalLoader` | `findLocalKEPMeta` and `LoadLocalKEPs`, step by step |
| `Kepify` | `cmd/kepify` |
| `TreeReaders`, `MCTreeReaders` | composition: `LocalLoader` or `Kepify` on `WorkingTree` |
| `KepQuery`, `MCKepQuery` | `kepctl query`: `NewRepo`, the group fetcher, `Repo.Query`, its loaders, the output |
| `KepStore`, `MCKepStore` | `Create`, `Promote`, `WriteKEP` in overlapping processes |
| `Kepctl`, `MCKepctl` | the command lines of create and promote on top of `KepStore` |
| `NodeApprovers`, `MCNodeApprovers` | the two tests of SIG Node's approvers |
| `FileTreeProofs` | lemmas on paths in the order of a walk |
| `RepoValidateProofs`, `RepoGateProofs` | theorems on `RepoValidate`, and that it implements `KepGate` |
| `KepQueryProofs`, `TreeReadersProofs`, `KepStoreProofs`, `NodeApproversProofs` | theorems on the module of the name |

`RepoValidate`, `WorkingTree`, `KepQuery` and `KepStore` extend `KepMetadata`;
`RepoValidate` and `WorkingTree` share `FileTree`.  Definitions
whose comment begins with "Mutant of" are plausible bugs: each property is
violated when one of them takes the place of the definition it names.

### KepMetadata

A string is a member of a small set, `""` when it is not populated.  A list is a
set, or `Nil` when it is absent, because the `required` tag tells nil from empty.
A milestone `v1.N` is the number `N`, the `0.0` of many old KEPs the lowest of them;
`NoMilestone` and `BadMilestone` are none and one that does not parse.  A handle
keeps its leading `@`, which `ValidatePRR` strips.  Go errors are records with
the dynamic type, which `errors.As` looks at.  `Validate` and `ValidatePRR` give
each of their errors in the order of the code.  What `---` lines do to a file is
in `WorkingTree`: a file is the sequence of its sections, and `KEPHandler.Parse`
(`metadata` in `Kepify`) and `yaml.UnmarshalStrict` (`firstDocument` in
`LocalLoader`) take different ones.

### RepoValidate

The tree is a sequence of possible paths in the order of a lexical walk; `disk`
says which exist.  `pending` stands for the stack of `filepath.Walk`: the names
it has listed and not visited.  `VisitDir`, `VisitMetadata`, `VisitReadme` and
`VisitOther` are the branches of the callback with what Walk does with their
result: `SkipDir` from a file drops the rest of its directory.  `VisitVanished`
is the nil `FileInfo` of a name that is gone at `lstat`, `VisitVanishing` a name
that goes between `lstat` and the rest of the visit (a directory that is not read, a
`kep.yaml` that is not collected and whose siblings are walked).  `ValidateNext` is one turn
of the loop over the files; `errorsAs` compares the dynamic type of the error
with the type the target points to.  `Remove` and `Write` change the tree at any
moment while Validate runs, with the contents in `drafts`, unless nobody works on the
tree (`drafts` is empty).  `steady` is a history variable: the KEPs that no
edit has changed, hidden behind another `kep.yaml` or moved.

`KepGate` has no walk and no loop: a verdict in one step, which is exact on a tree
that nobody changed and has at least the errors of the steady KEPs otherwise.  It may
give up on a tree that is blocked, was edited, or has a `kep.yaml` that cannot be
opened: the comment at `validate.go:122` asks for that, the code goes on, and neither
`KepGate` nor `GivesUpExactlyWhenBlocked` takes a side (`FatalStops` does).
`ImplementsGate` is `KepGate`'s specification under the mapping in `Gate`: the
errors due and present are computed from the tree, and the verdict appears when
Validate returns.

### WorkingTree, LocalLoader, Kepify, TreeReaders

`WorkingTree` has the tree, its changes (`Remove`, `Write`) and what both readers
have: names pending in the walk, files found, Proposals kept.  `touched`, `removed`
and `seen` are history variables.  `LocalLoader` has the branches of the callback
of `findLocalKEPMeta`, in which symbolic links do not count as `kep.yaml` and the
name of a nil `FileInfo` is a panic, and the loop of `LoadLocalKEPs`, which the
first error ends.  `Kepify` looks at the error first in its walk, downloads groups
and approvers, opens files without closing them (`opened`, at most `MaxOpen`),
crashes on a file that does not parse because `kep.Error` is nil, and writes its
output in two steps, `CreateOutput` and `WriteOutput`; `Kill` may come at any time.
`TreeReaders` runs one of the two.

### KepQuery

`NewRepo` looks at the paths (`statPaths`; a path of the wrong kind gives neither a
Repo nor an error, since a nil error is wrapped, and the command goes on with a nil
pointer), then `FetchGroups`, `FetchPRRApprovers` and `getProposalTemplate`.  In
`Query` there is one action for each remote call or loop turn: `BeginSearch`, `ListPage`,
`SelectPRs`, `Clone`, `ListFiles`, `CheckoutPullRequest`, `ReadKEP`; each remote
call also has the disjunct in which it fails, and `Abort` is what `Query` does
then.  `allPRs` and `gitRepo` are the caches, which survive the query; the
clone is the number of the pull request checked out in it.  `OpenPR` and
`ClosePR` are GitHub.  Labels are pairs, since `sig-x` is looked up as `sig/x`.
Lists of KEPs are sets: no property is about their order.  A KEP has a group, the
directories between its group's and its own (`dir`, empty for most and not for, say,
`keps/sig-cluster-lifecycle/kubeadm/...`), and a name.  The local loader finds it at any
depth; of a pull request `below` gives the first name below the group, at which a nested
KEP has no `kep.yaml`; and `Link` is put together from owner and name.  The local KEPs of a
group are one step here; `LoadIsOneStep` of `TreeReaders` is what justifies that on
a tree that does not change.  `PrintProposals` prints rows, of which `Title` and
`Link` are modelled, or loses some when the output fails.  `held`, `grew` and
`shrank` are history variables about a listing.

### KepStore

Processes start `Create` or `Promote` at any time.  `os.WriteFile` is two steps, open
with truncation and write, and each call may fail or be the last before a kill.  Two
writers of one file may leave the tail of the longer content behind (`Malformed`).
`KepPath` is where `WriteKEP` writes: below the owning SIG, which for a KEP that was
moved or is nested is not where it was loaded.  `Marshal` is what the round trip
through YAML does to empty and absent lists.  `overlap` and `damage` are history
variables for the properties. `CreateWith` and `PromoteWith` take the options;
`Create` and `Promote` choose them.

### Kepctl

What the flags and arguments become: `createOpts` and `promoteOpts`.  No flag and no
argument of promote reaches the SIG and the name, so the command never loads a KEP;
`KepStore` models `proposal.Promote` as a Go program may call it, with its options
filled in.

### NodeApprovers

Handles are spelled with or without `@` and in any case; `normalizeUser` gives the
person.  `Repositories` has the kinds of repositories to start with.  `kep.yaml` is a
YAML node tree whose list items have a marker. `TestNodeTechLeadApprovers` first asks
GitHub for the tags, which `CutTag` adds in the order alpha, beta, candidate, release,
patches for each minor version, and falls back on 999.  `VisitKEP` is a turn of the
walk.  `Merge` changes the repository between two tests; `passed` is a history
variable with the tests that the present tree has passed.

## Runs

| Run | Checks | Bounds |
|---|---|---|
| `repo_validate` | `TypeOK`, `ExactReport`, `GivesUpExactlyWhenBlocked`, `PassMeansApproved`, `SteadyKEPsAreJudged`, `PanicOnlyIfVanished`, `Terminates`, `ImplementsGate` | nobody works on the tree: all trees over 13 paths, with KEPs nested before and after a `kep.yaml`, one below `prod-readiness`, and 4 choices of unreadable paths; on one tree with a nested KEP, 2 KEPs from 10 documents and 2 approvals from 9, on both sides of every condition; somebody does: all trees over 9 of the paths, 3 choices of unreadable paths, 2 edits with 2 contents |
| `repo_validate_fatal` | `FatalStops` is violated | the trees that nobody works on |
| `kep_query_failures` | `TypeOK`, `LocalKEPsSurviveFailures`, `ErrorsAreLocal`, `SearchIsAllOrNothing`, `AnswersNeedARepository`, `ShownTwice`, `LinksLeadSomewhere`, `ListingSurvivesChanges`, `QueryReturns` | 5 layouts of the clone, 3 groups or none, one with a malformed KEP and one with a KEP of another owner, a nested KEP in the clone and in a pull request, 3 pull requests in pages of 2, 8 requests, 2 queries, 2 failures, 2 changes |
| `kep_query_partial_list` | `CachedListIsComplete` is violated | 1 failure |
| `kep_query_file_pages` | `TouchedKEPsAreRead` is violated | no failure |
| `kep_store` | `TypeOK`, `ReadmeHasMetadata`, `OnlyDamageLeavesTornFiles`, `CreatedKEPPassesTheGate`, `PromoteKeepsKEPValid`, `CommandsEnd` | 2 processes, 3 commands, 1 kill, 1 failure, 2 directories |
| `kep_store_moved` | `PromoteChangesTheKEP` is violated | a KEP in the directory of another group |
| `kepctl_promote` | `PromoteUpdatesSpecifiedKEP` is violated | 2 processes, 2 commands |
| `node_approvers` | `TypeOK`, `OwnersReportIsExact`, `OnlyTechLeadsApproveAlpha`, `PassSurvivesReleases`, `UpcomingIsUnreleased`, `TestsEnd` | 2 KEPs from 15 documents, 2 tests, 1 merge, 1 failure; after the releases, KEPs with 6 OWNERS and 4 aliases; before them, 2 KEPs of SIG Node and 2 minor versions of 5 tags each |
| `node_approvers_leads` | `TechLeadsAreOwners` is violated | 1 test |
| `node_approvers_fallback` | `FallbackIsStrict` is violated | 1 test |
| `tree_readers` | `TypeOK`, `LoadIsOneStep`, `LoadedKEPsAreReal`, `LoadFailsForACause`, `OutputIsWhole`, `EmptyOutputNeedsAFault`, `ConvertsUpToTheLimit`, `ReadersEnd` | 10 trees over 14 paths, 3 contents to write, 2 edits, 2 descriptors, 1 failure, a kill |

Why the bounds are enough: two edits suffice to hide a KEP and bring it back; two
failures hit two groups, or one group in two queries; two queries are needed for a
cache to be stale; three pull requests in pages of two make a second page, which may
fail after the first, or shift when a pull request is closed.  The three KEPs in
Markdown need more than the two descriptors unless one is taken away, so kepify is
seen on both sides of its limit.  Three commands let a `create` be repeated after it
was killed while another process promotes.  Two tests and five tags per minor version
put a candidate, a release and a patch between two tests of one tree, and the merge
makes any of the documents of one that has passed.  The page of tags is two long with
five tags, so that the release is the last tag that the page may show;
`PageShowsRelease` states what is assumed of the real page of 100.

Deadlock checking is off in every run: a program that has returned, or a
repository that nobody changes, rightly stops.

Fairness is weak fairness of the steps of the running program only (`Step`):
each is a single process, every call of which returns or fails.  No fairness is
assumed of GitHub, of people or of the start of a command.

### What the violated runs show

1. `validate.go:103`: `errors.As` is given a `*fatalValidationError`, so it looks
   for the struct type, while `validateFile` returns a pointer.  The documented
   short circuit never happens and a file that cannot be opened is one more
   entry of the report.
2. `repo.go:320`: a page that fails leaves the list of pull requests partial, and
   later searches use it as if it were complete.
3. `repo.go:400`: only the first page of a pull request's files is read.
4. `pkg/proposal/promote.go:45`: the arguments of `kepctl promote` are dropped; the
   command looks for `keps/kep.yaml` and never promotes a KEP.
5. `verify.go:478` with `node_approvers_test.go:69`: with the fallback 999 no
   alpha KEP is held to the strict rule, though the message says that all are.
6. `pkg/proposal/promote.go:64`: a KEP is loaded from the directory that the options
   name and written to that of its owning SIG, so a KEP that lies elsewhere keeps its
   old stage while a promoted copy appears.
7. `verify.go:253`: only marked people are looked up in OWNERS, so a listed tech lead
   without a mark may be missing from it, which the comment of `TestNodeApprovers`
   (`node_approvers_test.go:30`) rules out.  `OwnersReportIsExact` leaves open whether
   such a KEP passes.

## Proofs

TLAPS checks these for every value of the constants, so for any number of paths,
groups, pull requests, pages, processes, failures, kills, edits and tags.  Every
property that a passing run checks is proved, except the liveness properties.

The assumptions are the named `ASSUME`s of the modules, which TLC evaluates on
every run:

- bounds are numbers and documents are documents (`StoreBounds`, `NodeBounds`,
  `DocsAreDocuments`, `PRRFilesAreFiles`, `KepifyConstants` ...), and the markers
  for what is no document are none (`NoProposals`, `StoreContents` ...);
- a checkout is a tree: names come after their directory, a file that exists has a
  directory and a content (`TreeIsATree`, `CheckoutsAreTrees`, `TreesAreTrees`), and a
  repository of SIG Node has what the checks may find (`RepositoriesHaveFiles`);
- `Dirs` of `KepStore` has every directory that a command may write to
  (`StoreOptions`, `StoreOwners`);
- two are about the outside world: sigs.yaml has one entry for each group
  (`GroupsAreNamedOnce`), and a page of tags is long enough to show the newest
  release (`PageShowsRelease`).

### Repo.Validate

`RepoValidateProofs`:

- `TypeCorrect`.
- `SteadyJudged`: `[]SteadyKEPsAreJudged`.  The property speaks only of the end,
  so it is strengthened by `WalkInv` (a steady KEP is in `files` or something on
  the path to it is still pending) and `JudgedInv` (each steady KEP before
  `checked` has its error in the report).  The crucial case is `VisitMetadata`:
  `SkipDir` drops pending siblings, and a steady KEP below one of them would be
  sorted after a `kep.yaml` and therefore not be reachable.
- `PassApproved`: `[]PassMeansApproved`, from `SteadyJudged` and the lemma
  `ValidatePRRSound` on the chain of conditions of `ValidatePRR`.
- `PanicOnlyByVanishing`: `[]PanicOnlyIfVanished`; without edits what is pending
  exists.

`RepoGateProofs`:

- `ReportIsExact` and `GivesUpWhenBlocked`: `[]ExactReport` and
  `[]GivesUpExactlyWhenBlocked`.  `ExactInv` says that on a tree that nobody has
  changed the walk has seen, or has a pending path to, exactly what `Reached` has:
  nothing is lost, and nothing is reported that is not due.  That a visit stays
  within `Reached` is `VisitedReached`; `NeverFatal` says that no error of
  `validateFile` ends the loop.  `WalkDecides` says of the code as it is that only a
  blocked walk gives up (`Decided`); `GivesUpWhenBlocked` follows, which leaves out the
  trees on which code and comment disagree.
- `ValidateIsTheGate`: `ImplementsGate`, the refinement of `KepGate`.  A step of the
  walk or of the loop, and an edit, maps to a stutter or to the gate's change of
  tree; the step that returns maps to the verdict, for which `ExactInv`,
  `SteadyJudged` and `PanicOnlyByVanishing` give the three cases.

### kepctl query

`KepQueryProofs`: all eight invariants of the run.

- `TypeCorrect` and `AnswersHaveARepository` go together with `SetupInv`: past the
  construction the clone is complete and the groups are fetched.
- `LocalKEPsAreReturned`, `ErrorsHaveLocalCauses` and `LinksLead` rest on `LocalInv`:
  the local KEPs of the groups that are over, and of no other, are collected, and
  every KEP is a local one of a chosen group or one of a listed pull request.
  `LinksLead`: a link is dead only for a KEP outside its owner's directory or nested
  below it.
- `SearchesAreAllOrNothing` and `KEPsAreShownTwice` rest on `SearchInv` (a group
  that is over has all of its pull requests or none) and `ReadInv` (what is read
  so far for the current group, and that the branch checked out is that of the
  first pull request in the queue while its files are read).
- `ListingIsSound` rests on `ListInv`: an open pull request that is not yet listed
  is at or behind the place where the next page begins, unless one was closed, and
  none that is listed is there, unless one was opened.

`Keep` is `SelectSeq` for a set, written as a recursive function, because the proofs
need what it keeps (`KeepElems`, `KeepOnce`).  These are inductions over the length
of a list: the lemma `Induction` states induction for a set of numbers, proved from
the least element of its complement (`LeastNumber`, from `WFMin` of
`WellFoundedInduction`), so that no operator has to be instantiated.

### Local loader and kepify

`TreeReadersProofs`, with `TreeInv`: a name in the walk is there or was removed.

- `LoadsInOneStep`: `[]LoadIsOneStep`.  `OneStepInv` says that without edits the walk
  is only on its way to what the loader shows, and has it all found or ahead.
  This is what lets `KepQuery` load the KEPs of a group in one step.
- `KEPsAreReal` and `FailsForACause`, from `LoaderInv`: a KEP that was left alone is
  kept, found, or has something of its path pending, and whatever is kept was seen.
- `OutputHasEveryKEP` and `OutputIsEmptyForAFault`, from `KepifyInv`, the same for
  kepify together with what its output is at each label.
- `LimitIsExact`: `[]ConvertsUpToTheLimit`.  `LimitInv` says that without edits each
  file is found once and takes one descriptor, so that `opened` counts them.

The empty output is the empty set of Proposals (`Truncated` in `Kepify`): no other
output is empty, because kepify exits when it finds no file.

### Create and Promote

`KepStoreProofs`:

- `TypeCorrect`: among others, a command that writes has a proposal.
- `ReadmeNeverAlone`: `[]ReadmeHasMetadata`.  `CommandInv` says that a `create`
  on its way to the README.md has its `kep.yaml` in the same directory.
- `TornOnlyByDamage`: `[]OnlyDamageLeavesTornFiles`.  Without damage at most one
  command is active, and only its own file may be truncated.
- `CreatedKEPsPass`, `PromotedKEPsStayValid`: the action properties.  They say what is
  there after the last step of a command and so
  need what earlier steps left: `HomeInv` (the directory of every KEP on disk or
  in memory is one of `Dirs`, and a `create` has a proposal that `Validate`
  accepted) and `AloneInv` (two commands that are active at the same time are both
  marked; one that is not marked finds its file empty before it writes and as written
  afterwards).
  `Starts`, `Steps` and `CompletesBy` reduce the actions to what they do to
  `kep.yaml`; `RoundTrip` says that what parses is written so that it parses.

### SIG Node checks

`NodeApproversProofs`:

- `TypeCorrect`, with `RestInv`: between walks nothing is left over.
- `OwnersReport`: `[]OwnersReportIsExact`.  `ReportInv` says that the violations are
  those of the KEPs visited; `AgreesExactly` that `verifyKEP` has none exactly when
  the marks of the KEP agree with its OWNERS.
- `AlphaIsForTechLeads`: `[]OnlyTechLeadsApproveAlpha`.  `CleanInv` carries what
  the walk has seen into `passed`: what was visited without a violation is clean,
  and remains so because a merge empties `passed` and no other step changes a
  verdict.
- `UpcomingUnreleased`: `UpcomingIsUnreleased`.  The lemmas `PageIsNewest`,
  `HighestMinor` and `ReleasedMinor` say what the first page of tags shows; the
  last counts the patches above a release, and is where the length of the page
  is needed.
- `PassSurvives`: `[]PassSurvivesReleases`.  `VersionInv` says that the versions
  given to the tests of a tree only grow, `BlameInv` that a failed test has met a
  KEP with violations; the lemma `RulesRelax` says that what a rule accepts at
  one version it accepts at a later one, so the two contradict each other.

### Only model-checked

Liveness (`Terminates`, `QueryReturns`, `CommandsEnd`, `TestsEnd`, `ReadersEnd`): what
happens eventually under fairness is out of the prover's reach.  The seven properties
that are violated have no proof, of course.

## Not modelled

The dispatch, help texts and log level of kepctl and the flags of query (its options
are the constant `Requests`); `NewOptions`, which no command calls; scripts, mocks
and generated fakes; the KEPs themselves.  `LoadLocalKEP` looks a path up from the
working directory and reads it below the root: `cwd` in the options of `Promote`
says whether the two are the same, and a command that fails for it breaks no
property.  The comments that `Promote` drops from a `kep.yaml`: no line of the
repository says that it keeps them, and for the SIG Node checks, which read them, it is
one more change of a document (`Merge`).  `parseMilestoneMinor` takes the second number
of a milestone and `isPRRRequired` compares versions; the milestones in `keps/` are
`1.N`, for which both read `N`, or `0.0`, of which neither check demands anything, so
the two readings are not composed.  Order and
repetition in lists, dates, and fields that no check reads are abstracted away.

## Plan

Done: documents and the PRR gate; validation of the repository and its abstract
specification; queries from construction to output; the local loader and kepify on a
changing tree; create and promote and their command lines; the SIG Node checks;
the proofs of all safety properties.  Next:

1. What the violated properties would need, as theorems with a hypothesis: that
   `CachedListIsComplete` holds as long as no page fails and no pull request opens,
   and `FallbackIsStrict` whenever GitHub answers.
2. An abstract specification of `KepStore` (a store in which a command that is alone
   is one step), with the invariants of its action properties as the refinement.
3. Shared lemmas of `RepoGateProofs` and `TreeReadersProofs` on walks moved to
   `FileTreeProofs`.
