------------------------------ MODULE KepQuery ------------------------------
(***************************************************************************)
(* `kepctl query` (pkg/kepctl/commands/query.go) from end to end: NewRepo  *)
(* (pkg/repo/repo.go) and its GroupFetcher (api/groups.go), Repo.Query     *)
(* (pkg/repo/query.go) with LoadLocalKEPs, LoadPullRequestKEPs and         *)
(* loadKEPFromYaml, and the output (pkg/output/output.go).  For each SIG   *)
(* Query loads the KEPs of the local clone and, on request, those of the   *)
(* open pull requests; the Repo caches the list of pull requests and one   *)
(* temporary clone, in which one pull request at a time is checked out.    *)
(* A program that uses the Repo may call Query more than once.             *)
(*                                                                         *)
(* GitHub and git are external: any call to them may fail, and pull        *)
(* requests open and close while the list is read page by page.            *)
(*                                                                         *)
(* A loaded Proposal is [sig, dir, name, pr, doc]: the kep.yaml at         *)
(* keps/<sig>/<dir>/<name>, where dir is the sequence of the directories   *)
(* between the group and the KEP, PRNumber (0 without one) and its         *)
(* content; most KEPs are in their group's directory itself, with an empty *)
(* dir, and keps/sig-cluster-lifecycle/kubeadm has others.  Lists of       *)
(* Proposals are sets, without order.  loadKEPFromYaml only logs what      *)
(* ValidatePRR finds, and Token only authenticates calls of GitHub.  Of a  *)
(* printed row its Title and its Link are modelled, the other columns are  *)
(* fields of the document.                                                 *)
(***************************************************************************)
EXTENDS KepMetadata, Integers, Sequences

CONSTANTS
    Layouts,        \* what may be at the paths that NewRepo needs: see statPaths
    GroupLists,     \* the sorted groups that the community's sigs.yaml may name
    AliasLists,     \* the [approvers, emeritus] that OWNERS_ALIASES may have for PRR
    Matches(_, _),  \* Matches(re, group): what regexp.MatchString finds
    BadRegexps,     \* patterns that do not compile
    TokenPath,      \* TRUE if a token file is configured
    Local,          \* Local[sig]: <<dir, name>> -> content of kep.yaml; Unreadable
    PullRequests,   \* sequence, by number, of [labels, pages, tree]: see below
    PerPage,        \* pull requests per page of PullRequests.List
    Requests,       \* the QueryOpts that callers pass
    MaxQueries,     \* bound: calls of Query on one Repo
    MaxFailures,    \* bound: calls to GitHub, git or the file system that fail
    MaxChanges      \* bound: pull requests that open or close
\* Of a pull request: its labels, the KEPs <<sig, dir, name>> that the files on
\* each page of ListFiles belong to, and what kep.yaml each has on its branch.

Numbers == DOMAIN PullRequests

ASSUME QueryConstants ==
    /\ PerPage \in Nat \ {0}
    /\ Len(PullRequests) \in Nat /\ Numbers = 1 .. Len(PullRequests) /\ Nil \notin Seq(Numbers)
    /\ {MaxQueries, MaxFailures, MaxChanges} \subseteq Nat
    /\ GroupLists \subseteq Seq(Groups)
    /\ Layouts \subseteq [1 .. 4 -> {"present", "absent", "other kind"}]

\* sigs.yaml has one entry for each group.
ASSUME GroupsAreNamedOnce ==
    \A list \in GroupLists : \A i, j \in DOMAIN list : list[i] = list[j] => i = j

VARIABLES
    layout,     \* what is at keps/, prod-readiness/, README.md and the template
    groups,     \* r.KEPHandler.Groups, Nil before they are fetched
    open,       \* GitHub's open pull requests, newest first
    allPRs,     \* r.allPRs: the cached list, Nil before it is fetched
    gitRepo,    \* r.gitRepo: the pull request checked out (0: none), Nil: no clone
    opts,       \* the options of the current or the last call
    pc,         \* where Query is
    sigs,       \* opts.Groups: the groups still to be loaded
    allKEPs,    \* the Proposals collected
    page,       \* opt.Page of the next PullRequests.List
    kepPRs,     \* the pull requests of the current group still to be read
    kepNames,   \* the KEPs of the current pull request still to be read
    prKEPs,     \* what LoadPullRequestKEPs has collected for the current group
    warned,     \* groups whose pull request search was logged as failed
    results,    \* what Query returned
    printed,    \* the rows printed, Nil before
    held,       \* history: the pull requests open since the list was begun
    grew, shrank, \* history: one was opened, or closed or missed, during the listing
    queries, failures, changes

client == <<layout, groups>>
history == <<held, grew, shrank>>
github == <<open, changes>>
search == <<page, kepPRs, kepNames, prKEPs>>
vars == <<layout, groups, open, allPRs, gitRepo, opts, pc, sigs, allKEPs, page, kepPRs,
          kepNames, prKEPs, warned, results, printed, held, grew, shrank,
          queries, failures, changes>>

Elems(seq) == {seq[i] : i \in DOMAIN seq}

\* What a loop over seq appends if it takes the elements of S (SelectSeq, in a form
\* that can be reasoned about).
Keep(seq, S) ==
    LET kept[n \in 0 .. Len(seq)] ==
            IF n = 0 THEN << >>
            ELSE IF seq[n] \in S THEN Append(kept[n - 1], seq[n]) ELSE kept[n - 1]
    IN  kept[Len(seq)]

Init ==
    /\ open \in {s \in UNION {[1 .. n -> Numbers] : n \in 0 .. Len(PullRequests)} :
                   \A i, j \in DOMAIN s : i < j => s[i] > s[j]}
    /\ layout \in Layouts /\ groups = Nil
    /\ allPRs = Nil /\ gitRepo = Nil
    /\ opts \in Requests
    /\ pc = "new"
    /\ sigs = << >> /\ allKEPs = {}
    /\ page = 0 /\ kepPRs = << >> /\ kepNames = {} /\ prKEPs = {}
    /\ warned = {} /\ results = {} /\ printed = Nil
    /\ held = {} /\ grew = FALSE /\ shrank = FALSE
    /\ queries = 0 /\ failures = 0 /\ changes = 0

Fail == failures < MaxFailures /\ failures' = failures + 1

----------------------------------------------------------------------------
(* NewRepo *)

query == <<allPRs, gitRepo, opts, sigs, allKEPs, search, warned, results, printed, history, queries>>

\* The paths are looked up in order: keps/ and keps/prod-readiness must be
\* directories, keps/README.md a regular file.
Needed == 1 .. 3

\* Mutant of statPaths: it does not matter of what kind a path is.
statPathsAnyKind(l) == IF \E i \in Needed : l[i] = "absent" THEN "error" ELSE "found"

\* A path of another kind returns errors.Wrap(err, ...) of an err that is nil:
\* neither a Repo nor an error.
statPaths(l) ==
    IF \E i \in Needed : l[i] = "absent" /\ \A j \in 1 .. i - 1 : l[j] = "present" THEN "error"
    ELSE IF \E i \in Needed : l[i] = "other kind" THEN "nil"
    ELSE "found"

\* runQuery uses the Repo that it was given without an error.
NewRepo ==
    /\ pc = "new"
    /\ pc' = CASE statPaths(layout) = "error" -> "no client"
               [] statPaths(layout) = "nil" -> "panicked"
               [] OTHER -> "groups"
    /\ UNCHANGED <<client, github, query, failures>>

\* A list without groups is not an error.
FetchGroups ==
    /\ pc = "groups"
    /\ \/ /\ Fail
          /\ pc' = "no client" /\ UNCHANGED groups
       \/ /\ \E list \in GroupLists : groups' = list
          /\ pc' = "approvers" /\ UNCHANGED failures
    /\ UNCHANGED <<layout, github, query>>

\* An answer without approvers is.
FetchPRRApprovers ==
    /\ pc = "approvers"
    /\ \/ /\ Fail
          /\ pc' = "no client"
       \/ /\ \E list \in AliasLists :
               pc' = IF list.approvers \cup list.emeritus = {} THEN "no client" ELSE "template"
          /\ UNCHANGED failures
    /\ UNCHANGED <<client, github, query>>

getProposalTemplate ==
    /\ pc = "template"
    /\ pc' = IF layout[4] = "present" THEN "ready" ELSE "no client"
    /\ UNCHANGED <<client, github, query, failures>>

----------------------------------------------------------------------------
(* PrepareQueryOpts *)

\* output.ValidFormats; NewOutput knows the same ones.
ColumnFormats == {"csv", "table"}
Formats == ColumnFormats \cup {"json", "yaml"}

\* selectByRegexp stops at the first pattern that matches a group, so a pattern
\* that does not compile is an error only if it is reached.
selectError(vals, regexps) ==
    \E v \in Elems(vals), i \in DOMAIN regexps :
        /\ regexps[i] \in BadRegexps
        /\ \A j \in 1 .. i - 1 : ~Matches(regexps[j], v)

selectByRegexp(vals, regexps) ==
    Keep(vals, {v \in Elems(vals) : \E re \in Elems(regexps) : Matches(re, v)})

PrepareError(o) ==
    \/ o.output \notin Formats
    \/ /\ o.groups # << >>
       /\ \/ selectError(groups, o.groups)
          \/ selectByRegexp(groups, o.groups) = << >>

\* Mutant of SelectedGroups: the patterns are taken for the groups.
SelectedGroupsRaw(o) == IF o.groups = << >> THEN groups ELSE o.groups

SelectedGroups(o) ==
    IF o.groups = << >> THEN groups ELSE selectByRegexp(groups, o.groups)

\* "none" asks for the KEPs without a stage.
SelectedStages(o) == {IF v = "none" THEN "" ELSE v : v \in o.stage}

\* Query is called: the options are checked and the token is read.
Query ==
    /\ pc \in {"ready", "returned", "error"} /\ queries < MaxQueries
    /\ queries' = queries + 1
    /\ \E o \in Requests :
         /\ opts' = o
         /\ \/ /\ PrepareError(o)
               /\ pc' = "error" /\ sigs' = << >>
               /\ UNCHANGED failures
            \/ /\ ~PrepareError(o) /\ TokenPath /\ Fail
               /\ pc' = "error" /\ sigs' = << >>
            \/ /\ ~PrepareError(o)
               /\ pc' = "local" /\ sigs' = SelectedGroups(o)
               /\ UNCHANGED failures
    /\ allKEPs' = {} /\ warned' = {} /\ results' = {}
    /\ UNCHANGED <<client, github, allPRs, gitRepo, search, printed, history>>

----------------------------------------------------------------------------
(* LoadLocalKEPs *)

\* loadKEPFromYaml: the file is read and unmarshalled, and not validated.
loadError(doc) == doc \in {NotExist, Unreadable, Malformed}

\* One kep.yaml that does not load, or a directory that cannot be walked, fails
\* the group, and the query with it.  A group without a directory has no KEPs.
LocalError(sig) ==
    \/ Local[sig] = Unreadable
    \/ Local[sig] # NotExist /\ \E t \in DOMAIN Local[sig] : loadError(Local[sig][t])

\* What the walk finds, however deep (LocalLoader has its steps); Name is the base
\* of the directory.
LocalKEPs(sig) ==
    IF Local[sig] = NotExist
    THEN {}
    ELSE {[sig |-> sig, dir |-> t[1], name |-> t[2], pr |-> 0, doc |-> Local[sig][t]] : t \in DOMAIN Local[sig]}

LoadLocalKEPs ==
    /\ pc = "local" /\ sigs # << >>
    /\ IF LocalError(Head(sigs))
       THEN /\ pc' = "error"
            /\ UNCHANGED <<sigs, allKEPs>>
       ELSE /\ allKEPs' = allKEPs \cup LocalKEPs(Head(sigs))
            /\ IF opts.includePRs
               THEN pc' = "search" /\ UNCHANGED sigs
               ELSE pc' = "local" /\ sigs' = Tail(sigs)
    /\ UNCHANGED <<client, github, printed, history, allPRs, gitRepo, opts, search, warned, results, queries, failures>>

----------------------------------------------------------------------------
(* LoadPullRequestKEPs *)

\* Mutant of Abort: what was collected is dropped.
AbortDropsAll ==
    /\ pc' = "local" /\ sigs' = Tail(sigs)
    /\ warned' = warned \cup {Head(sigs)}
    /\ kepPRs' = << >> /\ kepNames' = {} /\ prKEPs' = {}
    /\ allKEPs' = {}

\* Mutant of Abort: the error is returned to the caller.
AbortFails ==
    /\ pc' = "error" /\ sigs' = Tail(sigs)
    /\ warned' = warned \cup {Head(sigs)}
    /\ kepPRs' = << >> /\ kepNames' = {} /\ prKEPs' = {}
    /\ UNCHANGED allKEPs

\* It returns nil and an error: Query logs a warning and goes on without the
\* pull requests of this group.
Abort ==
    /\ pc' = "local" /\ sigs' = Tail(sigs)
    /\ warned' = warned \cup {Head(sigs)}
    /\ kepPRs' = << >> /\ kepNames' = {} /\ prKEPs' = {}
    /\ UNCHANGED allKEPs

\* Mutant of Finish: the same group is searched again.
FinishAgain(keps) ==
    /\ pc' = "search" /\ UNCHANGED sigs
    /\ allKEPs' = allKEPs \cup keps
    /\ kepPRs' = << >> /\ kepNames' = {} /\ prKEPs' = {}
    /\ UNCHANGED warned

\* It returns KEPs, which Query adds to the others.
Finish(keps) ==
    /\ pc' = "local" /\ sigs' = Tail(sigs)
    /\ allKEPs' = allKEPs \cup keps
    /\ kepPRs' = << >> /\ kepNames' = {} /\ prKEPs' = {}
    /\ UNCHANGED warned

\* github.NewClient; the list of pull requests is fetched if there is none.
BeginSearch ==
    /\ pc = "search"
    /\ \/ Fail /\ Abort /\ UNCHANGED <<allPRs, page, history>>
       \/ /\ IF allPRs = Nil
             THEN /\ allPRs' = << >> /\ page' = 1 /\ pc' = "list"
                  /\ held' = Elems(open) /\ UNCHANGED <<grew, shrank>>
             ELSE pc' = "select" /\ UNCHANGED <<allPRs, page, history>>
          /\ UNCHANGED <<failures, sigs, allKEPs, warned, kepPRs, kepNames, prKEPs>>
    /\ UNCHANGED <<client, github, printed, gitRepo, opts, results, queries>>

PageOf(n) ==
    LET from == (n - 1) * PerPage
        size == IF Len(open) - from < PerPage THEN Len(open) - from ELSE PerPage
    IN  [i \in 1 .. size |-> open[from + i]]

NextPage(n) == IF n * PerPage < Len(open) THEN n + 1 ELSE 0

\* Mutant of ListPage: the first page is taken for all of them.
ListFirstPage ==
    /\ pc = "list"
    /\ allPRs' = allPRs \o PageOf(page)
    /\ page' = 0 /\ pc' = "select"
    /\ UNCHANGED <<failures, sigs, allKEPs, warned, kepPRs, kepNames, prKEPs, history>>
    /\ UNCHANGED <<client, github, printed, gitRepo, opts, results, queries>>

\* One page, appended to the cache as it arrives.
ListPage ==
    /\ pc = "list"
    /\ \/ /\ Fail /\ Abort
          /\ shrank' = TRUE
          /\ UNCHANGED <<allPRs, page, held, grew>>
       \/ /\ allPRs' = allPRs \o PageOf(page)
          /\ page' = NextPage(page)
          /\ pc' = IF page' = 0 THEN "select" ELSE "list"
          /\ UNCHANGED <<failures, sigs, allKEPs, warned, kepPRs, kepNames, prKEPs, history>>
    /\ UNCHANGED <<client, github, printed, gitRepo, opts, results, queries>>

\* strings.Replace(sig, "-", "/", 1): the label of sig-node is sig/node.
sigLabel(sig) == <<"/", sig>>

proposalLabel == sigLabel("kind-kep")

Labelled(n, sig) == {proposalLabel, sigLabel(sig)} \subseteq PullRequests[n].labels

\* Find KEP PRs for the given sig; without any, nothing is cloned.
SelectPRs ==
    /\ pc = "select"
    /\ LET found == Keep(allPRs, {n \in Elems(allPRs) : Labelled(n, Head(sigs))})
       IN  IF found = << >>
           THEN Finish({})
           ELSE /\ kepPRs' = found
                /\ pc' = IF gitRepo = Nil THEN "clone" ELSE "files"
                /\ UNCHANGED <<sigs, allKEPs, warned, kepNames, prKEPs>>
    /\ UNCHANGED <<client, github, printed, history, allPRs, gitRepo, opts, page, results, queries, failures>>

Clone ==
    /\ pc = "clone"
    /\ \/ Fail /\ Abort /\ UNCHANGED gitRepo
       \/ /\ gitRepo' = 0 /\ pc' = "files"
          /\ UNCHANGED <<failures, sigs, allKEPs, warned, kepPRs, kepNames, prKEPs>>
    /\ UNCHANGED <<client, github, printed, history, allPRs, opts, page, results, queries>>

\* kk[2]: the first name below the group in the path of a file of a KEP.
below(t) == IF t[2] = << >> THEN t[3] ELSE Head(t[2])

\* The KEPs of the group that the first page of a pull request's files names; for
\* one that is nested it is the directory it is nested in.
KepNames(n, sig) ==
    IF PullRequests[n].pages = << >>
    THEN {}
    ELSE {below(t) : t \in {k \in PullRequests[n].pages[1] : k[1] = sig}}

\* The next pull request, or the end of them.
ListFiles ==
    /\ pc = "files"
    /\ \/ kepPRs = << >> /\ Finish(prKEPs) /\ UNCHANGED failures
       \/ kepPRs # << >> /\ Fail /\ Abort
       \/ /\ kepPRs # << >>
          /\ kepNames' = KepNames(Head(kepPRs), Head(sigs))
          /\ IF kepNames' = {}
             THEN kepPRs' = Tail(kepPRs) /\ pc' = "files"
             ELSE pc' = "checkout" /\ UNCHANGED kepPRs
          /\ UNCHANGED <<failures, sigs, allKEPs, warned, prKEPs>>
    /\ UNCHANGED <<client, github, printed, history, allPRs, gitRepo, opts, page, results, queries>>

\* Mutant of CheckoutPullRequest: a clone with a pull request in it is used as it is.
CheckoutOnce ==
    /\ pc = "checkout"
    /\ gitRepo' = IF gitRepo = 0 THEN Head(kepPRs) ELSE gitRepo
    /\ pc' = "read"
    /\ UNCHANGED <<failures, sigs, allKEPs, warned, kepPRs, kepNames, prKEPs>>
    /\ UNCHANGED <<client, github, printed, history, allPRs, opts, page, results, queries>>

CheckoutPullRequest ==
    /\ pc = "checkout"
    /\ \/ Fail /\ Abort /\ UNCHANGED gitRepo
       \/ /\ gitRepo' = Head(kepPRs) /\ pc' = "read"
          /\ UNCHANGED <<failures, sigs, allKEPs, warned, kepPRs, kepNames, prKEPs>>
    /\ UNCHANGED <<client, github, printed, history, allPRs, opts, page, results, queries>>

\* What the clone has at keps/<sig>/<name>/kep.yaml.
InClone(sig, name) == PullRequests[gitRepo].tree[<<sig, << >>, name>>]

\* One turn of the loop over kepNames, in the order of a Go map: a KEP that does
\* not load is logged and left out.
ReadKEP ==
    /\ pc = "read"
    /\ \E name \in kepNames :
         LET doc == InClone(Head(sigs), name)
         IN  /\ prKEPs' = IF loadError(doc) THEN prKEPs
                          ELSE prKEPs \cup {[sig |-> Head(sigs), dir |-> << >>, name |-> name,
                                             pr |-> Head(kepPRs), doc |-> doc]}
             /\ kepNames' = kepNames \ {name}
    /\ IF kepNames' = {}
       THEN kepPRs' = Tail(kepPRs) /\ pc' = "files"
       ELSE UNCHANGED <<kepPRs, pc>>
    /\ UNCHANGED <<client, github, printed, history, allPRs, gitRepo, opts, sigs, allKEPs, page, warned,
                   results, queries, failures>>

----------------------------------------------------------------------------
(* Filter the KEPs by criteria. *)

\* An absent criterion allows everything; a list must contain one of the names.
Allows(criterion, vals) == criterion = {} \/ vals \cap criterion # {}

Listed(slice) == IF slice = Nil THEN {} ELSE slice

\* The PRR approvers of a KEP are not loaded: atLeastOne is given an empty list.
Allowed(o, doc) ==
    /\ Allows(o.status, {doc.status})
    /\ Allows(SelectedStages(o), {doc.stage})
    /\ Allows(o.prrApprover, {})
    /\ Allows(o.author, Listed(doc.authors))
    /\ Allows(o.approver, Listed(doc.approvers))
    /\ Allows(o.participant, Listed(doc.participatingSIGs))

Return ==
    /\ pc = "local" /\ sigs = << >>
    /\ results' = {k \in allKEPs : Allowed(opts, k.doc)}
    /\ pc' = "returned"
    /\ UNCHANGED <<client, github, printed, history, allPRs, gitRepo, opts, sigs, allKEPs, search, warned, queries, failures>>

----------------------------------------------------------------------------
(* The output: NewOutput and PrintProposals *)

Title(k) == IF k.pr = 0 THEN <<k.doc.title>> ELSE <<"PR#", k.pr, k.doc.title>>

\* Mutant of Link: every row links to a directory.
LinkDirectory(k) == <<"keps", k.doc.owningSIG, << >>, k.name>>

\* The link of a local KEP is put together from its owning-sig and its Name, with
\* no directory between the two.
Link(k) == IF k.pr = 0 THEN <<"keps", k.doc.owningSIG, << >>, k.name>> ELSE <<"pull", k.pr>>

Row(k) == IF opts.output \in ColumnFormats THEN [title |-> Title(k), link |-> Link(k)] ELSE k

\* Mutant of PrintProposals: a KEP that is printed is not printed again.
PrintOnce ==
    /\ pc = "returned" /\ queries > 0
    /\ printed' = {Row(k) : k \in {r \in results : r.pr = 0 \/ \A l \in results : l.name = r.name => l.pr # 0}}
    /\ pc' = "printed"
    /\ UNCHANGED <<client, github, allPRs, gitRepo, opts, sigs, allKEPs, search, warned, results,
                   history, queries, failures>>

\* The command prints the answer and ends.  An error of the output is written to
\* stderr and nothing more: some rows are lost.
PrintProposals ==
    /\ pc = "returned" /\ queries > 0
    /\ LET rows == {Row(k) : k \in results}
       IN  \/ printed' = rows /\ pc' = "printed" /\ UNCHANGED failures
           \/ Fail /\ printed' \in SUBSET rows /\ pc' = "truncated"
    /\ UNCHANGED <<client, github, allPRs, gitRepo, opts, sigs, allKEPs, search, warned, results,
                   history, queries>>

----------------------------------------------------------------------------
(* GitHub, while a query runs or between two of them. *)

OpenPR ==
    /\ changes < MaxChanges
    /\ \E n \in Numbers : /\ \A i \in DOMAIN open : n > open[i]
                          /\ open' = <<n>> \o open
    /\ changes' = changes + 1
    /\ grew' = (grew \/ pc = "list")
    /\ UNCHANGED <<client, allPRs, gitRepo, opts, pc, sigs, allKEPs, search, warned, results,
                   printed, held, shrank, queries, failures>>

ClosePR ==
    /\ changes < MaxChanges
    /\ \E n \in Elems(open) : /\ open' = Keep(open, Elems(open) \ {n})
                              /\ held' = IF pc = "list" THEN held \ {n} ELSE held
    /\ changes' = changes + 1
    /\ shrank' = (shrank \/ pc = "list")
    /\ UNCHANGED <<client, allPRs, gitRepo, opts, pc, sigs, allKEPs, search, warned, results,
                   printed, grew, queries, failures>>

----------------------------------------------------------------------------
Step == \/ NewRepo \/ FetchGroups \/ FetchPRRApprovers \/ getProposalTemplate
        \/ LoadLocalKEPs
        \/ BeginSearch \/ ListPage \/ SelectPRs \/ Clone \/ ListFiles
        \/ CheckoutPullRequest \/ ReadKEP
        \/ Return

Next == Query \/ PrintProposals \/ Step \/ OpenPR \/ ClosePR

\* Once called, Query runs: its calls to GitHub and git return or fail.
Spec == Init /\ [][Next]_vars /\ WF_vars(Step)

----------------------------------------------------------------------------
(* Properties *)

\* The variables have their types.
TypeOK ==
    /\ layout \in Layouts
    /\ groups \in {Nil} \cup GroupLists
    /\ open \in Seq(Numbers)
    /\ allPRs = Nil \/ allPRs \in Seq(Numbers)
    /\ gitRepo \in {Nil, 0} \cup Numbers
    /\ opts \in Requests
    /\ pc \in {"new", "groups", "approvers", "template", "ready", "no client", "panicked",
              "returned", "error", "local", "search", "list", "select", "clone",
              "files", "checkout", "read", "printed", "truncated"}
    /\ sigs \in Seq(Groups)
    /\ page \in Nat
    /\ kepPRs \in Seq(Numbers)
    /\ warned \in SUBSET Groups
    /\ results \subseteq allKEPs
    /\ printed = Nil \/ printed \subseteq {Row(k) : k \in results}
    /\ held \in SUBSET Numbers /\ {grew, shrank} \subseteq BOOLEAN
    /\ <<queries, failures, changes>> \in (0 .. MaxQueries) \X (0 .. MaxFailures) \X (0 .. MaxChanges)

Answered == pc \in {"returned", "printed"}

Chosen == {g \in Elems(groups) : opts.groups = << >> \/ \E re \in Elems(opts.groups) : Matches(re, g)}

\* Query returns exactly the local KEPs that meet the criteria of the groups asked
\* for among those that were fetched, whatever fails while pull requests are
\* searched.
LocalKEPsSurviveFailures ==
    Answered => {k \in results : k.pr = 0} =
                  {k \in UNION {LocalKEPs(g) : g \in Chosen} : Allowed(opts, k.doc)}

\* A failure of GitHub or git never makes Query itself fail: it returns an error
\* only for its options, for its token before it has loaded a group, or for a local
\* KEP of a group that was asked for.
ErrorsAreLocal ==
    pc = "error" => \/ PrepareError(opts)
                    \/ TokenPath /\ failures > 0 /\ allKEPs = {} /\ warned = {}
                    \/ \E g \in Chosen : LocalError(g)

\* The KEPs that the listed pull requests have for a group, each with the content
\* on its own branch.
PullRequestKEPs(g, pulls) ==
    UNION {{[sig |-> g, dir |-> << >>, name |-> name, pr |-> n, doc |-> PullRequests[n].tree[<<g, << >>, name>>]] :
                name \in {m \in KepNames(n, g) : ~loadError(PullRequests[n].tree[<<g, << >>, m>>])}} :
             n \in {m \in pulls : Labelled(m, g)}}

\* A search of pull requests is all or nothing: a group that was warned about has
\* none of them in the answer, another has every KEP of every pull request in the
\* cached list, read from the branch of the pull request it is attributed to.
SearchIsAllOrNothing ==
    Answered /\ opts.includePRs =>
        \A g \in Chosen :
            {k \in allKEPs : k.sig = g /\ k.pr # 0} =
                IF g \in warned THEN {} ELSE PullRequestKEPs(g, Elems(allPRs))

\* Nothing is printed but by a Repo on a clone of the repository that is complete
\* at every path that NewRepo looks at.
AnswersNeedARepository == printed # Nil => layout = [i \in 1 .. 4 |-> "present"]

\* "existing KEPs with open PRs will be shown twice" (pkg/repo/query.go:113): the output
\* tells the KEP of the clone from each version of it on the branch of a pull
\* request in the list, unless the search or the output failed.
ShownTwice ==
    pc = "printed" /\ opts.includePRs =>
        \A g \in Chosen \ warned :
            \A k \in LocalKEPs(g), p \in PullRequestKEPs(g, Elems(allPRs)) :
                p.dir = k.dir /\ p.name = k.name /\ Allowed(opts, k.doc) /\ Allowed(opts, p.doc) =>
                    {Row(k), Row(p)} \subseteq printed /\ Row(k) # Row(p)

\* Where the links of a row may lead: a pull request of the list, or the directory
\* of a local KEP.
Targets ==
    {<<"pull", n>> : n \in IF allPRs = Nil THEN {} ELSE Elems(allPRs)}
      \cup {<<"keps", k.sig, k.dir, k.name>> : k \in UNION {LocalKEPs(g) : g \in Chosen}}

\* A printed link is dead only for a KEP that lies in the directory of another
\* group than its owning-sig, or deeper than in the directory of its group.
LinksLeadSomewhere ==
    printed # Nil /\ opts.output \in ColumnFormats =>
        \A k \in results : Link(k) \in Targets \/ (k.pr = 0 /\ <<k.doc.owningSIG, k.dir>> # <<k.sig, << >>>>)

\* The list of pull requests is read page by page while it changes: one that was
\* open all the while is missing only if a page failed or another was closed
\* meanwhile, and one is listed twice only if another was opened.
ListingSurvivesChanges ==
    allPRs # Nil /\ pc # "list" =>
        /\ held \subseteq Elems(allPRs) \/ shrank
        /\ (\A i, j \in DOMAIN allPRs : allPRs[i] = allPRs[j] => i = j) \/ grew

\* Once it is there, the cache holds "all open pull requests for
\* remoteOrg/remoteRepo" (repo.go:74).
CachedListIsComplete ==
    pc # "list" /\ allPRs # Nil => Elems(open) \subseteq Elems(allPRs)

\* Query has "a Proposal for each KEP that is touched by a PR" (repo.go:395) of a
\* group that it did not warn about, at least if it is not nested.
TouchedKEPsAreRead ==
    Answered /\ opts.includePRs =>
        \A g \in Chosen \ warned, n \in Elems(open) :
            Labelled(n, g) =>
                \A t \in UNION Elems(PullRequests[n].pages) :
                    t[1] = g /\ t[2] = << >> /\ ~loadError(PullRequests[n].tree[t]) =>
                        [sig |-> g, dir |-> << >>, name |-> t[3], pr |-> n, doc |-> PullRequests[n].tree[t]] \in allKEPs

\* Every call of Query returns, and so does NewRepo.
QueryReturns ==
    /\ (pc = "local") ~> (pc \in {"returned", "error"})
    /\ (pc = "new") ~> (pc \in {"ready", "no client", "panicked"})
=============================================================================
