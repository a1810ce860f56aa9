---------------------------- MODULE RepoValidate ----------------------------
(***************************************************************************)
(* Repo.Validate (pkg/repo/validate.go): the check of every KEP in the     *)
(* repository that test/metadata_test.go runs on each change.  It walks    *)
(* keps/ with filepath.Walk, collects the kep.yaml files, and then opens,  *)
(* parses and validates each of them.  The directory it reads belongs to a *)
(* working tree that its user may change at any moment.                    *)
(*                                                                         *)
(* r.ProposalPath is populated by NewRepo, so the check of line 38 passes. *)
(***************************************************************************)
EXTENDS KepMetadata, FileTree

CONSTANTS
    Docs,       \* the contents a kep.yaml may have
    PRRFiles,   \* what os.Open may find at the path of a PRR approval
    PRRKeys,    \* the <<owning-sig, number>> that name an approval file
    Checkouts,  \* kinds of trees to start on: [disks, denied, docs, approvals] to choose from,
                \* and the drafts of who works on such a tree
    MaxEdits    \* bound: changes to the working tree during one Validate

ASSUME DocsAreDocuments == Docs \subseteq Proposals \cup {Malformed} /\ NotExist \notin Docs

ASSUME PRRFilesAreFiles == PRRFiles \subseteq Approvals \cup {Malformed, NotExist, Unreadable}

ASSUME ApprovalKeys ==
    \A doc \in Docs \ {Malformed} : <<doc.owningSIG, doc.number>> \in PRRKeys

ASSUME CheckoutsAreTrees ==
    \A k \in Checkouts :
        /\ \A S \in k.disks : S \in SUBSET Paths /\ Root \in S /\ Closed(S)
        /\ k.denied \subseteq SUBSET {i \in Paths : isDir[i] \/ i \in Metadata}
        /\ k.docs \subseteq Docs /\ k.drafts \subseteq Docs /\ k.approvals \subseteq PRRFiles

ASSUME MaxEditsIsNat == MaxEdits \in Nat

VARIABLES
    disk,       \* the paths that exist
    unreadable, \* the paths that open(2) or readdir(3) refuses
    content,    \* the content of every kep.yaml, NotExist without one
    prr,        \* what os.Open finds for every approval file
    drafts,     \* the contents its user may write, none if nobody works on the tree
    edits,      \* changes to the tree since Validate started
    pc,         \* where Validate is
    pending,    \* the names filepath.Walk has listed and not yet visited
    files,      \* the metadata files found
    checked,    \* how many of them have been validated
    valErrMap,  \* the errors returned: <<directory of the KEP, error>>
    parserErrs, \* what the handlers append to their Errors
    steady      \* history: the KEPs that no edit has touched, hidden or moved

tree == <<disk, unreadable, content, prr, drafts, edits>>
vars == <<disk, unreadable, content, prr, drafts, edits,
          pc, pending, files, checked, valErrMap, parserErrs, steady>>

\* What a walk of a tree with the paths S gets to: everything except what is
\* below a prod-readiness directory and what is sorted after a kep.yaml that is
\* in the same directory, or in one of the directories above.
Reached(S) ==
    {i \in S : /\ \A d \in within[i] : name[d] # PRRApprovalPathStub
               /\ \A m \in Metadata \cap S : \A a \in PathTo(i) :
                    parent[a] = parent[m] => a <= m}

Init ==
    /\ \E k \in Checkouts :
         /\ disk \in k.disks
         /\ unreadable \in {U \cap disk : U \in k.denied}
         /\ content \in {c \in [Metadata -> k.docs \cup {NotExist}] :
                           \A m \in Metadata : c[m] = NotExist <=> m \notin disk}
         /\ prr \in [PRRKeys -> k.approvals]
         /\ drafts = k.drafts
    /\ edits = 0
    /\ pc = "idle"
    /\ pending = {}
    /\ files = << >>
    /\ checked = 0
    /\ valErrMap = {}
    /\ parserErrs = {}
    /\ steady = Reached(disk) \cap Metadata

----------------------------------------------------------------------------
(* Find all the KEPs: filepath.Walk and its callback. *)

\* Mutant of Start: Walk begins above the root.
StartAbove ==
    /\ pc = "idle"
    /\ pc' = "walk"
    /\ pending' = {Root - 1}
    /\ UNCHANGED <<tree, steady, files, checked, valErrMap, parserErrs>>

\* Validate is called: Walk will visit the root first.
Start ==
    /\ pc = "idle"
    /\ pc' = "walk"
    /\ pending' = {Root}
    /\ UNCHANGED <<tree, steady, files, checked, valErrMap, parserErrs>>

\* Walk visits what it has listed in lexical order.
Visiting(i) == pc = "walk" /\ i \in pending /\ \A j \in pending : i <= j

\* Mutant of VisitDir: the error of a failed read is swallowed.
VisitDirSwallow ==
    \E d \in disk :
        /\ Visiting(d) /\ isDir[d]
        /\ pending' = (pending \ {d}) \cup
             (IF d \in unreadable \/ name[d] = PRRApprovalPathStub THEN {} ELSE Children(d) \cap disk)
        /\ UNCHANGED <<tree, steady, pc, files, checked, valErrMap, parserErrs>>

\* Mutant of VisitDir: the names come from a listing that is out of date.
VisitDirStale ==
    \E d \in disk :
        /\ Visiting(d) /\ isDir[d]
        /\ IF d \in unreadable
           THEN pc' = "failed" /\ pending' = {}
           ELSE /\ pc' = pc
                /\ pending' = (pending \ {d}) \cup
                     (IF name[d] = PRRApprovalPathStub THEN {} ELSE Children(d))
        /\ UNCHANGED <<tree, steady, files, checked, valErrMap, parserErrs>>

\* Walk reads a directory's names before the callback sees the directory; the
\* callback returns the error of a failed read, which ends the walk, and skips
\* the approvals.
VisitDir ==
    \E d \in disk :
        /\ Visiting(d) /\ isDir[d]
        /\ IF d \in unreadable
           THEN pc' = "failed" /\ pending' = {}
           ELSE /\ pc' = pc
                /\ pending' = (pending \ {d}) \cup
                     (IF name[d] = PRRApprovalPathStub THEN {} ELSE Children(d) \cap disk)
        /\ UNCHANGED <<tree, steady, files, checked, valErrMap, parserErrs>>

\* Mutant of VisitMetadata: nil is returned instead of SkipDir.
VisitMetadataNoSkip ==
    \E i \in disk \cap Metadata :
        /\ Visiting(i)
        /\ files' = Append(files, i)
        /\ pending' = pending \ {i}
        /\ UNCHANGED <<tree, steady, pc, checked, valErrMap, parserErrs>>

\* A kep.yaml: SkipDir from a file skips what is left of its directory.
VisitMetadata ==
    \E i \in disk \cap Metadata :
        /\ Visiting(i)
        /\ files' = Append(files, i)
        /\ pending' = pending \ Children(parent[i])
        /\ UNCHANGED <<tree, steady, pc, checked, valErrMap, parserErrs>>

HasMetadata(d) == \E m \in Metadata \cap disk : parent[m] = d

\* A README.md below the root needs a kep.yaml beside it.
MissingMetadata(i) ==
    IF name[i] = ProposalFilename /\ parent[i] # Root /\ ~HasMetadata(parent[i])
    THEN {<<parent[i], Error("metadata file missing")>>}
    ELSE {}

\* Mutant of VisitReadme: SkipDir is returned, as for a kep.yaml.
VisitReadmeSkip ==
    \E i \in disk :
        /\ Visiting(i) /\ ~isDir[i] /\ name[i] = ProposalFilename
        /\ valErrMap' = valErrMap \cup MissingMetadata(i)
        /\ pending' = pending \ Children(parent[i])
        /\ UNCHANGED <<tree, steady, pc, files, checked, parserErrs>>

VisitReadme ==
    \E i \in disk :
        /\ Visiting(i) /\ ~isDir[i] /\ name[i] = ProposalFilename
        /\ valErrMap' = valErrMap \cup MissingMetadata(i)
        /\ pending' = pending \ {i}
        /\ UNCHANGED <<tree, steady, pc, files, checked, parserErrs>>

VisitOther ==
    \E i \in disk \ Metadata :
        /\ Visiting(i) /\ ~isDir[i] /\ name[i] # ProposalFilename
        /\ pending' = pending \ {i}
        /\ UNCHANGED <<tree, steady, pc, files, checked, valErrMap, parserErrs>>

\* lstat fails on a name that was listed: the callback gets a nil FileInfo and
\* calls info.Name() before it looks at the error.
VisitVanished ==
    \E i \in Paths \ disk :
        /\ Visiting(i)
        /\ pc' = "panicked"
        /\ UNCHANGED <<tree, steady, pending, files, checked, valErrMap, parserErrs>>

\* The name goes away later, between lstat and the rest of the visit: a directory
\* cannot be listed, which ends the walk, and os.Stat does not find a kep.yaml. A
\* kep.yaml that os.Stat no longer finds is passed over like any other file: it is
\* not collected, and the walk goes on with what is beside it.
VisitVanishing ==
    \E i \in Paths \ disk :
        /\ Visiting(i)
        /\ IF isDir[i]
           THEN pc' = "failed" /\ pending' = {} /\ UNCHANGED valErrMap
           ELSE /\ pc' = pc /\ pending' = pending \ {i}
                /\ valErrMap' = valErrMap \cup MissingMetadata(i)
        /\ UNCHANGED <<tree, steady, files, checked, parserErrs>>

\* Mutant of FinishWalk: a walk without KEPs waits for one.
FinishWalkWaits ==
    /\ pc = "walk" /\ pending = {} /\ files # << >>
    /\ pc' = "check"
    /\ UNCHANGED <<tree, steady, pending, files, checked, valErrMap, parserErrs>>

\* The walk is over; a repository without KEPs is an error.
FinishWalk ==
    /\ pc = "walk" /\ pending = {}
    /\ pc' = IF files = << >> THEN "failed" ELSE "check"
    /\ UNCHANGED <<tree, steady, pending, files, checked, valErrMap, parserErrs>>

----------------------------------------------------------------------------
(* Validate each of them. *)

\* What ValidatePRR opens for this KEP.
PRRFile(kep) == prr[<<kep.owningSIG, kep.number>>]

fatalValidationError(about) == [type |-> "*fatalValidationError", about |-> about]

\* The error validateFile returns.  Proposal.Error is never set by Parse.
validateFile(f) ==
    IF f \notin disk \/ f \in unreadable THEN fatalValidationError("could not open file")
    ELSE IF ParseKEP(content[f]) # NoError THEN ParseKEP(content[f])
    ELSE ValidatePRR(content[f], PRRFile(content[f]))

\* errors.As(err, target) looks for an error in err's chain whose type is the
\* one target points to.
errorsAs(err, type) == err.type = type

\* What KEPHandler.Parse and PRRHandler.Parse append to Parser.Errors.
NewParserErrs(f) ==
    IF f \notin disk \/ f \in unreadable THEN {}
    ELSE IF ParseKEP(content[f]) # NoError THEN {<<"KEP", ParseKEP(content[f])>>}
    ELSE LET kep == content[f]
             doc == PRRFile(kep)
         IN  IF ParsesPRR(kep, doc) /\ ParsePRR(doc) # NoError
             THEN {<<"PRR", ParsePRR(doc)>>}
             ELSE {}

\* Mutant of ValidateNext: the loop is left at the first error.
ValidateNextBreaks ==
    /\ pc = "check" /\ checked < Len(files)
    /\ LET f == files[checked + 1]
           err == validateFile(f)
       IN  /\ parserErrs' = parserErrs \cup NewParserErrs(f)
           /\ checked' = IF err = NoError THEN checked + 1 ELSE Len(files)
           /\ valErrMap' = IF err = NoError THEN valErrMap ELSE valErrMap \cup {<<parent[f], err>>}
    /\ UNCHANGED <<tree, steady, pc, pending, files>>

\* One turn of the loop over files.  fvErr is a *fatalValidationError, so the
\* target type of errors.As is the struct, not the pointer that was returned.
ValidateNext ==
    /\ pc = "check" /\ checked < Len(files)
    /\ LET f == files[checked + 1]
           err == validateFile(f)
       IN  /\ parserErrs' = parserErrs \cup NewParserErrs(f)
           /\ IF err # NoError /\ errorsAs(err, "fatalValidationError")
              THEN /\ pc' = "failed"
                   /\ UNCHANGED <<checked, valErrMap>>
              ELSE /\ pc' = pc
                   /\ checked' = checked + 1
                   /\ valErrMap' = IF err = NoError THEN valErrMap
                                   ELSE valErrMap \cup {<<parent[f], err>>}
    /\ UNCHANGED <<tree, steady, pending, files>>

Return ==
    /\ pc = "check" /\ checked = Len(files)
    /\ pc' = "done"
    /\ UNCHANGED <<tree, steady, pending, files, checked, valErrMap, parserErrs>>

----------------------------------------------------------------------------
(* The working tree changes under the walk: a branch switch, an editor, or  *)
(* kepctl create and promote (external to Validate).                        *)

Running == pc \in {"walk", "check"}

Editing ==
    /\ Running /\ drafts # {} /\ edits < MaxEdits
    /\ edits' = edits + 1
    /\ steady' = {m \in steady : m \in Reached(disk') /\ content'[m] = content[m]}

\* A path goes away, with everything below it.
Remove ==
    /\ \E d \in disk \ {Root} :
         LET gone == {i \in disk : d \in PathTo(i)}
         IN  /\ disk' = disk \ gone
             /\ unreadable' = unreadable \ gone
             /\ content' = [m \in Metadata |-> IF m \in gone THEN NotExist ELSE content[m]]
    /\ Editing
    /\ UNCHANGED <<prr, drafts, pc, pending, files, checked, valErrMap, parserErrs>>

\* A path appears, or a kep.yaml gets another content.
Write ==
    /\ \E i \in Paths \ {Root} :
         /\ parent[i] \in disk
         /\ i \notin disk \/ i \in Metadata \ unreadable
         /\ disk' = disk \cup {i}
         /\ IF i \in Metadata
            THEN \E doc \in drafts : content' = [content EXCEPT ![i] = doc]
            ELSE UNCHANGED content
    /\ Editing
    /\ UNCHANGED <<unreadable, prr, drafts, pc, pending, files, checked, valErrMap, parserErrs>>

----------------------------------------------------------------------------
Step == \/ Start
        \/ VisitDir \/ VisitMetadata \/ VisitReadme \/ VisitOther
        \/ VisitVanished \/ VisitVanishing
        \/ FinishWalk
        \/ ValidateNext \/ Return

Next == Step \/ Remove \/ Write

\* Validate is a single goroutine that is never blocked: it keeps running.
Spec == Init /\ [][Next]_vars /\ WF_vars(Step)

----------------------------------------------------------------------------
(* Properties *)

Range(seq) == {seq[i] : i \in DOMAIN seq}

\* The variables have their types.
TypeOK ==
    /\ disk \in SUBSET Paths
    /\ unreadable \in SUBSET disk
    /\ content \in [Metadata -> Docs \cup {NotExist}]
    /\ \A m \in Metadata \cap disk : content[m] \in Docs
    /\ prr \in [PRRKeys -> PRRFiles]
    /\ drafts \in SUBSET Docs
    /\ edits \in 0 .. MaxEdits
    /\ pc \in {"idle", "walk", "check", "done", "failed", "panicked"}
    /\ pending \in SUBSET Paths
    /\ files \in Seq(Metadata)
    /\ checked \in 0 .. Len(files)
    /\ steady \in SUBSET Metadata

\* What the errors should be: one for every KEP the walk gets to that does not
\* validate, and one for every proposal without metadata.
ExpectedErrs ==
    {<<parent[m], validateFile(m)>> :
        m \in {f \in Reached(disk) \cap Metadata : validateFile(f) # NoError}}
      \cup
    {<<parent[i], Error("metadata file missing")>> :
        i \in {r \in Reached(disk) : /\ ~isDir[r] /\ name[r] = ProposalFilename
                                     /\ parent[r] # Root /\ ~HasMetadata(parent[r])}}

\* On a tree that nobody changes, Validate reports every error there is and no
\* other: no KEP is lost to SkipDir or reported twice under different errors.
ExactReport == pc = "done" /\ edits = 0 => valErrMap = ExpectedErrs

\* A directory on the way of the walk cannot be read, or there is no KEP to be found.
Blocked == \/ \E d \in Reached(disk) \cap unreadable : isDir[d]
           \/ Reached(disk) \cap Metadata = {}

\* A kep.yaml that the walk finds cannot be opened.
Unopened == Reached(disk) \cap Metadata \cap unreadable # {}

\* On a tree that nobody changes, and where every kep.yaml the walk finds can be
\* opened, Validate gives up (returns an error of its own instead of a report)
\* exactly when a directory cannot be read or there is no KEP to be found.  What
\* a kep.yaml that cannot be opened should do to the check is disputed: see
\* FatalStops.
GivesUpExactlyWhenBlocked ==
    edits = 0 /\ ~Unopened => (pc = "failed" => Blocked) /\ (pc = "done" => ~Blocked)

\* A KEP that no edit touches, hides or moves while Validate runs gets its own
\* verdict, whatever happens to the rest of the tree.
SteadyKEPsAreJudged ==
    pc = "done" =>
        \A m \in steady :
            /\ m \in Range(files)
            /\ validateFile(m) # NoError => <<parent[m], validateFile(m)>> \in valErrMap

\* The approval a KEP needs is on file: the approver of its stage is one of the
\* PRR approvers.
Approved(kep) ==
    \E a \in PRRApprovers, at \in BOOLEAN :
        /\ PRRFile(kep) \notin {NotExist, Unreadable, Malformed}
        /\ PRRFile(kep).milestone[kep.stage] = [at |-> at, name |-> a]

\* If Validate reports nothing, no steady KEP that targets v1.21 or later is
\* implementable or implemented without an approval by a PRR approver.
PassMeansApproved ==
    pc = "done" /\ valErrMap = {} =>
        \A m \in steady :
            LET kep == content[m]
            IN  /\ kep # Malformed
                /\ kep.status \in {"implementable", "implemented"} =>
                     /\ kep.latestMilestone \in Nat \ {NoMilestone}
                     /\ kep.latestMilestone >= 21 => Approved(kep)

\* Validate panics only if a path went away between the listing of its directory
\* and the visit: never on a tree that nobody changes.
PanicOnlyIfVanished == pc = "panicked" => edits > 0 /\ \E i \in pending : i \notin disk

\* Validate as one verdict: what it has found is nobody's business until it returns.
Gate == INSTANCE KepGate WITH
    due <- {<<parent[m], validateFile(m)>> : m \in {k \in steady : validateFile(k) # NoError}},
    present <- ExpectedErrs,
    blocked <- Blocked,
    unopened <- Unopened,
    edited <- edits > 0,
    verdict <- IF pc = "done" THEN "report" ELSE IF pc = "failed" THEN "error"
               ELSE IF pc = "panicked" THEN "panic" ELSE "none",
    report <- IF pc = "done" THEN valErrMap ELSE {}

\* Repo.Validate implements the gate: whatever the order of its steps and of the
\* edits between them, it gives one final verdict, with every error that is due,
\* exact unless the tree was edited, and gives up or panics only for a reason.
ImplementsGate == Gate!Spec

\* fatalValidationError is documented to stop the validation, so it is never one
\* of the errors of the report (validate.go:122 and :129).
FatalStops == \A e \in valErrMap : e[2].type # "*fatalValidationError"

\* Validate returns, or panics.
Terminates == <>(pc \in {"done", "failed", "panicked"})
=============================================================================
