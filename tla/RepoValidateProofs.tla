------------------------- MODULE RepoValidateProofs -------------------------
(***************************************************************************)
(* Proofs about RepoValidate, for any tree of KEPs, any documents in it    *)
(* and any number of changes while it is validated.                        *)
(***************************************************************************)
EXTENDS RepoValidate, FileTreeProofs

\* The walk still gets to every steady KEP that it has not found.
WalkInv ==
    /\ Closed(disk)
    /\ steady \subseteq Reached(disk) \cap Metadata
    /\ pc = "walk" => \A m \in steady : m \in Range(files) \/ PathTo(m) \cap pending # {}
    /\ pc \in {"check", "done"} => steady \subseteq Range(files)

\* A steady KEP that has been checked is in the report if it is invalid.
JudgedInv ==
    /\ \A k \in 1 .. checked :
         files[k] \in steady /\ validateFile(files[k]) # NoError =>
             <<parent[files[k]], validateFile(files[k])>> \in valErrMap
    /\ pc \in {"idle", "walk"} => checked = 0
    /\ pc = "done" => checked = Len(files)

\* The variables of Validate and of the tree keep their types.
THEOREM TypeCorrect == Spec => []TypeOK
  <1>1. Init => TypeOK
    <2> SUFFICES ASSUME Init PROVE TypeOK
      OBVIOUS
    <2>1. /\ disk \in SUBSET Paths /\ unreadable \in SUBSET disk
          /\ content \in [Metadata -> Docs \cup {NotExist}]
          /\ \A m \in Metadata \cap disk : content[m] \in Docs
          /\ prr \in [PRRKeys -> PRRFiles] /\ drafts \in SUBSET Docs
      BY CheckoutsAreTrees DEF Init
    <2>2. files \in Seq(Metadata) /\ checked \in 0 .. Len(files) /\ edits \in 0 .. MaxEdits
      BY MaxEditsIsNat DEF Init
    <2>3. steady \in SUBSET Metadata /\ pending \in SUBSET Paths
      BY DEF Init
    <2> QED
      BY <2>1, <2>2, <2>3 DEF TypeOK, Init
  <1>2. TypeOK /\ [Next]_vars => TypeOK'
    <2> SUFFICES ASSUME TypeOK, [Next]_vars PROVE TypeOK'
      OBVIOUS
    <2>1. CASE Start
      BY <2>1, TreeFacts DEF Start, TypeOK, tree
    <2>2. CASE VisitDir
      <3>1. pending' \in SUBSET Paths
        BY <2>2 DEF VisitDir, TypeOK, Children
      <3> QED
        BY <2>2, <3>1 DEF VisitDir, TypeOK, tree
    <2>3. CASE VisitMetadata
      <3>1. PICK i \in disk \cap Metadata : files' = Append(files, i)
        BY <2>3 DEF VisitMetadata
      <3>2. files' \in Seq(Metadata) /\ Len(files') = Len(files) + 1
        BY <3>1 DEF TypeOK
      <3>3. checked' \in 0 .. Len(files')
        BY <2>3, <3>2 DEF VisitMetadata, TypeOK
      <3>4. pending' \in SUBSET Paths
        BY <2>3 DEF VisitMetadata, TypeOK
      <3> QED
        BY <2>3, <3>2, <3>3, <3>4 DEF VisitMetadata, TypeOK, tree
    <2>4. CASE VisitReadme \/ VisitOther
      <3>1. pending' \in SUBSET Paths
        BY <2>4 DEF VisitReadme, VisitOther, TypeOK
      <3> QED
        BY <2>4, <3>1 DEF VisitReadme, VisitOther, TypeOK, tree
    <2>5. CASE VisitVanished \/ VisitVanishing \/ FinishWalk \/ Return
      BY <2>5 DEF VisitVanished, VisitVanishing, FinishWalk, Return, TypeOK, tree
    <2>6. CASE ValidateNext
      <3>1. checked' \in 0 .. Len(files')
        BY <2>6 DEF ValidateNext, TypeOK
      <3> QED
        BY <2>6, <3>1 DEF ValidateNext, TypeOK, tree
    <2>7. ASSUME Editing PROVE edits' \in 0 .. MaxEdits /\ steady' \in SUBSET Metadata
      BY <2>7, MaxEditsIsNat DEF Editing, TypeOK
    <2>8. CASE Remove
      <3>1. PICK gone \in SUBSET disk :
              /\ disk' = disk \ gone /\ unreadable' = unreadable \ gone
              /\ content' = [m \in Metadata |-> IF m \in gone THEN NotExist ELSE content[m]]
        BY <2>8 DEF Remove
      <3>2. /\ disk' \in SUBSET Paths /\ unreadable' \in SUBSET disk'
            /\ content' \in [Metadata -> Docs \cup {NotExist}]
            /\ \A m \in Metadata \cap disk' : content'[m] \in Docs
        BY <3>1 DEF TypeOK
      <3> QED
        BY <2>7, <2>8, <3>2 DEF Remove, TypeOK
    <2>9. CASE Write
      <3>1. PICK i \in Paths :
              /\ disk' = disk \cup {i}
              /\ IF i \in Metadata THEN \E doc \in Docs : content' = [content EXCEPT ![i] = doc]
                                   ELSE UNCHANGED content
        BY <2>9 DEF Write, TypeOK
      <3>2. disk' \in SUBSET Paths /\ unreadable \in SUBSET disk'
        BY <3>1 DEF TypeOK
      <3>3. /\ content' \in [Metadata -> Docs \cup {NotExist}]
            /\ \A m \in Metadata \cap disk' : content'[m] \in Docs
        BY <3>1 DEF TypeOK
      <3> QED
        BY <2>7, <2>9, <3>2, <3>3 DEF Write, TypeOK
    <2>10. CASE UNCHANGED vars
      BY <2>10 DEF TypeOK, vars
    <2> QED
      BY <2>1, <2>2, <2>3, <2>4, <2>5, <2>6, <2>8, <2>9, <2>10 DEF Next, Step
  <1> QED
    BY <1>1, <1>2, PTL DEF Spec

\* Changes to the tree keep WalkInv: a KEP that stops being reachable stops being
\* steady, and the walk's own state does not change.
LEMMA EditKeepsWalk == TypeOK /\ WalkInv /\ (Remove \/ Write) => WalkInv'
  <1> SUFFICES ASSUME TypeOK, WalkInv, Remove \/ Write PROVE WalkInv'
    OBVIOUS
  <1>1. /\ steady' \subseteq steady /\ steady' \subseteq Reached(disk')
        /\ UNCHANGED <<pc, pending, files>>
    BY DEF Remove, Write, Editing
  <1>2. Closed(disk')
    <2>1. CASE Remove
      <3>1. PICK d \in disk \ {Root} : disk' = disk \ {i \in disk : d \in PathTo(i)}
        BY <2>1 DEF Remove
      <3>2. ASSUME NEW i \in disk', NEW j \in PathTo(i) PROVE j \in disk'
        <4>1. i \in disk /\ j \in disk /\ d \notin PathTo(i)
          BY <3>1, <3>2 DEF WalkInv, Closed
        <4>2. PathTo(j) \subseteq PathTo(i)
          BY <4>1, PathsNest DEF TypeOK
        <4> QED
          BY <3>1, <4>1, <4>2
      <3> QED
        BY <3>2 DEF Closed
    <2>2. CASE Write
      <3>1. PICK i \in Paths \ {Root} : parent[i] \in disk /\ disk' = disk \cup {i}
        BY <2>2 DEF Write
      <3>2. PathTo(i) \subseteq disk'
        BY <3>1, TreeIsATree, TreeFacts DEF WalkInv, Closed, PathTo
      <3> QED
        BY <3>1, <3>2 DEF WalkInv, Closed
    <2> QED
      BY <2>1, <2>2
  <1> QED
    BY <1>1, <1>2 DEF WalkInv, TypeOK, Range

\* One step of Validate keeps WalkInv: whatever the walk drops, it drops no
\* steady KEP.
LEMMA StepKeepsWalk == TypeOK /\ WalkInv /\ Step => WalkInv'
  <1> SUFFICES ASSUME TypeOK, WalkInv, Step PROVE WalkInv'
    OBVIOUS
  <1>1. disk' = disk /\ steady' = steady
    BY DEF Step, Start, VisitDir, VisitMetadata, VisitReadme, VisitOther, VisitVanished,
           VisitVanishing, FinishWalk, ValidateNext, Return, tree
  <1>2. \A m \in steady : m \in Metadata /\ m \in Paths /\ m \in Reached(disk)
                          /\ PathTo(m) \subseteq disk /\ ~isDir[m]
    BY TreeFacts DEF WalkInv, Closed, Reached, Metadata
  <1> SUFFICES /\ pc' = "walk" => \A m \in steady : m \in Range(files') \/ PathTo(m) \cap pending' # {}
               /\ pc' \in {"check", "done"} => steady \subseteq Range(files')
    BY <1>1 DEF WalkInv, Range
  <1>3. CASE Start
    BY <1>2, <1>3, TreeFacts DEF Start
  <1>4. CASE VisitDir
    <2>1. PICK d \in disk :
            /\ Visiting(d) /\ isDir[d] /\ files' = files
            /\ \/ pc' = "failed"
               \/ /\ pc' = pc /\ pc = "walk"
                  /\ pending' = (pending \ {d}) \cup
                       (IF name[d] = PRRApprovalPathStub THEN {} ELSE Children(d) \cap disk)
      BY <1>4 DEF VisitDir, Visiting
    <2>2. ASSUME NEW m \in steady, d \in PathTo(m)
          PROVE  name[d] # PRRApprovalPathStub /\ PathTo(m) \cap (Children(d) \cap disk) # {}
      <3>1. d # m /\ d \in within[m]
        <4>1. m \in Paths /\ d # m
          BY <1>2, <2>1
        <4> QED
          BY <2>2, <4>1, TreeFacts, Zenon
      <3>2. PICK c \in PathTo(m) : parent[c] = d
        BY <1>2, <2>2, <3>1, TreeFacts
      <3>3. c \in Children(d) \cap disk
        BY <1>2, <3>2, TreeFacts DEF Children, TypeOK
      <3> QED
        BY <1>2, <3>1, <3>2, <3>3 DEF Reached
    <2> QED
      BY <2>1, <2>2 DEF WalkInv
  <1>5. CASE VisitMetadata
    <2>1. PICK i \in disk \cap Metadata :
            /\ Visiting(i) /\ files' = Append(files, i) /\ pc' = pc
            /\ pending' = pending \ Children(parent[i])
      BY <1>5 DEF VisitMetadata
    <2>2. Range(files') = Range(files) \cup {i}
      <3>1. files \in Seq(Metadata) /\ i \in Metadata
        BY <2>1 DEF TypeOK
      <3>2. /\ DOMAIN files = 1 .. Len(files) /\ Len(files) \in Nat
            /\ DOMAIN files' = 1 .. Len(files) + 1
            /\ \A k \in 1 .. Len(files) : files'[k] = files[k]
            /\ files'[Len(files) + 1] = i
        BY <2>1, <3>1
      <3> QED
        BY <3>2 DEF Range
    <2>3. ASSUME NEW m \in steady, NEW a \in PathTo(m), a \in pending, a \in Children(parent[i])
          PROVE  m = i
      <3>1. a <= i
        BY <1>2, <2>1, <2>3 DEF Reached, Children
      <3>2. i <= a
        BY <2>1, <2>3 DEF Visiting
      <3>3. a = i
        <4>1. a \in Nat /\ i \in Nat
          BY <1>2, <2>1, TreeFacts
        <4> QED
          BY <3>1, <3>2, <4>1
      <3> QED
        BY <1>2, <2>1, <2>3, <3>3, TreeFacts DEF Metadata
    <2> QED
      BY <2>1, <2>2, <2>3 DEF WalkInv, Visiting
  <1>6. CASE VisitReadme \/ VisitOther
    <2>1. PICK i \in disk :
            /\ Visiting(i) /\ ~isDir[i] /\ i \notin Metadata
            /\ pending' = pending \ {i} /\ files' = files /\ pc' = pc
      BY <1>6 DEF VisitReadme, VisitOther, Metadata, ProposalFilename, ProposalMetadataFilename
    <2>2. ASSUME NEW m \in steady PROVE i \notin PathTo(m)
      <3>1. m \in Metadata /\ m \in Paths
        BY <1>2
      <3>2. i # m
        BY <2>1, <3>1
      <3> QED
        BY <2>1, <3>1, <3>2, TreeFacts
    <2> QED
      BY <2>1, <2>2 DEF WalkInv, Visiting
  <1>7. CASE VisitVanished
    BY <1>7 DEF VisitVanished
  <1>8. CASE VisitVanishing
    <2>1. PICK i \in Paths \ disk :
            /\ Visiting(i) /\ files' = files
            /\ \/ pc' = "failed"
               \/ pc' = pc /\ pending' = pending \ {i}
      BY <1>8 DEF VisitVanishing
    <2>2. \A m \in steady : i \notin PathTo(m)
      BY <1>2, <2>1
    <2> QED
      BY <2>1, <2>2 DEF WalkInv, Visiting
  <1>9. CASE FinishWalk
    BY <1>9 DEF FinishWalk, WalkInv
  <1>10. CASE ValidateNext \/ Return
    BY <1>10 DEF ValidateNext, Return, WalkInv
  <1> QED
    BY <1>3, <1>4, <1>5, <1>6, <1>7, <1>8, <1>9, <1>10 DEF Step

\* A step of Validate changes no verdict: it leaves the tree alone, and adds to
\* the files and to the report.
LEMMA StepKeepsJudged == TypeOK /\ JudgedInv /\ Step => JudgedInv'
  <1> SUFFICES ASSUME TypeOK, JudgedInv, Step PROVE JudgedInv'
    OBVIOUS
  <1>1. UNCHANGED tree /\ UNCHANGED steady
    BY DEF Step, Start, VisitDir, VisitMetadata, VisitReadme, VisitOther, VisitVanished,
           VisitVanishing, FinishWalk, ValidateNext, Return
  <1>2. \A f : validateFile(f)' = validateFile(f)
    BY <1>1 DEF validateFile, PRRFile, tree
  <1>3. CASE Start \/ VisitDir \/ VisitVanished \/ VisitVanishing \/ FinishWalk \/ Return \/ VisitOther \/ VisitReadme
    <2>1. /\ UNCHANGED <<files, checked>> /\ valErrMap \subseteq valErrMap'
          /\ pc' \in {"idle", "walk"} => pc \in {"idle", "walk"}
          /\ pc' = "done" => checked = Len(files)
      BY <1>3 DEF Start, VisitDir, VisitVanished, VisitVanishing, FinishWalk, Return, VisitOther, VisitReadme, Visiting
    <2> QED
      BY <1>1, <1>2, <2>1 DEF JudgedInv
  <1>4. CASE VisitMetadata
    BY <1>4 DEF VisitMetadata, Visiting, JudgedInv
  <1>5. CASE ValidateNext
    <2> DEFINE f == files[checked + 1]
    <2>1. pc = "check" /\ checked < Len(files) /\ UNCHANGED files
      BY <1>5 DEF ValidateNext
    <2>2. CASE pc' = "failed" /\ UNCHANGED <<checked, valErrMap>>
      BY <1>1, <1>2, <2>1, <2>2 DEF JudgedInv
    <2>3. CASE ~(pc' = "failed" /\ UNCHANGED <<checked, valErrMap>>)
      <3>1. /\ pc' = "check" /\ checked' = checked + 1
            /\ valErrMap' = IF validateFile(f) = NoError THEN valErrMap
                            ELSE valErrMap \cup {<<parent[f], validateFile(f)>>}
        BY <1>5, <2>1, <2>3 DEF ValidateNext
      <3>2. ASSUME NEW k \in 1 .. checked + 1, files[k] \in steady, validateFile(files[k]) # NoError
            PROVE  <<parent[files[k]], validateFile(files[k])>> \in valErrMap'
        <4>1. CASE k = checked + 1
          BY <3>1, <3>2, <4>1
        <4>2. CASE k # checked + 1
          <5>1. k \in 1 .. checked
            BY <4>2 DEF TypeOK
          <5> QED
            BY <3>1, <3>2, <5>1 DEF JudgedInv
        <4> QED
          BY <4>1, <4>2
      <3> QED
        BY <1>1, <1>2, <2>1, <3>1, <3>2 DEF JudgedInv
    <2> QED
      BY <2>2, <2>3
  <1> QED
    BY <1>3, <1>4, <1>5 DEF Step

\* An edit takes errors away from what is due, and adds none.
LEMMA EditShrinksDue ==
  ASSUME TypeOK, WalkInv, Remove \/ Write
  PROVE  \A m \in steady' : m \in steady /\ validateFile(m)' = validateFile(m)
  <1>1. /\ UNCHANGED prr
        /\ steady' = {m \in steady : m \in Reached(disk') /\ content'[m] = content[m]}
    BY DEF Remove, Write, Editing
  <1> TAKE m \in steady'
  <1>2. m \in steady /\ m \in disk /\ m \in disk' /\ content'[m] = content[m]
    BY <1>1 DEF WalkInv, Reached
  <1>3. m \in unreadable' <=> m \in unreadable
    <2>1. CASE Remove
      BY <1>2, <2>1 DEF Remove
    <2>2. CASE Write
      BY <2>2 DEF Write
    <2> QED
      BY <2>1, <2>2
  <1> QED
    BY <1>1, <1>2, <1>3 DEF validateFile, PRRFile

\* A change to the tree does not change what validateFile finds for a KEP that
\* stays steady.
LEMMA EditKeepsJudged == TypeOK /\ WalkInv /\ JudgedInv /\ (Remove \/ Write) => JudgedInv'
  <1> SUFFICES ASSUME TypeOK, WalkInv, JudgedInv, Remove \/ Write PROVE JudgedInv'
    OBVIOUS
  <1>1. UNCHANGED <<pc, files, checked, valErrMap>>
    BY DEF Remove, Write
  <1>2. \A m \in steady' : m \in steady /\ validateFile(m)' = validateFile(m)
    BY EditShrinksDue
  <1> QED
    BY <1>1, <1>2 DEF JudgedInv

\* WalkInv and JudgedInv hold whatever happens to the tree while Repo.Validate runs:
\* what is still due to a steady KEP is listed, found or reported.
LEMMA WalkAndJudged == Spec => [](WalkInv /\ JudgedInv)
  <1> DEFINE Inv == WalkInv /\ JudgedInv
  <1>1. Init => Inv
    <2> SUFFICES ASSUME Init PROVE Inv
      OBVIOUS
    <2>1. WalkInv
      BY CheckoutsAreTrees DEF Init, WalkInv
    <2>2. JudgedInv
      BY DEF Init, JudgedInv
    <2> QED
      BY <2>1, <2>2
  <1>2. TypeOK /\ Inv /\ [Next]_vars => Inv'
    <2> SUFFICES ASSUME TypeOK, Inv, [Next]_vars PROVE Inv'
      OBVIOUS
    <2>1. CASE Step
      BY <2>1, StepKeepsWalk, StepKeepsJudged
    <2>2. CASE Remove \/ Write
      BY <2>2, EditKeepsWalk, EditKeepsJudged
    <2>3. CASE UNCHANGED vars
      <3>1. WalkInv'
        BY <2>3 DEF vars, WalkInv
      <3>2. JudgedInv'
        BY <2>3 DEF vars, JudgedInv, validateFile, PRRFile
      <3> QED
        BY <3>1, <3>2
    <2> QED
      BY <2>1, <2>2, <2>3 DEF Next
  <1> QED
    BY <1>1, <1>2, TypeCorrect, PTL DEF Spec

\* A KEP that no edit touches gets its verdict from Repo.Validate, for every tree
\* and whatever happens to the rest of it: the SkipDir of the walk (validate.go:72)
\* and the loop over the files found (validate.go:100) lose none.
THEOREM SteadyJudged == Spec => []SteadyKEPsAreJudged
  <1>1. TypeOK /\ WalkInv /\ JudgedInv => SteadyKEPsAreJudged
    <2> SUFFICES ASSUME TypeOK, WalkInv, JudgedInv, pc = "done", NEW m \in steady
                 PROVE  /\ m \in Range(files)
                        /\ validateFile(m) # NoError => <<parent[m], validateFile(m)>> \in valErrMap
      BY DEF SteadyKEPsAreJudged
    <2>1. PICK k \in 1 .. Len(files) : files[k] = m
      BY DEF WalkInv, Range, TypeOK
    <2>2. k \in 1 .. checked
      BY <2>1 DEF JudgedInv
    <2> QED
      BY <2>1, <2>2 DEF JudgedInv, WalkInv
  <1> QED
    BY <1>1, WalkAndJudged, TypeCorrect, PTL

----------------------------------------------------------------------------
(* What a report without errors means. *)

\* A Go error is not nil.
LEMMA ErrorIsAnError == \A about : Error(about) # NoError
  BY DEF Error, NoError

\* A KEP that needs an approval gets past ValidatePRR only with one.
LEMMA ValidatePRRSound ==
  ASSUME NEW kep \in Proposals,
         NEW file \in Approvals \cup {Malformed, NotExist, Unreadable},
         ValidatePRR(kep, file) = NoError,
         kep.status \in {"implementable", "implemented"}
  PROVE  /\ kep.latestMilestone \in Nat \ {NoMilestone}
         /\ kep.latestMilestone >= 21 =>
              /\ file \in Approvals
              /\ \E a \in PRRApprovers, at \in BOOLEAN :
                   file.milestone[kep.stage] = [at |-> at, name |-> a]
  <1> DEFINE need == isPRRRequired(kep)
  <1>1. need.err = NoError
    BY ErrorIsAnError DEF ValidatePRR
  <1>2. /\ kep.latestMilestone # NoMilestone /\ kep.latestMilestone # BadMilestone
        /\ need.required = (kep.latestMilestone >= PRRRequiredAt)
    BY <1>1, ErrorIsAnError DEF isPRRRequired
  <1>3. kep.latestMilestone \in Nat
    BY <1>2 DEF Proposals
  <1>4. ASSUME kep.latestMilestone >= 21
        PROVE  /\ file \in Approvals
               /\ \E a \in PRRApprovers, at \in BOOLEAN :
                    file.milestone[kep.stage] = [at |-> at, name |-> a]
    <2>1. need.required
      BY <1>2, <1>4 DEF PRRRequiredAt
    <2>2. /\ file # NotExist /\ file # Unreadable /\ ParsePRR(file) = NoError
          /\ ApproverError(file, kep.stage) = NoError
          /\ IsOneOf(ApproverForStage(file, kep.stage).name, PRRApprovers)
      BY <1>1, <2>1, ErrorIsAnError DEF ValidatePRR
    <2>3. file \in Approvals
      BY <2>2, ErrorIsAnError DEF ParsePRR
    <2>4. kep.stage \in ValidStages /\ file.milestone[kep.stage] # Nil
      BY <2>2, ErrorIsAnError DEF ApproverError
    <2>5. file.milestone[kep.stage] \in Handles
      BY <2>3, <2>4 DEF Approvals
    <2>6. file.milestone[kep.stage] = [at |-> file.milestone[kep.stage].at,
                                       name |-> file.milestone[kep.stage].name]
          /\ file.milestone[kep.stage].at \in BOOLEAN
      BY <2>5 DEF Handles
    <2> QED
      BY <2>2, <2>3, <2>6 DEF IsOneOf, ApproverForStage
  <1> QED
    BY <1>2, <1>3, <1>4

\* If Repo.Validate reports nothing, every steady KEP for v1.21 or later that is
\* implementable or implemented has the approval of a PRR approver for its stage
\* (kepval/approval.go:32-96), for every repository.
THEOREM PassApproved == Spec => []PassMeansApproved
  <1>1. TypeOK /\ SteadyKEPsAreJudged => PassMeansApproved
    <2> SUFFICES ASSUME TypeOK, SteadyKEPsAreJudged, pc = "done", valErrMap = {}, NEW m \in steady
                 PROVE  /\ content[m] # Malformed
                        /\ content[m].status \in {"implementable", "implemented"} =>
                             /\ content[m].latestMilestone \in Nat \ {NoMilestone}
                             /\ content[m].latestMilestone >= 21 => Approved(content[m])
      BY DEF PassMeansApproved
    <2> DEFINE kep == content[m]
    <2>1. validateFile(m) = NoError
      BY DEF SteadyKEPsAreJudged
    <2>2. m \in disk
      BY <2>1 DEF validateFile, fatalValidationError, NoError
    <2>3. ParseKEP(kep) = NoError /\ ValidatePRR(kep, PRRFile(kep)) = NoError
      BY <2>1, <2>2 DEF validateFile, fatalValidationError, NoError
    <2>4. kep # Malformed
      BY <2>3, ErrorIsAnError DEF ParseKEP
    <2>5. kep \in Proposals /\ kep \in Docs
      BY <2>2, <2>4, DocsAreDocuments DEF TypeOK
    <2>6. PRRFile(kep) \in Approvals \cup {Malformed, NotExist, Unreadable}
      BY <2>4, <2>5, ApprovalKeys, PRRFilesAreFiles DEF PRRFile, TypeOK
    <2>7. ASSUME kep.status \in {"implementable", "implemented"}
          PROVE  /\ kep.latestMilestone \in Nat \ {NoMilestone}
                 /\ kep.latestMilestone >= 21 =>
                      /\ PRRFile(kep) \in Approvals
                      /\ \E a \in PRRApprovers, at \in BOOLEAN :
                           PRRFile(kep).milestone[kep.stage] = [at |-> at, name |-> a]
      BY <2>3, <2>5, <2>6, <2>7, ValidatePRRSound
    <2> QED
      BY <2>4, <2>7, NoApprovals DEF Approved
  <1> QED
    BY <1>1, TypeCorrect, SteadyJudged, PTL

----------------------------------------------------------------------------
(* The nil FileInfo. *)

\* On a tree that nobody changes, what is listed is there.
ListedInv ==
    /\ edits = 0 => Root \in disk /\ pending \subseteq disk
    /\ PanicOnlyIfVanished

\* ListedInv holds throughout Repo.Validate: the names that filepath.Walk lists on
\* a tree that nobody changes are those of paths that exist.
LEMMA ListedExists == Spec => []ListedInv
  <1>1. Init => ListedInv
    BY CheckoutsAreTrees DEF Init, ListedInv, PanicOnlyIfVanished
  <1>2. TypeOK /\ ListedInv /\ [Next]_vars => ListedInv'
    <2> SUFFICES ASSUME TypeOK, ListedInv, [Next]_vars PROVE ListedInv'
      OBVIOUS
    <2> USE DEF ListedInv, PanicOnlyIfVanished
    <2>1. CASE Start
      BY <2>1 DEF Start, tree
    <2>2. CASE VisitDir
      <3>1. UNCHANGED tree /\ pc' # "panicked" /\ (pending \subseteq disk => pending' \subseteq disk)
        BY <2>2 DEF VisitDir, Visiting
      <3> QED
        BY <3>1 DEF tree
    <2>3. CASE VisitMetadata \/ VisitReadme \/ VisitOther \/ VisitVanishing
      <3>1. UNCHANGED tree /\ pc' # "panicked" /\ pending' \subseteq pending
        BY <2>3 DEF VisitMetadata, VisitReadme, VisitOther, VisitVanishing, Visiting
      <3> QED
        BY <3>1 DEF tree
    <2>4. CASE VisitVanished
      <3>1. UNCHANGED tree /\ UNCHANGED pending /\ \E i \in pending : i \notin disk
        BY <2>4 DEF VisitVanished, Visiting
      <3>2. edits # 0
        BY <3>1
      <3> QED
        BY <3>1, <3>2 DEF tree, TypeOK
    <2>5. CASE FinishWalk \/ ValidateNext \/ Return
      <3>1. UNCHANGED tree /\ UNCHANGED pending /\ pc' # "panicked"
        BY <2>5 DEF FinishWalk, ValidateNext, Return
      <3> QED
        BY <3>1 DEF tree
    <2>6. CASE Remove \/ Write
      <3>1. edits' # 0 /\ pc' # "panicked"
        BY <2>6 DEF Remove, Write, Editing, Running, TypeOK
      <3> QED
        BY <3>1
    <2>7. CASE UNCHANGED vars
      BY <2>7 DEF vars
    <2> QED
      BY <2>1, <2>2, <2>3, <2>4, <2>5, <2>6, <2>7 DEF Next, Step
  <1> QED
    BY <1>1, <1>2, TypeCorrect, PTL DEF Spec

\* Repo.Validate calls info.Name() on a nil FileInfo (validate.go:49) only if a
\* path went away after its directory was listed.
THEOREM PanicOnlyByVanishing == Spec => []PanicOnlyIfVanished
  <1>1. ListedInv => PanicOnlyIfVanished
    BY DEF ListedInv
  <1> QED
    BY <1>1, ListedExists, PTL
=============================================================================
