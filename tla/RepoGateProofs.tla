--------------------------- MODULE RepoGateProofs ---------------------------
(***************************************************************************)
(* Proofs about the verdict of Repo.Validate: on a tree that nobody        *)
(* changes it is exact, and whatever happens to the tree Validate          *)
(* implements KepGate.                                                     *)
(***************************************************************************)
EXTENDS RepoValidateProofs

\* A proposal that has to be reported for want of a kep.yaml.
Bare(r) == /\ ~isDir[r] /\ name[r] = ProposalFilename
           /\ parent[r] # Root /\ ~HasMetadata(parent[r])

\* The walk is through with i: it has kept what a report needs of it.
Done(i) == /\ i \in Metadata => i \in Range(files)
           /\ Bare(i) => <<parent[i], Error("metadata file missing")>> \in valErrMap
           /\ isDir[i] => i \notin unreadable

\* A listed path is in a directory that the walk should get to, with every
\* kep.yaml that is sorted before it still to come.
Listed(i) ==
    i # Root => /\ parent[i] \in Reached(disk) /\ name[parent[i]] # PRRApprovalPathStub
                /\ \A m \in Metadata \cap disk : parent[m] = parent[i] /\ m < i => m \in pending

\* On a tree that nobody has changed, nothing is lost and nothing is invented.
ExactInv ==
    edits = 0 =>
        /\ steady = Reached(disk) \cap Metadata
        /\ Range(files) \subseteq steady
        /\ valErrMap \subseteq ExpectedErrs
        /\ pc = "walk" => /\ \A i \in pending : Listed(i)
                          /\ \A i \in Reached(disk) : Done(i) \/ PathTo(i) \cap pending # {}
        /\ pc \in {"check", "done"} => files # << >> /\ \A i \in Reached(disk) : Done(i)
        /\ pc = "failed" => Blocked

----------------------------------------------------------------------------
(* What the walk gets to. *)

\* The walk gets to the root.
LEMMA RootReached == ASSUME TypeOK, Root \in disk PROVE Root \in Reached(disk)
  <1>1. within[Root] = {} /\ PathTo(Root) = {Root} /\ parent[Root] = 0
    BY TreeIsATree, TreeFacts DEF PathTo
  <1>2. \A m \in Metadata : parent[m] # 0
    BY TreeIsATree, TreeFacts DEF Metadata
  <1> QED
    BY <1>1, <1>2 DEF Reached

\* The walk gets to what is in a directory that it gets to and does not skip, up to
\* the first kep.yaml.
LEMMA ChildReached ==
  ASSUME TypeOK, NEW i \in disk, i # Root,
         parent[i] \in Reached(disk), name[parent[i]] # PRRApprovalPathStub,
         \A m \in Metadata \cap disk : parent[m] = parent[i] => i <= m
  PROVE  i \in Reached(disk)
  <1>1. within[i] = PathTo(parent[i])
    BY TreeIsATree, TreeFacts DEF TypeOK
  <1>2. \A d \in within[i] : name[d] # PRRApprovalPathStub
    BY <1>1 DEF Reached, PathTo
  <1>3. ASSUME NEW m \in Metadata \cap disk, NEW a \in PathTo(i), parent[a] = parent[m]
        PROVE  a <= m
    BY <1>1, <1>3 DEF Reached, PathTo
  <1> QED
    BY <1>2, <1>3 DEF Reached

\* What filepath.Walk visits on an unchanged tree, it should get to.
LEMMA VisitedReached ==
  ASSUME TypeOK, ListedInv, ExactInv, edits = 0, NEW i, Visiting(i)
  PROVE  i \in Reached(disk)
  <1>1. i \in pending /\ i \in disk /\ i \in Nat /\ Listed(i) /\ Root \in disk
    BY TreeFacts DEF Visiting, ExactInv, ListedInv, TypeOK
  <1>2. ASSUME i # Root, NEW m \in Metadata \cap disk, parent[m] = parent[i] PROVE i <= m
    <2>1. m \in Nat
      BY TreeFacts
    <2>2. CASE m < i
      <3>1. m \in pending
        BY <1>1, <1>2, <2>2 DEF Listed
      <3> QED
        BY <3>1 DEF Visiting
    <2> QED
      BY <1>1, <2>1, <2>2
  <1> QED
    BY <1>1, <1>2, RootReached, ChildReached DEF Listed

----------------------------------------------------------------------------
(* The verdict on a tree that nobody changes. *)

\* A step of Validate keeps what is done done, and changes neither what the walk
\* should get to nor what the report should be.
LEMMA StepKeepsTree ==
  ASSUME TypeOK, Step
  PROVE  /\ UNCHANGED tree /\ UNCHANGED steady
         /\ Reached(disk)' = Reached(disk) /\ ExpectedErrs' = ExpectedErrs /\ Blocked' = Blocked
         /\ \A i : Bare(i)' = Bare(i)
  <1>1. UNCHANGED tree /\ UNCHANGED steady
    BY DEF Step, Start, VisitDir, VisitMetadata, VisitReadme, VisitOther, VisitVanished,
           VisitVanishing, FinishWalk, ValidateNext, Return
  <1>2. disk' = disk /\ unreadable' = unreadable
    BY <1>1 DEF tree
  <1>3. Reached(disk)' = Reached(disk)
    BY <1>2 DEF Reached
  <1>4. \A f : validateFile(f)' = validateFile(f)
    BY <1>1 DEF validateFile, PRRFile, tree
  <1>5. \A d : HasMetadata(d)' = HasMetadata(d)
    BY <1>2 DEF HasMetadata
  <1>6. ExpectedErrs' = ExpectedErrs
    BY <1>3, <1>4, <1>5 DEF ExpectedErrs
  <1>7. Blocked' = Blocked
    BY <1>2, <1>3 DEF Blocked
  <1>8. \A i : Bare(i)' = Bare(i)
    BY <1>5 DEF Bare
  <1> QED
    BY <1>1, <1>3, <1>6, <1>7, <1>8

\* validateFile never returns the type that errors.As asks for in Repo.Validate.
LEMMA NeverFatal == \A f : validateFile(f) # NoError => ~errorsAs(validateFile(f), "fatalValidationError")
  <1> DEFINE Types == {"nil", "errors.withStack", "*fatalValidationError"}
  <1>1. NoError.type \in Types /\ \A about : Error(about).type \in Types
    BY DEF NoError, Error
  <1>2. \A kep : isPRRRequired(kep).err.type \in Types
    <2> TAKE kep
    <2>1. \/ isPRRRequired(kep).err = NoError
          \/ \E about : isPRRRequired(kep).err = Error(about)
      BY DEF isPRRRequired
    <2> QED
      BY <1>1, <2>1
  <1>3. \A kep, file : ValidatePRR(kep, file).type \in Types
    <2> TAKE kep, file
    <2>1. ParsePRR(file).type \in Types /\ ApproverError(file, kep.stage).type \in Types
      BY <1>1 DEF ParsePRR, ApproverError
    <2> HIDE DEF Types
    <2> QED
      BY <1>1, <1>2, <2>1 DEF ValidatePRR
  <1>4. \A doc : ParseKEP(doc).type \in Types
    BY <1>1 DEF ParseKEP
  <1>5. \A f : validateFile(f).type \in Types
    BY <1>3, <1>4 DEF validateFile, fatalValidationError
  <1> QED
    BY <1>5 DEF errorsAs

\* The walk keeps ExactInv on an unchanged tree: it visits what it should get to,
\* and is through with what it takes off its list.
LEMMA WalkKeepsExact ==
  ASSUME TypeOK, WalkInv, ListedInv, ExactInv, edits = 0,
         Start \/ VisitDir \/ VisitMetadata \/ VisitReadme \/ VisitOther \/ FinishWalk
  PROVE  ExactInv'
  <1>1. Step
    BY DEF Step
  <1>2. /\ disk' = disk /\ unreadable' = unreadable /\ edits' = 0 /\ steady' = steady
        /\ Reached(disk') = Reached(disk) /\ ExpectedErrs' = ExpectedErrs /\ Blocked' = Blocked
        /\ \A i : Bare(i)' = Bare(i)
    BY <1>1, StepKeepsTree DEF tree
  <1>3. \A i \in Reached(disk) : i \in disk /\ i \in Paths /\ PathTo(i) \subseteq disk
    BY DEF Reached, TypeOK, WalkInv, Closed
  <1>4. /\ steady = Reached(disk) \cap Metadata /\ Range(files) \subseteq steady
        /\ valErrMap \subseteq ExpectedErrs
    BY DEF ExactInv
  <1>5. CASE Start
    <2>1. pc' = "walk" /\ pending' = {Root} /\ UNCHANGED <<files, valErrMap>>
      BY <1>5 DEF Start
    <2>2. \A i \in Reached(disk) : PathTo(i) \cap pending' # {}
      BY <1>3, <2>1, TreeFacts
    <2>3. \A i \in pending' : Listed(i)'
      BY <2>1 DEF Listed
    <2> QED
      BY <1>2, <1>4, <2>1, <2>2, <2>3 DEF ExactInv, Range
  <1>6. CASE VisitDir
    <2>1. PICK d \in disk :
            /\ Visiting(d) /\ isDir[d] /\ UNCHANGED <<files, valErrMap>> /\ pc = "walk"
            /\ IF d \in unreadable
               THEN pc' = "failed" /\ pending' = {}
               ELSE /\ pc' = pc
                    /\ pending' = (pending \ {d}) \cup
                         (IF name[d] = PRRApprovalPathStub THEN {} ELSE Children(d) \cap disk)
      BY <1>6 DEF VisitDir, Visiting
    <2>2. d \in Reached(disk)
      BY <2>1, VisitedReached
    <2>3. CASE d \in unreadable
      <3>1. Blocked
        BY <2>1, <2>2, <2>3 DEF Blocked
      <3> QED
        BY <1>2, <1>4, <2>1, <2>3, <3>1 DEF ExactInv, Range
    <2>4. CASE d \notin unreadable
      <3>1. pc' = "walk" /\ pending' = (pending \ {d}) \cup
              (IF name[d] = PRRApprovalPathStub THEN {} ELSE Children(d) \cap disk)
        BY <2>1, <2>4
      <3>2. ASSUME NEW i \in pending' PROVE Listed(i)'
        <4>1. CASE i \in pending
          <5>1. Listed(i) /\ i \in Nat
            BY <2>1, <4>1, TreeFacts DEF ExactInv, TypeOK
          <5>2. \A m \in Metadata : m \in pending => m \in pending'
            BY <2>1, <3>1, TreeFacts DEF Metadata
          <5> QED
            BY <1>2, <5>1, <5>2 DEF Listed
        <4>2. CASE i \notin pending
          <5>1. i \in Children(d) \cap disk /\ name[d] # PRRApprovalPathStub
            BY <3>1, <4>2
          <5>2. parent[i] = d
            BY <5>1 DEF Children
          <5>3. \A m \in Metadata \cap disk : parent[m] = d => m \in pending'
            BY <3>1, <5>1, TreeFacts DEF Children
          <5> QED
            BY <1>2, <2>2, <5>1, <5>2, <5>3 DEF Listed
        <4> QED
          BY <4>1, <4>2
      <3>3. ASSUME NEW i \in Reached(disk) PROVE Done(i)' \/ PathTo(i) \cap pending' # {}
        <4>1. CASE Done(i)
          BY <1>2, <2>1, <4>1 DEF Done, Range
        <4>2. CASE i = d
          BY <1>2, <2>1, <2>4, <4>2 DEF Done, Bare, Metadata
        <4>3. CASE i # d /\ d \in PathTo(i)
          <5>1. name[d] # PRRApprovalPathStub
            BY <1>3, <3>3, <4>3, TreeFacts DEF Reached
          <5>2. PICK c \in PathTo(i) : parent[c] = d
            BY <1>3, <4>3, TreeFacts
          <5>3. c \in Children(d) \cap disk
            BY <1>3, <5>2, TreeFacts DEF Children, TypeOK
          <5> QED
            BY <3>1, <5>1, <5>2, <5>3
        <4>4. CASE d \notin PathTo(i) /\ ~Done(i)
          BY <2>1, <3>1, <4>4 DEF ExactInv
        <4> QED
          BY <4>1, <4>2, <4>3, <4>4
      <3> QED
        BY <1>2, <1>4, <2>1, <3>1, <3>2, <3>3 DEF ExactInv, Range
    <2> QED
      BY <2>3, <2>4
  <1>7. CASE VisitMetadata
    <2>1. PICK k \in disk \cap Metadata :
            /\ Visiting(k) /\ files' = Append(files, k) /\ pc' = pc /\ pc = "walk"
            /\ pending' = pending \ Children(parent[k]) /\ valErrMap' = valErrMap
      BY <1>7 DEF VisitMetadata, Visiting
    <2>2. k \in Reached(disk)
      BY <2>1, VisitedReached
    <2>3. Range(files') = Range(files) \cup {k}
      <3>1. files \in Seq(Metadata) /\ k \in Metadata
        BY <2>1 DEF TypeOK
      <3>2. /\ DOMAIN files = 1 .. Len(files) /\ Len(files) \in Nat
            /\ DOMAIN files' = 1 .. Len(files) + 1
            /\ \A j \in 1 .. Len(files) : files'[j] = files[j]
            /\ files'[Len(files) + 1] = k
        BY <2>1, <3>1
      <3> QED
        BY <3>2 DEF Range
    <2>4. Range(files') \subseteq steady
      BY <1>4, <2>1, <2>2, <2>3
    <2>5. ASSUME NEW i \in pending' PROVE Listed(i)'
      <3>1. i \in pending /\ parent[i] # parent[k] /\ i \in Nat
        BY <2>1, <2>5, TreeFacts DEF Children, TypeOK
      <3>2. Listed(i)
        BY <2>1, <3>1 DEF ExactInv
      <3>3. \A m \in Metadata \cap disk : parent[m] = parent[i] /\ m \in pending => m \in pending'
        BY <2>1, <3>1 DEF Children
      <3> QED
        BY <1>2, <3>2, <3>3 DEF Listed
    <2>6. ASSUME NEW i \in Reached(disk) PROVE Done(i)' \/ PathTo(i) \cap pending' # {}
      <3>1. CASE Done(i)
        BY <1>2, <2>1, <2>3, <3>1 DEF Done
      <3>2. CASE i = k
        <4>1. ~isDir[k] /\ name[k] = ProposalMetadataFilename /\ ~Bare(k)
          BY <2>1 DEF Metadata, Bare, ProposalMetadataFilename, ProposalFilename
        <4> QED
          BY <1>2, <2>3, <3>2, <4>1 DEF Done
      <3>3. CASE i # k /\ ~Done(i)
        <4>1. PICK a \in PathTo(i) : a \in pending
          BY <2>1, <3>3 DEF ExactInv
        <4>2. CASE a \in Children(parent[k])
          <5>1. a <= k
            BY <2>1, <2>6, <4>1, <4>2 DEF Reached, Children
          <5>2. k <= a
            BY <2>1, <4>1 DEF Visiting
          <5>3. a \in Nat /\ k \in Nat
            BY <1>3, <2>1, <4>1, TreeFacts
          <5>4. a = k
            BY <5>1, <5>2, <5>3
          <5>5. ~isDir[k]
            BY <2>1 DEF Metadata
          <5> QED
            BY <1>3, <3>3, <4>1, <5>4, <5>5, TreeFacts
        <4> QED
          BY <2>1, <4>1, <4>2
      <3> QED
        BY <3>1, <3>2, <3>3
    <2> QED
      BY <1>2, <1>4, <2>1, <2>4, <2>5, <2>6 DEF ExactInv
  <1>8. CASE VisitReadme \/ VisitOther
    <2>1. PICK r \in disk :
            /\ Visiting(r) /\ ~isDir[r] /\ r \notin Metadata /\ pc' = pc /\ pc = "walk"
            /\ pending' = pending \ {r} /\ files' = files
            /\ \/ valErrMap' = valErrMap /\ ~Bare(r)
               \/ valErrMap' = valErrMap \cup MissingMetadata(r) /\ name[r] = ProposalFilename
      BY <1>8 DEF VisitReadme, VisitOther, Metadata, ProposalFilename, ProposalMetadataFilename, Visiting, Bare
    <2>2. r \in Reached(disk)
      BY <2>1, VisitedReached
    <2>3. /\ valErrMap \subseteq valErrMap'
          /\ Bare(r) => <<parent[r], Error("metadata file missing")>> \in valErrMap'
      BY <2>1 DEF MissingMetadata, Bare
    <2>4. valErrMap' \subseteq ExpectedErrs
      BY <1>4, <2>1, <2>2 DEF MissingMetadata, ExpectedErrs
    <2>5. ASSUME NEW i \in pending' PROVE Listed(i)'
      <3>1. i \in pending /\ Listed(i)
        BY <2>1, <2>5 DEF ExactInv
      <3> QED
        BY <1>2, <2>1, <3>1 DEF Listed
    <2>6. ASSUME NEW i \in Reached(disk) PROVE Done(i)' \/ PathTo(i) \cap pending' # {}
      <3>1. CASE Done(i)
        BY <1>2, <2>1, <2>3, <3>1 DEF Done, Range
      <3>2. CASE i = r
        BY <1>2, <2>1, <2>3, <3>2 DEF Done
      <3>3. CASE i # r /\ ~Done(i)
        <4>1. r \notin PathTo(i)
          BY <1>3, <2>1, <3>3, TreeFacts
        <4> QED
          BY <2>1, <3>3, <4>1 DEF ExactInv
      <3> QED
        BY <3>1, <3>2, <3>3
    <2> QED
      BY <1>2, <1>4, <2>1, <2>4, <2>5, <2>6 DEF ExactInv, Range
  <1>9. CASE FinishWalk
    <2>1. /\ pc = "walk" /\ pending = {} /\ UNCHANGED <<files, valErrMap>>
          /\ pc' = IF files = << >> THEN "failed" ELSE "check"
      BY <1>9 DEF FinishWalk
    <2>2. \A i \in Reached(disk) : Done(i)
      BY <2>1 DEF ExactInv
    <2>3. \A i \in Reached(disk) : Done(i)'
      BY <1>2, <2>1, <2>2 DEF Done, Range
    <2>4. files = << >> => Blocked
      <3>1. files = << >> => Range(files) = {}
        BY DEF Range
      <3>2. Reached(disk) \cap Metadata \subseteq Range(files)
        BY <2>2 DEF Done
      <3> QED
        BY <3>1, <3>2 DEF Blocked
    <2> QED
      BY <1>2, <1>4, <2>1, <2>3, <2>4 DEF ExactInv, Range
  <1> QED
    BY <1>5, <1>6, <1>7, <1>8, <1>9

\* The loop over the files keeps ExactInv: it adds the errors of KEPs that the walk
\* should get to.
LEMMA CheckKeepsExact ==
  ASSUME TypeOK, JudgedInv, ExactInv, edits = 0, ValidateNext \/ Return
  PROVE  ExactInv'
  <1>1. Step
    BY DEF Step
  <1>2. /\ disk' = disk /\ unreadable' = unreadable /\ edits' = 0 /\ steady' = steady
        /\ Reached(disk') = Reached(disk) /\ ExpectedErrs' = ExpectedErrs /\ Blocked' = Blocked
        /\ \A i : Bare(i)' = Bare(i)
    BY <1>1, StepKeepsTree DEF tree
  <1>3. /\ steady = Reached(disk) \cap Metadata /\ Range(files) \subseteq steady
        /\ valErrMap \subseteq ExpectedErrs
    BY DEF ExactInv
  <1>4. pc = "check" /\ UNCHANGED files /\ files # << >> /\ \A i \in Reached(disk) : Done(i)
    BY DEF ValidateNext, Return, ExactInv
  <1>5. CASE ValidateNext
    <2> DEFINE f == files[checked + 1]
               err == validateFile(f)
    <2>1. checked < Len(files)
      BY <1>5 DEF ValidateNext
    <2>2. /\ pc' = pc
          /\ valErrMap' = IF err = NoError THEN valErrMap ELSE valErrMap \cup {<<parent[f], err>>}
      BY <1>5, NeverFatal DEF ValidateNext
    <2>3. f \in Range(files)
      BY <2>1 DEF Range, TypeOK
    <2>4. err # NoError => <<parent[f], err>> \in ExpectedErrs
      BY <1>3, <2>3 DEF ExpectedErrs
    <2>5. valErrMap \subseteq valErrMap' /\ valErrMap' \subseteq ExpectedErrs
      BY <1>3, <2>2, <2>4
    <2>6. \A i \in Reached(disk) : Done(i)'
      BY <1>2, <1>4, <2>5 DEF Done, Range
    <2> QED
      BY <1>2, <1>3, <1>4, <2>2, <2>5, <2>6 DEF ExactInv, Range
  <1>6. CASE Return
    <2>1. pc' = "done" /\ UNCHANGED valErrMap
      BY <1>6 DEF Return
    <2>2. \A i \in Reached(disk) : Done(i)'
      BY <1>2, <1>4, <2>1 DEF Done, Range
    <2> QED
      BY <1>2, <1>3, <1>4, <2>1, <2>2 DEF ExactInv, Range
  <1> QED
    BY <1>5, <1>6

\* ExactInv holds throughout Repo.Validate.
LEMMA ExactHolds == Spec => []ExactInv
  <1>1. Init => ExactInv
    BY DEF Init, ExactInv, Range
  <1>2. TypeOK /\ WalkInv /\ JudgedInv /\ ListedInv /\ ExactInv /\ [Next]_vars => ExactInv'
    <2> SUFFICES ASSUME TypeOK, WalkInv, JudgedInv, ListedInv, ExactInv, [Next]_vars PROVE ExactInv'
      OBVIOUS
    <2>1. CASE edits # 0
      <3>1. edits' # 0
        <4>1. CASE Step
          BY <2>1, <4>1, StepKeepsTree DEF tree
        <4>2. CASE Remove \/ Write
          BY <2>1, <4>2 DEF Remove, Write, Editing, TypeOK
        <4> QED
          BY <2>1, <4>1, <4>2 DEF Next, vars
      <3> QED
        BY <3>1 DEF ExactInv
    <2>2. CASE edits = 0 /\ (Remove \/ Write)
      BY <2>2 DEF Remove, Write, Editing, ExactInv
    <2>3. CASE edits = 0 /\ (VisitVanished \/ VisitVanishing)
      BY <2>3 DEF VisitVanished, VisitVanishing, Visiting, ListedInv
    <2>4. CASE edits = 0 /\ UNCHANGED vars
      <3>1. ExpectedErrs' = ExpectedErrs /\ Blocked' = Blocked /\ Reached(disk)' = Reached(disk)
        BY <2>4 DEF vars, ExpectedErrs, Blocked, HasMetadata, Reached, validateFile, PRRFile
      <3>2. \A i : (Listed(i)' <=> Listed(i)) /\ (Done(i)' <=> Done(i))
        BY <2>4 DEF vars, Listed, Done, Bare, HasMetadata, Reached, Range
      <3>3. /\ edits' = edits /\ pc' = pc /\ pending' = pending /\ files' = files
            /\ steady' = steady /\ valErrMap' = valErrMap /\ Range(files)' = Range(files)
        BY <2>4 DEF vars, Range
      <3> QED
        BY <3>1, <3>2, <3>3 DEF ExactInv
    <2> QED
      BY <2>1, <2>2, <2>3, <2>4, WalkKeepsExact, CheckKeepsExact DEF Next, Step
  <1> QED
    BY <1>1, <1>2, TypeCorrect, WalkAndJudged, ListedExists, PTL DEF Spec

\* On a tree that nobody changes, the report of Repo.Validate has every error there
\* is and no other (validate.go:47-131), for every tree of KEPs.
THEOREM ReportIsExact == Spec => []ExactReport
  <1>1. ExactInv /\ SteadyKEPsAreJudged => ExactReport
    <2> SUFFICES ASSUME ExactInv, SteadyKEPsAreJudged, pc = "done", edits = 0
                 PROVE  ExpectedErrs \subseteq valErrMap
      BY DEF ExactReport, ExactInv
    <2>1. /\ steady = Reached(disk) \cap Metadata
          /\ \A i \in Reached(disk) : Done(i)
      BY DEF ExactInv
    <2>2. ASSUME NEW m \in Reached(disk) \cap Metadata, validateFile(m) # NoError
          PROVE  <<parent[m], validateFile(m)>> \in valErrMap
      BY <2>1, <2>2 DEF SteadyKEPsAreJudged
    <2>3. ASSUME NEW i \in Reached(disk), Bare(i)
          PROVE  <<parent[i], Error("metadata file missing")>> \in valErrMap
      BY <2>1, <2>3 DEF Done
    <2> QED
      BY <2>2, <2>3 DEF ExpectedErrs, Bare
  <1> QED
    BY <1>1, ExactHolds, SteadyJudged, PTL

\* As the code is, the kep.yaml files that cannot be opened change nothing: on a
\* tree that nobody changes there is an error exactly when it is blocked.
Decided == edits = 0 => (pc = "failed" => Blocked) /\ (pc = "done" => ~Blocked)

\* Whether Repo.Validate gives up is decided by the walk alone.
LEMMA WalkDecides == Spec => []Decided
  <1>1. TypeOK /\ ExactInv => Decided
    <2> SUFFICES ASSUME TypeOK, ExactInv, edits = 0, pc = "done" PROVE ~Blocked
      BY DEF Decided, ExactInv
    <2>1. /\ steady = Reached(disk) \cap Metadata /\ Range(files) \subseteq steady
          /\ files # << >> /\ \A i \in Reached(disk) : Done(i)
      BY DEF ExactInv
    <2>2. Range(files) # {}
      <3>1. Len(files) \in Nat /\ Len(files) # 0
        BY <2>1 DEF TypeOK
      <3>2. 1 \in DOMAIN files
        BY <3>1 DEF TypeOK
      <3> QED
        BY <3>2 DEF Range
    <2> QED
      BY <2>1, <2>2 DEF Blocked, Done
  <1> QED
    BY <1>1, TypeCorrect, ExactHolds, PTL

\* On a tree that nobody changes and whose kep.yaml files can be opened,
\* Repo.Validate returns an error instead of a report exactly when a directory on
\* its way cannot be read (validate.go:50) or there is no KEP (validate.go:92), for
\* every tree of KEPs.
THEOREM GivesUpWhenBlocked == Spec => []GivesUpExactlyWhenBlocked
  <1>1. Decided => GivesUpExactlyWhenBlocked
    BY DEF Decided, GivesUpExactlyWhenBlocked
  <1> QED
    BY <1>1, WalkDecides, PTL

----------------------------------------------------------------------------
(* The refinement. *)

\* Repo.Validate implements the gate, for every tree of KEPs and every sequence of
\* edits: one final verdict, with every error that is due, exact unless the tree was
\* edited, and no giving up or panic without a reason (validate.go:36-138).
THEOREM ValidateIsTheGate == Spec => ImplementsGate
  <1> DEFINE Safe == /\ SteadyKEPsAreJudged /\ ExactReport /\ Decided
                     /\ PanicOnlyIfVanished
             due == {<<parent[m], validateFile(m)>> : m \in {k \in steady : validateFile(k) # NoError}}
  <1>1. Init => Gate!Init
    BY DEF Init, Gate!Init
  <1>2. TypeOK /\ WalkInv /\ Safe' /\ [Next]_vars => [Gate!Next]_(Gate!vars)
    <2> SUFFICES ASSUME TypeOK, WalkInv, Safe', [Next]_vars PROVE [Gate!Next]_(Gate!vars)
      OBVIOUS
    <2>1. CASE Step
      <3>1. /\ pc \in {"idle", "walk", "check"}
            /\ pc' \in {"walk", "check", "done", "failed", "panicked"}
        BY <2>1 DEF Step, Start, VisitDir, VisitMetadata, VisitReadme, VisitOther, VisitVanished,
                    VisitVanishing, FinishWalk, ValidateNext, Return, Visiting
      <3>2. /\ due' = due /\ edits' = edits /\ ExpectedErrs' = ExpectedErrs /\ Blocked' = Blocked
            /\ Unopened' = Unopened
        <4>1. \A f : validateFile(f)' = validateFile(f)
          BY <2>1, StepKeepsTree DEF validateFile, PRRFile, tree
        <4> QED
          BY <2>1, <4>1, StepKeepsTree DEF tree, Unopened
      <3>3. CASE pc' = "done"
        <4>1. due \subseteq valErrMap'
          <5>1. due' \subseteq valErrMap'
            BY <3>3 DEF SteadyKEPsAreJudged
          <5> QED
            BY <3>2, <5>1
        <4>2. ~(edits > 0) => ~Blocked /\ valErrMap' = ExpectedErrs
          BY <3>2, <3>3 DEF ExactReport, Decided, TypeOK
        <4>3. Gate!Judge
          BY <3>1, <3>2, <3>3, <4>1, <4>2 DEF Gate!Judge, Gate!tree
        <4> QED
          BY <4>3 DEF Gate!Next
      <3>4. CASE pc' = "failed"
        <4>1. Blocked \/ edits > 0
          BY <3>2, <3>4 DEF Decided, TypeOK
        <4>2. Gate!GiveUp
          BY <3>1, <3>2, <3>4, <4>1 DEF Gate!GiveUp, Gate!tree
        <4> QED
          BY <4>2 DEF Gate!Next
      <3>5. CASE pc' = "panicked"
        <4>1. Gate!Panic
          BY <3>1, <3>2, <3>5 DEF Gate!Panic, Gate!tree, PanicOnlyIfVanished
        <4> QED
          BY <4>1 DEF Gate!Next
      <3>6. CASE pc' \in {"walk", "check"}
        BY <3>1, <3>2, <3>6 DEF Gate!vars
      <3> QED
        BY <3>1, <3>3, <3>4, <3>5, <3>6
    <2>2. CASE Remove \/ Write
      <3>1. pc \in {"walk", "check"} /\ pc' = pc /\ edits' = edits + 1
        BY <2>2 DEF Remove, Write, Editing, Running
      <3>2. due' \subseteq due
        BY <2>2, EditShrinksDue
      <3>3. Gate!Edit
        BY <3>1, <3>2 DEF Gate!Edit, TypeOK
      <3> QED
        BY <3>3 DEF Gate!Next
    <2>3. CASE UNCHANGED vars
      <3>1. /\ ExpectedErrs' = ExpectedErrs /\ Blocked' = Blocked /\ due' = due
            /\ Unopened' = Unopened
        BY <2>3 DEF vars, ExpectedErrs, Blocked, Unopened, HasMetadata, Reached, validateFile, PRRFile
      <3> QED
        BY <2>3, <3>1 DEF vars, Gate!vars
    <2> QED
      BY <2>1, <2>2, <2>3 DEF Next
  <1> QED
    BY <1>1, <1>2, TypeCorrect, WalkAndJudged, SteadyJudged, ReportIsExact, WalkDecides,
       PanicOnlyByVanishing, PTL DEF Spec, ImplementsGate, Gate!Spec
=============================================================================
