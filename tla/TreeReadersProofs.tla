------------------------- MODULE TreeReadersProofs -------------------------
(***************************************************************************)
(* Proofs about TreeReaders, the loader of one SIG and kepify, for any     *)
(* working tree, any files in it and any number of changes to it.          *)
(***************************************************************************)
EXTENDS TreeReaders, FileTreeProofs, FiniteSetTheorems

ElementsOf(seq) == {seq[i] : i \in DOMAIN seq}

\* The files found and not yet read.
Listed == ElementsOf(files)

\* The files read.
Read == {k[1] : k \in kept}

\* What the walks have in common: a name that was listed is there or was removed.
TreeInv ==
    /\ DOMAIN content = Files /\ Root \in disk
    /\ removed \subseteq touched
    /\ pending \cup Listed \subseteq disk \cup removed
    /\ \A f \in Files \cap disk : <<f, content[f]>> \in seen
    /\ edits = 0 => touched = {}
    /\ pc = "idle" => edits = 0 /\ pending = {} /\ files = << >> /\ kept = {}
    /\ program = "kepctl" => pc \in {"idle", "walk", "returned", "error", "panicked"}
    /\ program = "kepify" => pc \notin {"returned", "error", "panicked"}

\* The KEPs that were left alone and that the loader has to show.
Due == {m \in Shown(disk \cup touched) : PathTo(m) \cap touched = {}}

\* What the loader has found, read and still to find.
LoaderInv ==
    /\ \A i \in pending \cup Listed : SigPath \in PathTo(i)
    /\ Listed \subseteq KepFiles
    /\ \A k \in kept : \E s \in seen : s[1] = k[1] /\ s[2] # Unreadable /\ firstDocument(s[2]) = k[2]
    /\ pc \in {"walk", "returned"} => \A m \in Due :
         \/ PathTo(m) \cap pending # {}
         \/ m \in Listed
         \/ ~loadError(content[m]) /\ <<m, firstDocument(content[m])>> \in kept
    /\ pc = "returned" => pending = {} /\ files = << >>
    /\ LoadFailsForACause

\* On a tree that nobody changes: the walk is only on its way to what it has to show.
OneStepInv ==
    /\ \A i \in pending : \A m \in {f \in disk \cap KepFiles : SigPath \in PathTo(f)} :
         \A a \in PathTo(i) : parent[a] = parent[m] => a <= m \/ (a = i /\ m \in pending)
    /\ Listed \subseteq Shown(disk)
    /\ \A k \in kept : \E m \in Shown(disk) : k = <<m, firstDocument(content[m])>>
    /\ pc \in {"walk", "returned"} => \A d \in denied : Reaches(disk, d) => PathTo(d) \cap pending # {}
    /\ LoadIsOneStep

\* The KEPs in Markdown that were left alone.
Awaited == {m \in Markdown \cap disk : PathTo(m) \cap touched = {}}

\* What kepify has found, parsed and still to find.
KepifyInv ==
    /\ Listed \subseteq Markdown
    /\ \A k \in kept : \E s \in seen : /\ s[1] = k[1] /\ k[1] \in Markdown /\ s[2] # Unreadable
                                       /\ metadata(s[2]) = k[2] /\ ParseKEP(k[2]) = NoError
    /\ pc \in {"walk", "groups", "parse", "create", "write"} =>
         \A m \in Awaited :
             \/ PathTo(m) \cap pending # {}
             \/ m \in Listed
             \/ <<m, metadata(content[m])>> \in kept
    /\ pc \in {"groups", "parse", "create", "write"} => pending = {} /\ found # {} /\ found = Listed \cup Read
    /\ pc \in {"create", "write"} => files = << >>
    /\ pc \in {"idle", "walk", "groups"} => kept = {} /\ opened = 0
    /\ output # OldOutput => pc \in {"write", "done", "exited", "killed"} /\ found # {} /\ found = Read
    /\ output = Truncated => pc \in {"write", "killed"} \/ failures > 0
    /\ pc = "done" => OutputIsWhole

\* On a tree that nobody changes kepify takes each file once, with one descriptor.
LimitInv ==
    /\ \A f \in Listed, j \in pending : f < j
    /\ \A i, j \in DOMAIN files : files[i] = files[j] => i = j
    /\ Listed \cap Read = {}
    /\ pc \in {"groups", "parse", "create", "write"} => Markdown \cap disk = Listed \cup Read
    /\ pc = "parse" => opened = Cardinality(Read)
    /\ pc \in {"create", "write"} => Cardinality(Read) <= MaxOpen
    /\ \A k \in kept : content[k[1]] # Unreadable /\ ~parseError(content[k[1]])
    /\ ConvertsUpToTheLimit

----------------------------------------------------------------------------
(* Types *)

\* Files and directories are told apart.
LEMMA FileFacts ==
    /\ Files \subseteq Paths /\ KepFiles \subseteq Files /\ Markdown \subseteq Files
    /\ \A f \in Files : ~isDir[f]
    /\ \A i \in Paths : \A f \in Files : f \in PathTo(i) => f = i
  BY TreeFacts DEF Files, KepFiles, Metadata, Markdown

\* A file that is found is added to the list.
LEMMA Appended ==
  ASSUME NEW X, NEW s \in Seq(X), NEW x \in X
  PROVE  /\ Append(s, x) \in Seq(X) /\ ElementsOf(Append(s, x)) = ElementsOf(s) \cup {x}
         /\ x \notin ElementsOf(s) /\ (\A i, j \in DOMAIN s : s[i] = s[j] => i = j) =>
              \A i, j \in DOMAIN Append(s, x) : Append(s, x)[i] = Append(s, x)[j] => i = j
  <1> DEFINE t == Append(s, x)
  <1>1. /\ Len(s) \in Nat /\ DOMAIN s = 1 .. Len(s) /\ t \in Seq(X) /\ DOMAIN t = 1 .. Len(s) + 1
        /\ t[Len(s) + 1] = x /\ \A i \in 1 .. Len(s) : t[i] = s[i]
    OBVIOUS
  <1> HIDE DEF t
  <1>2. /\ \A i \in DOMAIN t : i \in DOMAIN s \/ i = Len(s) + 1
        /\ \A i \in DOMAIN s : i \in DOMAIN t
        /\ Len(s) + 1 \in DOMAIN t
    BY <1>1
  <1>3. ElementsOf(t) = ElementsOf(s) \cup {x}
    BY <1>1, <1>2 DEF ElementsOf
  <1>4. ASSUME x \notin ElementsOf(s), \A i, j \in DOMAIN s : s[i] = s[j] => i = j
        PROVE  \A i, j \in DOMAIN t : t[i] = t[j] => i = j
    BY <1>1, <1>2, <1>4 DEF ElementsOf
  <1> QED
    BY <1>1, <1>3, <1>4 DEF t

\* The next file is taken from the list.
LEMMA Taken ==
  ASSUME NEW X, NEW s \in Seq(X), s # << >>
  PROVE  /\ Head(s) \in X /\ Tail(s) \in Seq(X)
         /\ ElementsOf(s) = {Head(s)} \cup ElementsOf(Tail(s))
         /\ (\A i, j \in DOMAIN s : s[i] = s[j] => i = j) =>
              /\ Head(s) \notin ElementsOf(Tail(s))
              /\ \A i, j \in DOMAIN Tail(s) : Tail(s)[i] = Tail(s)[j] => i = j
  <1> DEFINE t == Tail(s)
  <1>1. /\ Len(s) \in Nat \ {0} /\ DOMAIN s = 1 .. Len(s) /\ Head(s) = s[1] /\ s[1] \in X
        /\ t \in Seq(X) /\ Len(t) = Len(s) - 1
    OBVIOUS
  <1>2. DOMAIN t = 1 .. Len(s) - 1 /\ \A i \in 1 .. Len(s) - 1 : t[i] = s[i + 1]
    BY <1>1
  <1> HIDE DEF t
  <1>3. ElementsOf(s) \subseteq {Head(s)} \cup ElementsOf(t)
    <2> SUFFICES ASSUME NEW i \in 1 .. Len(s), i # 1 PROVE s[i] \in ElementsOf(t)
      BY <1>1 DEF ElementsOf
    <2>1. i - 1 \in 1 .. Len(s) - 1 /\ (i - 1) + 1 = i
      BY <1>1
    <2> QED
      BY <1>2, <2>1 DEF ElementsOf
  <1>4. {Head(s)} \cup ElementsOf(t) \subseteq ElementsOf(s)
    <2>1. Head(s) \in ElementsOf(s)
      BY <1>1 DEF ElementsOf
    <2>2. ASSUME NEW i \in 1 .. Len(s) - 1 PROVE t[i] \in ElementsOf(s)
      <3>1. i + 1 \in 1 .. Len(s)
        BY <1>1
      <3> QED
        BY <1>1, <1>2, <3>1 DEF ElementsOf
    <2>3. ElementsOf(t) \subseteq ElementsOf(s)
      BY <1>2, <2>2 DEF ElementsOf
    <2> QED
      BY <2>1, <2>3
  <1>5. ASSUME \A i, j \in DOMAIN s : s[i] = s[j] => i = j
        PROVE  Head(s) \notin ElementsOf(t) /\ \A i, j \in DOMAIN t : t[i] = t[j] => i = j
    <2>1. \A i \in DOMAIN t : i + 1 \in DOMAIN s /\ i + 1 # 1 /\ t[i] = s[i + 1] /\ i \in Nat
      BY <1>1, <1>2
    <2> QED
      BY <1>1, <1>5, <2>1 DEF ElementsOf
  <1> QED
    BY <1>1, <1>3, <1>4, <1>5 DEF t

\* A list that is not there has no files.
LEMMA NoneListed == ElementsOf(<< >>) = {} /\ \A s : s = << >> => ElementsOf(s) = {}
  BY DEF ElementsOf

\* The tree and its history, in TypeOK and in TreeInv.
TreeTypes ==
    /\ disk \in SUBSET Paths /\ Closed(disk) /\ denied \subseteq disk \ Files
    /\ \A f \in Files : content[f] = NotExist <=> f \notin disk
    /\ touched \in SUBSET Paths /\ removed \in SUBSET Paths
    /\ edits \in 0 .. MaxEdits
    /\ DOMAIN content = Files /\ Root \in disk
    /\ removed \subseteq touched
    /\ \A f \in Files \cap disk : <<f, content[f]>> \in seen
    /\ edits = 0 => touched = {}

\* The program, in TypeOK and in TreeInv.
ProgramTypes ==
    /\ pending \in SUBSET Paths /\ found \in SUBSET Paths
    /\ pc \in {"idle", "walk", "returned", "error", "panicked", "groups", "parse", "create", "write",
              "done", "exited", "crashed", "killed"}
    /\ files \in Seq(Files)
    /\ kept \subseteq Files \X Proposals
    /\ opened \in 0 .. MaxOpen /\ failures \in 0 .. MaxFailures
    /\ program = "kepctl" => opened = 0 /\ found = {} /\ output = OldOutput
    /\ pending \cup Listed \subseteq disk \cup removed
    /\ pc = "idle" => edits = 0 /\ pending = {} /\ files = << >> /\ kept = {}
    /\ program = "kepctl" => pc \in {"idle", "walk", "returned", "error", "panicked"}
    /\ program = "kepify" => pc \notin {"returned", "error", "panicked"}

\* TypeOK and TreeInv are these parts.
LEMMA Parts == TypeOK /\ TreeInv <=> TreeTypes /\ ProgramTypes
  <1>1. {touched, removed, pending, found} \subseteq SUBSET Paths <=>
          /\ touched \in SUBSET Paths /\ removed \in SUBSET Paths
          /\ pending \in SUBSET Paths /\ found \in SUBSET Paths
    OBVIOUS
  <1> QED
    BY <1>1, Zenon DEF TypeOK, TreeInv, TreeTypes, ProgramTypes

\* What a change to the tree may do while a program runs.
EditEffect ==
    /\ Running /\ UNCHANGED <<pc, pending, files, kept>> /\ edits' # 0
    /\ disk \cup removed \subseteq disk' \cup removed'
    /\ disk \cup touched \subseteq disk' \cup touched' /\ disk' \cup touched' \subseteq disk \cup touched'
    /\ touched \subseteq touched' /\ removed \subseteq removed' /\ seen \subseteq seen'
    /\ \A f \in Files \ touched' : content'[f] = content[f]

\* The tree stays a tree, and its history says what has changed.
LEMMA EditsKeepTree == TreeTypes /\ (Remove \/ Write) => TreeTypes' /\ EditEffect
  <1> SUFFICES ASSUME TreeTypes, Remove \/ Write PROVE TreeTypes' /\ EditEffect
    OBVIOUS
  <1>1. MaxEdits \in Nat /\ NotExist \notin Contents /\ edits \in 0 .. MaxEdits
    BY EditConstants DEF TreeTypes
  <1>2. ASSUME NEW paths, Edit(paths)
        PROVE  edits' \in 0 .. MaxEdits /\ edits' # 0
    BY <1>1, <1>2 DEF Edit
  <1>3. CASE Remove
    <2>1. PICK i \in disk \ {Root} :
            LET gone == {j \in disk : i \in PathTo(j)}
            IN  /\ disk' = disk \ gone
                /\ denied' = denied \ gone
                /\ content' = [f \in Files |-> IF f \in gone THEN NotExist ELSE content[f]]
                /\ removed' = removed \cup gone
                /\ Edit(gone)
      BY <1>3 DEF Remove
    <2> DEFINE gone == {j \in disk : i \in PathTo(j)}
    <2>2. /\ disk' = disk \ gone
          /\ denied' = denied \ gone
          /\ content' = [f \in Files |-> IF f \in gone THEN NotExist ELSE content[f]]
          /\ removed' = removed \cup gone
          /\ Edit(gone)
      BY <2>1
    <2>3. Root \notin gone
      <3>1. PathTo(Root) = {Root}
        BY TreeFacts, TreeIsATree DEF PathTo
      <3> QED
        BY <3>1
    <2>4. Closed(disk')
      <3> SUFFICES ASSUME NEW j \in disk', NEW a \in PathTo(j) PROVE a \in disk'
        BY DEF Closed
      <3>1. j \in disk /\ j \in Paths /\ a \in disk /\ i \notin PathTo(j)
        BY <2>2 DEF TreeTypes, Closed
      <3>2. PathTo(a) \subseteq PathTo(j)
        BY <3>1, PathsNest
      <3> QED
        BY <2>2, <3>1, <3>2
    <2>5. gone \subseteq disk
      OBVIOUS
    <2> HIDE DEF gone
    <2>6. /\ touched' = touched \cup gone /\ Running /\ UNCHANGED <<pc, pending, files, kept>>
          /\ seen' = seen \cup {<<f, content'[f]>> : f \in Files \cap disk'}
      BY <2>2 DEF Edit
    <2>7. edits' \in 0 .. MaxEdits /\ edits' # 0
      BY <1>2, <2>2
    <2>8. TreeTypes'
      <3>1. disk' \in SUBSET Paths /\ denied' \subseteq disk' \ Files /\ Root \in disk'
        BY <2>2, <2>3 DEF TreeTypes
      <3>2. DOMAIN content' = Files /\ \A f \in Files : content'[f] = NotExist <=> f \notin disk'
        BY <2>2, <2>5 DEF TreeTypes
      <3>3. touched' \in SUBSET Paths /\ removed' \in SUBSET Paths /\ removed' \subseteq touched'
        BY <2>2, <2>5, <2>6 DEF TreeTypes
      <3>4. \A f \in Files \cap disk' : <<f, content'[f]>> \in seen'
        BY <2>6
      <3> QED
        BY <2>4, <2>7, <3>1, <3>2, <3>3, <3>4 DEF TreeTypes
    <2>9. EditEffect
      <3>1. \A f \in Files \ touched' : content'[f] = content[f]
        BY <2>2, <2>6
      <3> QED
        BY <2>2, <2>5, <2>6, <2>7, <3>1 DEF EditEffect
    <2> QED
      BY <2>8, <2>9
  <1>4. CASE Write
    <2>1. PICK f \in Files, c \in Contents :
            /\ disk' = disk \cup PathTo(f)
            /\ content' = [content EXCEPT ![f] = c]
            /\ Edit({f} \cup (PathTo(f) \ disk))
            /\ UNCHANGED <<denied, removed>>
      BY <1>4 DEF Write
    <2>2. f \in Paths /\ f \in PathTo(f) /\ PathTo(f) \subseteq Paths /\ \A a \in PathTo(f) : PathTo(a) \subseteq PathTo(f)
      BY FileFacts, TreeFacts, PathsNest
    <2>3. /\ touched' = touched \cup {f} \cup (PathTo(f) \ disk) /\ Running /\ UNCHANGED <<pc, pending, files, kept>>
          /\ seen' = seen \cup {<<g, content'[g]>> : g \in Files \cap disk'}
      BY <2>1 DEF Edit
    <2>4. edits' \in 0 .. MaxEdits /\ edits' # 0
      BY <1>2, <2>1
    <2>5. TreeTypes'
      <3>1. disk' \in SUBSET Paths /\ denied' \subseteq disk' \ Files /\ Root \in disk'
        BY <2>1, <2>2 DEF TreeTypes
      <3>2. Closed(disk')
        BY <2>1, <2>2 DEF TreeTypes, Closed
      <3>3. \A g \in PathTo(f) : g \in Files => g = f
        BY <2>2, FileFacts
      <3>4. DOMAIN content' = Files /\ content'[f] = c /\ \A g \in Files : g # f => content'[g] = content[g]
        BY <2>1 DEF TreeTypes
      <3>5. \A g \in Files : content'[g] = NotExist <=> g \notin disk'
        BY <1>1, <2>1, <2>2, <3>3, <3>4 DEF TreeTypes
      <3>6. touched' \in SUBSET Paths /\ removed' \in SUBSET Paths /\ removed' \subseteq touched'
        BY <2>1, <2>2, <2>3 DEF TreeTypes
      <3>7. \A g \in Files \cap disk' : <<g, content'[g]>> \in seen'
        BY <2>3
      <3> QED
        BY <2>4, <3>1, <3>2, <3>4, <3>5, <3>6, <3>7 DEF TreeTypes
    <2>6. EditEffect
      <3>1. \A g \in Files \ touched' : content'[g] = content[g]
        BY <2>1, <2>3 DEF TreeTypes
      <3> QED
        BY <2>1, <2>3, <2>4, <3>1 DEF EditEffect
    <2> QED
      BY <2>5, <2>6
  <1> QED
    BY <1>3, <1>4

\* A directory that is listed, or a file that is passed: the walk has only names
\* that there were.
LEMMA WalkNames ==
  ASSUME TreeTypes, ProgramTypes, NEW d \in Paths
  PROVE  Lists(d) \subseteq disk /\ Lists(d) \subseteq Paths /\ pending \subseteq Paths
  BY DEF TreeTypes, ProgramTypes, Lists, Children

\* A step of a program leaves the tree alone and keeps the types.
LEMMA StepKeepsTypes ==
  TreeTypes /\ ProgramTypes /\ (Step \/ (program = "kepify" /\ Kill /\ UNCHANGED program)) =>
      TreeTypes' /\ ProgramTypes' /\ UNCHANGED worktree
  <1> SUFFICES ASSUME TreeTypes, ProgramTypes, Step \/ (program = "kepify" /\ Kill /\ UNCHANGED program)
               PROVE  TreeTypes' /\ ProgramTypes' /\ UNCHANGED worktree
    OBVIOUS
  <1>1. UNCHANGED worktree
    BY DEF Step, LoaderStep, KepifyStep, Kill, findLocalKEPMeta, VisitDir, VisitMetadata, VisitOther, VisitVanished,
           LoadKEP, LoadReturns, Start, WalkDir, WalkFile, WalkVanished, WalkEnds, Fetch, ParseFile, ParseEnds,
           CreateOutput, WriteOutput
  <1>2. TreeTypes'
    BY <1>1 DEF TreeTypes, worktree, Closed
  <1>3. UNCHANGED <<disk, removed, edits, program>>
    BY <1>1 DEF worktree, Step
  <1>4. MaxOpen \in Nat /\ MaxFailures \in Nat /\ opened \in 0 .. MaxOpen /\ failures \in 0 .. MaxFailures
    BY KepifyConstants DEF ProgramTypes
  <1>5. pending \in SUBSET Paths /\ files \in Seq(Files) /\ kept \subseteq Files \X Proposals
        /\ pending \subseteq disk \cup removed /\ ElementsOf(files) \subseteq disk \cup removed
    BY DEF ProgramTypes, Listed
  <1>6. SUFFICES ProgramTypes'
    BY <1>1, <1>2
  <1>7. ASSUME pc' # "idle", UNCHANGED kepifyVars, pending' \in SUBSET Paths, pending' \subseteq disk \cup removed,
               files' \in Seq(Files), ElementsOf(files') \subseteq disk \cup removed, kept' \subseteq Files \X Proposals,
               \/ program = "kepctl" /\ pc' \in {"walk", "returned", "error", "panicked"}
               \/ program = "kepify" /\ pc' \in {"walk", "exited", "killed"}
        PROVE  ProgramTypes'
    BY <1>3, <1>7 DEF ProgramTypes, Listed, kepifyVars
  <1>8. CASE program = "kepctl" /\ LoaderStep /\ UNCHANGED kepifyVars
    <2>1. CASE findLocalKEPMeta
      <3>1. pending' \in SUBSET Paths /\ pending' \subseteq disk \cup removed /\ pc' \in {"walk", "returned"}
        BY <1>5, <2>1 DEF findLocalKEPMeta, TreeTypes
      <3> QED
        BY <1>5, <1>7, <1>8, <2>1, <3>1 DEF findLocalKEPMeta
    <2>2. CASE VisitDir
      <3>1. PICK d \in disk : pending' = pending \/ pending' = (pending \ {d}) \cup Lists(d)
        BY <2>2 DEF VisitDir
      <3>2. pending' \in SUBSET Paths /\ pending' \subseteq disk \cup removed
        BY <1>5, <3>1, WalkNames DEF TreeTypes
      <3>3. pc' \in {"walk", "error"} /\ UNCHANGED <<files, kept>>
        BY <2>2 DEF VisitDir, Visiting
      <3> QED
        BY <1>5, <1>7, <1>8, <3>2, <3>3
    <2>3. CASE VisitMetadata
      <3>1. PICK i \in KepFiles : i \in pending /\ files' = Append(files, i) /\ pending' \subseteq pending
                                  /\ pc = "walk" /\ UNCHANGED <<pc, kept>>
        BY <2>3 DEF VisitMetadata, Visiting
      <3>2. files' \in Seq(Files) /\ ElementsOf(files') = ElementsOf(files) \cup {i}
        BY <1>5, <3>1, Appended, FileFacts
      <3> QED
        BY <1>5, <1>7, <1>8, <3>1, <3>2
    <2>4. CASE VisitOther
      <3>1. pending' \subseteq pending /\ pc' = "walk" /\ UNCHANGED <<files, kept>>
        BY <2>4 DEF VisitOther, Visiting
      <3> QED
        BY <1>5, <1>7, <1>8, <3>1
    <2>5. CASE VisitVanished
      <3>1. pc' \in {"panicked", "error"} /\ UNCHANGED <<pending, files, kept>>
        BY <2>5 DEF VisitVanished
      <3> QED
        BY <1>5, <1>7, <1>8, <3>1
    <2>6. CASE LoadKEP
      <3> DEFINE f == Head(files)
                 doc == firstDocument(content[f])
      <3>1. f \in Files /\ Tail(files) \in Seq(Files) /\ ElementsOf(files) = {f} \cup ElementsOf(Tail(files))
        BY <1>5, <2>6, Taken DEF LoadKEP
      <3>2. \/ kept' = {} /\ UNCHANGED files /\ pc' = "error"
            \/ kept' = kept \cup {<<f, doc>>} /\ doc \in Proposals /\ files' = Tail(files) /\ pc' = "walk"
        BY <2>6 DEF LoadKEP, loadError
      <3> HIDE DEF f, doc
      <3>3. kept' \subseteq Files \X Proposals
        BY <1>5, <3>1, <3>2
      <3>4. UNCHANGED pending
        BY <2>6 DEF LoadKEP
      <3>5. files' \in Seq(Files) /\ ElementsOf(files') \subseteq disk \cup removed /\ pc' \in {"walk", "error"}
        BY <1>5, <3>1, <3>2
      <3> QED
        BY <1>5, <1>7, <1>8, <3>3, <3>4, <3>5
    <2>7. CASE LoadReturns
      <3>1. pc' = "returned" /\ UNCHANGED <<pending, files, kept>>
        BY <2>7 DEF LoadReturns
      <3> QED
        BY <1>5, <1>7, <1>8, <3>1
    <2> QED
      BY <1>8, <2>1, <2>2, <2>3, <2>4, <2>5, <2>6, <2>7 DEF LoaderStep
  <1>9. CASE program = "kepify" /\ (Start \/ WalkDir \/ WalkFile \/ WalkVanished \/ Kill)
    <2>1. CASE Start
      <3>1. pending' = {Root} /\ pc' = "walk" /\ UNCHANGED <<files, kept, kepifyVars>>
        BY <2>1 DEF Start
      <3> QED
        BY <1>5, <1>7, <1>9, <3>1 DEF TreeTypes
    <2>2. CASE WalkDir
      <3>1. PICK d \in disk : pending' = pending \/ pending' = (pending \ {d}) \cup Lists(d)
        BY <2>2 DEF WalkDir
      <3>2. pending' \in SUBSET Paths /\ pending' \subseteq disk \cup removed
        BY <1>5, <3>1, WalkNames DEF TreeTypes
      <3>3. pc' \in {"walk", "exited"} /\ UNCHANGED <<files, kept, kepifyVars>>
        BY <2>2 DEF WalkDir, Visiting
      <3> QED
        BY <1>5, <1>7, <1>9, <3>2, <3>3
    <2>3. CASE WalkFile
      <3>1. PICK i \in Files : i \in pending /\ files' \in {files, Append(files, i)} /\ pending' \subseteq pending
                               /\ pc' = "walk" /\ UNCHANGED <<kept, kepifyVars>>
        BY <2>3 DEF WalkFile, Visiting
      <3>2. files' \in Seq(Files) /\ ElementsOf(files') \subseteq ElementsOf(files) \cup {i}
        <4>1. Append(files, i) \in Seq(Files) /\ ElementsOf(Append(files, i)) = ElementsOf(files) \cup {i}
          BY <1>5, Appended
        <4> QED
          BY <1>5, <3>1, <4>1
      <3> QED
        BY <1>5, <1>7, <1>9, <3>1, <3>2
    <2>4. CASE WalkVanished
      <3>1. pc' = "exited" /\ UNCHANGED <<pending, files, kept, kepifyVars>>
        BY <2>4 DEF WalkVanished
      <3> QED
        BY <1>5, <1>7, <1>9, <3>1
    <2>5. CASE Kill
      <3>1. pc' = "killed" /\ UNCHANGED <<pending, files, kept, kepifyVars>>
        BY <2>5 DEF Kill
      <3> QED
        BY <1>5, <1>7, <1>9, <3>1
    <2> QED
      BY <1>9, <2>1, <2>2, <2>3, <2>4, <2>5
  <1>10. CASE program = "kepify" /\ WalkEnds
    <2>1. ElementsOf(files) \subseteq Paths
      BY <1>5, FileFacts DEF ElementsOf
    <2> QED
      BY <1>3, <1>10, <2>1 DEF WalkEnds, ProgramTypes, Listed, ElementsOf
  <1>11. CASE program = "kepify" /\ (Fetch \/ CreateOutput \/ WriteOutput)
    <2>1. failures' \in 0 .. MaxFailures
      <3>1. failures' = failures \/ (failures < MaxFailures /\ failures' = failures + 1)
        BY <1>11 DEF Fetch, CreateOutput, WriteOutput, Fails
      <3> QED
        BY <1>4, <3>1
    <2>2. pc' \in {"parse", "exited", "write", "done"} /\ UNCHANGED <<pending, files, kept, found, opened>>
      BY <1>11 DEF Fetch, CreateOutput, WriteOutput
    <2> QED
      BY <1>3, <1>11, <2>1, <2>2 DEF ProgramTypes, Listed
  <1>12. CASE program = "kepify" /\ ParseFile
    <2> DEFINE f == Head(files)
               doc == metadata(content[f])
    <2>1. f \in Files /\ Tail(files) \in Seq(Files) /\ ElementsOf(files) = {f} \cup ElementsOf(Tail(files))
      BY <1>5, <1>12, Taken DEF ParseFile
    <2>2. \/ UNCHANGED <<files, kept>> /\ pc' \in {"exited", "crashed"}
          \/ kept' = kept \cup {<<f, doc>>} /\ doc \in Proposals /\ files' = Tail(files) /\ pc' = "parse"
      BY <1>12 DEF ParseFile, parseError
    <2>3. opened' = 0 \/ (opened # MaxOpen /\ opened' = opened + 1)
      BY <1>12 DEF ParseFile
    <2>4. opened' \in 0 .. MaxOpen
      BY <1>4, <2>3
    <2>5. UNCHANGED <<pending, found, output, failures>>
      BY <1>12 DEF ParseFile
    <2> HIDE DEF f, doc
    <2>6. kept' \subseteq Files \X Proposals
      BY <1>5, <2>1, <2>2
    <2>7. files' \in Seq(Files) /\ ElementsOf(files') \subseteq disk \cup removed /\ pc' \in {"parse", "exited", "crashed"}
      BY <1>5, <2>1, <2>2
    <2> QED
      BY <1>3, <1>12, <2>4, <2>5, <2>6, <2>7 DEF ProgramTypes, Listed
  <1>13. CASE program = "kepify" /\ ParseEnds
    BY <1>3, <1>4, <1>13 DEF ParseEnds, ProgramTypes, Listed
  <1> QED
    BY <1>8, <1>9, <1>10, <1>11, <1>12, <1>13 DEF Step, KepifyStep

\* The types hold at the start.
LEMMA TypesInitially == Init => TreeTypes /\ ProgramTypes
  <1> SUFFICES ASSUME Init PROVE TreeTypes /\ ProgramTypes
    OBVIOUS
  <1>1. PICK t \in Trees : disk = t.disk /\ denied = t.denied /\ content = t.content
    BY DEF Init, TreeInit
  <1>2. /\ disk \in SUBSET Paths /\ Root \in disk /\ Closed(disk) /\ denied \subseteq disk \ Files
        /\ DOMAIN content = Files /\ \A f \in Files : content[f] = NotExist <=> f \notin disk
    BY <1>1, TreesAreTrees
  <1>3. MaxEdits \in Nat /\ MaxOpen \in Nat /\ MaxFailures \in Nat
    BY EditConstants, KepifyConstants
  <1>4. TreeTypes
    BY <1>2, <1>3 DEF Init, TreeInit, TreeTypes
  <1>5. ProgramTypes
    <2>1. << >> \in Seq(Files)
      OBVIOUS
    <2> QED
      BY <1>3, <2>1, NoneListed DEF Init, TreeInit, KepifyInit, ProgramTypes, Listed
  <1> QED
    BY <1>4, <1>5

\* Every step keeps them.
LEMMA TypesGoOn == TreeTypes /\ ProgramTypes /\ [Next]_vars => TreeTypes' /\ ProgramTypes'
  <1> SUFFICES ASSUME TreeTypes, ProgramTypes, [Next]_vars PROVE TreeTypes' /\ ProgramTypes'
    OBVIOUS
  <1>1. CASE Step \/ (program = "kepify" /\ Kill /\ UNCHANGED program)
    BY <1>1, StepKeepsTypes
  <1>2. CASE (Remove \/ Write) /\ UNCHANGED <<kepifyVars, program>>
    <2>1. TreeTypes' /\ EditEffect
      BY <1>2, EditsKeepTree
    <2>2. pc # "idle"
      BY <2>1 DEF EditEffect, Running
    <2>3. ProgramTypes'
      BY <1>2, <2>1, <2>2 DEF EditEffect, ProgramTypes, kepifyVars, Listed
    <2> QED
      BY <2>1, <2>3
  <1>3. CASE UNCHANGED vars
    BY <1>3 DEF vars, treeVars, kepifyVars, TreeTypes, ProgramTypes, Listed, Closed
  <1> QED
    BY <1>1, <1>2, <1>3 DEF Next

\* The types hold, and what the walks have in common.
LEMMA TypesHold == Spec => [](TypeOK /\ TreeInv)
  <1>1. TreeTypes /\ ProgramTypes => TypeOK /\ TreeInv
    BY Parts
  <1> QED
    BY <1>1, TypesInitially, TypesGoOn, PTL DEF Spec

\* The tree stays a tree whatever is changed, and the programs' variables keep their
\* types: only kepify opens descriptors, never more than it may, and writes an output
\* (cmd/kepify/main.go:38-176, repo.go:202-284).
THEOREM TypeCorrect == Spec => []TypeOK
  BY TypesHold, PTL

----------------------------------------------------------------------------
(* The loader of a SIG *)

\* A change to the tree takes KEPs from those that are due and adds none.
LEMMA EditsKeepLoader ==
  ASSUME TreeTypes, ProgramTypes, LoaderInv, Remove \/ Write
  PROVE  LoaderInv'
  <1>1. EditEffect
    BY EditsKeepTree
  <1>2. \A m \in Due' : m \in Due /\ content'[m] = content[m]
    <2> SUFFICES ASSUME NEW m \in Due' PROVE m \in Due /\ content'[m] = content[m]
      OBVIOUS
    <2>1. m \in disk' \cup touched' /\ m \in KepFiles /\ Reaches(disk' \cup touched', m) /\ PathTo(m) \cap touched' = {}
      BY DEF Due, Shown
    <2>2. m \in PathTo(m) /\ m \in Files
      BY <2>1, FileFacts, TreeFacts
    <2>3. m \in disk \cup touched /\ PathTo(m) \cap touched = {} /\ m \notin touched'
      BY <1>1, <2>1, <2>2 DEF EditEffect
    <2>4. Reaches(disk \cup touched, m)
      BY <1>1, <2>1 DEF EditEffect, Reaches
    <2> QED
      BY <1>1, <2>1, <2>2, <2>3, <2>4 DEF EditEffect, Due, Shown
  <1>3. pc' = pc /\ pc \notin {"returned", "error", "panicked"}
    BY <1>1 DEF EditEffect, Running
  <1>4. LoadFailsForACause'
    BY <1>3 DEF LoadFailsForACause
  <1>5. UNCHANGED <<pending, files, kept>> /\ seen \subseteq seen' /\ Listed' = Listed
    BY <1>1 DEF EditEffect, Listed
  <1> QED
    BY <1>2, <1>3, <1>4, <1>5 DEF LoaderInv

\* Every step of the loader keeps LoaderInv: it passes over nothing that is due, and
\* it fails only for a cause.
LEMMA StepsKeepLoader ==
  ASSUME TreeTypes, ProgramTypes, LoaderInv, LoaderStep, UNCHANGED worktree
  PROVE  LoaderInv'
  <1>1. UNCHANGED <<disk, denied, content, removed, touched, seen>> /\ Due' = Due
    BY DEF worktree, Due, Shown, Reaches
  <1>2. pending \subseteq Paths /\ files \in Seq(Files) /\ disk \subseteq Paths /\ removed \subseteq touched
        /\ pending \cup Listed \subseteq disk \cup removed
    BY DEF ProgramTypes, TreeTypes
  <1>3. \A m \in Due : /\ m \in KepFiles /\ m \in Paths /\ m \in disk /\ PathTo(m) \subseteq disk
                       /\ PathTo(m) \cap touched = {} /\ Reaches(disk \cup touched, m) /\ SigPath \in PathTo(m)
    <2> TAKE m \in Due
    <2>1. m \in disk \cup touched /\ m \in KepFiles /\ Reaches(disk \cup touched, m) /\ PathTo(m) \cap touched = {}
      BY DEF Due, Shown
    <2>2. m \in PathTo(m) /\ m \in Paths
      BY <2>1, FileFacts, TreeFacts
    <2>3. m \in disk
      BY <2>1, <2>2
    <2> QED
      BY <2>1, <2>2, <2>3 DEF TreeTypes, Closed, Reaches
  <1>4. CASE findLocalKEPMeta
    <2>1. pc = "idle" /\ touched = {} /\ pending = {} /\ files = << >> /\ kept = {}
      BY <1>4 DEF findLocalKEPMeta, ProgramTypes, TreeTypes
    <2>2. Listed' = {} /\ kept' = {} /\ Listed = {} /\ files' = << >>
      BY <1>4, <2>1, NoneListed DEF findLocalKEPMeta, Listed
    <2>3. CASE SigPath \in disk
      <3>1. pc' = "walk" /\ pending' = {SigPath}
        BY <1>4, <2>3 DEF findLocalKEPMeta
      <3>2. SigPath \in PathTo(SigPath)
        BY <1>2, <2>3, TreeFacts
      <3> QED
        BY <1>1, <1>3, <2>2, <3>1, <3>2 DEF LoaderInv, LoadFailsForACause
    <2>4. CASE SigPath \notin disk
      <3>1. pc' = "returned" /\ pending' = {}
        BY <1>4, <2>1, <2>4 DEF findLocalKEPMeta
      <3>2. Due = {}
        BY <1>3, <2>4
      <3> QED
        BY <1>1, <2>2, <3>1, <3>2 DEF LoaderInv, LoadFailsForACause
    <2> QED
      BY <2>3, <2>4
  <1>5. CASE VisitDir
    <2>1. PICK d \in disk : /\ isDir[d] /\ Visiting(d) /\ UNCHANGED <<files, kept>>
                            /\ IF d \in denied THEN pc' = "error" /\ UNCHANGED pending
                               ELSE pc' = pc /\ pending' = (pending \ {d}) \cup Lists(d)
      BY <1>5 DEF VisitDir
    <2>2. pc = "walk" /\ d \in pending /\ d \in Paths /\ SigPath \in PathTo(d) /\ Listed' = Listed
      BY <1>2, <2>1 DEF Visiting, LoaderInv, Listed
    <2>3. CASE d \in denied
      <3>1. pc' = "error" /\ UNCHANGED pending
        BY <2>1, <2>3
      <3>2. LoadFailsForACause'
        BY <1>1, <2>2, <2>3, <3>1 DEF LoadFailsForACause
      <3> QED
        BY <1>1, <2>1, <2>2, <3>1, <3>2 DEF LoaderInv
    <2>4. CASE d \notin denied
      <3>1. pc' = "walk" /\ pending' = (pending \ {d}) \cup Lists(d)
        BY <2>1, <2>2, <2>4
      <3>2. \A c \in Lists(d) : SigPath \in PathTo(c)
        BY <2>2, ChildPath DEF Lists
      <3>3. \A m \in Due : d \in PathTo(m) => PathTo(m) \cap Lists(d) # {}
        <4> SUFFICES ASSUME NEW m \in Due, d \in PathTo(m) PROVE PathTo(m) \cap Lists(d) # {}
          OBVIOUS
        <4>1. m \in Paths /\ m \in Files /\ d # m /\ PathTo(m) \subseteq disk
          BY <1>3, <2>1, FileFacts
        <4>2. PICK c \in PathTo(m) : parent[c] = d
          BY <4>1, TreeFacts
        <4>3. c \in Lists(d)
          BY <1>2, <4>1, <4>2 DEF Lists, Children
        <4> QED
          BY <4>2, <4>3
      <3>4. \A m \in Due : PathTo(m) \cap pending # {} => PathTo(m) \cap pending' # {}
        BY <3>1, <3>3
      <3>5. LoadFailsForACause'
        BY <3>1 DEF LoadFailsForACause
      <3>6. \A i \in pending' \cup Listed : SigPath \in PathTo(i)
        BY <3>1, <3>2 DEF LoaderInv
      <3> QED
        BY <1>1, <2>1, <2>2, <3>1, <3>4, <3>5, <3>6 DEF LoaderInv
    <2> QED
      BY <2>3, <2>4
  <1>6. CASE VisitMetadata
    <2>1. PICK i \in KepFiles : /\ Visiting(i) /\ files' = Append(files, i)
                                /\ pending' = pending \ Children(parent[i]) /\ UNCHANGED <<pc, kept>>
      BY <1>6 DEF VisitMetadata
    <2>2. /\ i \in Files /\ i \in Paths /\ pc = "walk" /\ i \in pending /\ \A j \in pending : i <= j
          /\ SigPath \in PathTo(i)
      BY <2>1, FileFacts DEF Visiting, LoaderInv
    <2>3. Listed' = Listed \cup {i}
      BY <1>2, <2>1, <2>2, Appended DEF Listed
    <2>4. i \in disk \cup touched
      BY <1>2, <2>2
    <2>5. ASSUME NEW m \in Due, PathTo(m) \cap pending # {} PROVE m = i \/ PathTo(m) \cap pending' # {}
      <3>1. PICK a \in PathTo(m) : a \in pending
        BY <2>5
      <3>2. CASE a \in Children(parent[i])
        <4>1. parent[a] = parent[i] /\ a \in Paths
          BY <3>2 DEF Children
        <4>2. a <= i
          BY <1>3, <2>1, <2>2, <2>4, <3>1, <4>1 DEF Reaches
        <4>3. i <= a /\ a \in Nat /\ i \in Nat
          BY <2>2, <3>1, <4>1, TreeFacts
        <4>4. a = i
          BY <4>2, <4>3
        <4> QED
          BY <1>3, <2>2, <3>1, <4>4, FileFacts
      <3>3. CASE a \notin Children(parent[i])
        BY <2>1, <3>1, <3>3
      <3> QED
        BY <3>2, <3>3
    <2>6. LoadFailsForACause'
      BY <2>1, <2>2 DEF LoadFailsForACause
    <2> QED
      BY <1>1, <2>1, <2>2, <2>3, <2>5, <2>6 DEF LoaderInv
  <1>7. CASE VisitOther
    <2>1. PICK i \in Files \ KepFiles : Visiting(i) /\ pending' = pending \ {i} /\ UNCHANGED <<pc, files, kept>>
      BY <1>7 DEF VisitOther
    <2>2. \A m \in Due : i \notin PathTo(m)
      BY <1>3, FileFacts
    <2>3. pc = "walk" /\ LoadFailsForACause' /\ Listed' = Listed
      BY <2>1 DEF LoadFailsForACause, Visiting, Listed
    <2>4. \A m \in Due : PathTo(m) \cap pending # {} => PathTo(m) \cap pending' # {}
      BY <2>1, <2>2
    <2> QED
      BY <1>1, <2>1, <2>3, <2>4 DEF LoaderInv
  <1>8. CASE VisitVanished
    <2>1. PICK i \in Paths \ disk : Visiting(i) /\ pc' \in {"panicked", "error"} /\ UNCHANGED <<pending, files, kept>>
      BY <1>8 DEF VisitVanished
    <2>2. i \in removed /\ SigPath \in PathTo(i)
      BY <1>2, <2>1 DEF Visiting, LoaderInv
    <2>3. LoadFailsForACause' /\ Listed' = Listed
      BY <1>1, <2>1, <2>2 DEF LoadFailsForACause, Listed
    <2> QED
      BY <1>1, <2>1, <2>3 DEF LoaderInv
  <1>9. CASE LoadKEP
    <2> DEFINE f == Head(files)
               c == content[f]
    <2>1. pc = "walk" /\ pending = {} /\ pending' = {} /\ files # << >>
      BY <1>9 DEF LoadKEP
    <2>2. f \in Files /\ Listed = {f} \cup ElementsOf(Tail(files))
      BY <1>2, <2>1, Taken DEF Listed
    <2>3. f \in KepFiles /\ SigPath \in PathTo(f) /\ f \in disk \cup removed
      BY <1>2, <2>2 DEF LoaderInv
    <2>4. c = NotExist <=> f \notin disk
      BY <2>2 DEF TreeTypes
    <2>5. f \in disk => <<f, c>> \in seen
      BY <2>2 DEF TreeTypes
    <2>6. CASE loadError(c)
      <3>1. pc' = "error" /\ kept' = {} /\ Listed' = Listed
        BY <1>9, <2>6 DEF LoadKEP, Listed
      <3>2. LoadFailsForACause'
        <4>1. CASE c = NotExist
          BY <1>1, <2>3, <2>4, <3>1, <4>1 DEF LoadFailsForACause
        <4>2. CASE c # NotExist
          <5>1. \E s \in seen : s[1] \in KepFiles /\ loadError(s[2])
            BY <2>3, <2>4, <2>5, <2>6, <4>2
          <5> QED
            BY <1>1, <3>1, <5>1 DEF LoadFailsForACause
        <4> QED
          BY <4>1, <4>2
      <3> QED
        BY <2>1, <3>1, <3>2 DEF LoaderInv
    <2>7. CASE ~loadError(c)
      <3>1. pc' = "walk" /\ kept' = kept \cup {<<f, firstDocument(c)>>} /\ files' = Tail(files)
        BY <1>9, <2>1, <2>7 DEF LoadKEP
      <3>2. Listed = {f} \cup Listed'
        BY <2>2, <3>1 DEF Listed
      <3>3. c # NotExist /\ c # Unreadable
        BY <2>7 DEF loadError
      <3>4. \A k \in kept' : \E s \in seen : s[1] = k[1] /\ s[2] # Unreadable /\ firstDocument(s[2]) = k[2]
        <4>1. <<f, c>> \in seen
          BY <2>4, <2>5, <3>3
        <4> HIDE DEF f, c
        <4>2. \A k \in {<<f, firstDocument(c)>>} : k[1] = f /\ k[2] = firstDocument(c)
          OBVIOUS
        <4>3. <<f, c>>[1] = f /\ <<f, c>>[2] = c
          OBVIOUS
        <4> QED
          BY <3>1, <3>3, <4>1, <4>2, <4>3 DEF LoaderInv
      <3>5. LoadFailsForACause'
        BY <3>1 DEF LoadFailsForACause
      <3>6. \A m \in Due : m \in Listed' \/ (~loadError(content[m]) /\ <<m, firstDocument(content[m])>> \in kept')
        BY <2>1, <2>7, <3>1, <3>2 DEF LoaderInv
      <3> QED
        BY <1>1, <2>1, <3>1, <3>2, <3>4, <3>5, <3>6 DEF LoaderInv
    <2> QED
      BY <2>6, <2>7
  <1>10. CASE LoadReturns
    <2>1. pc = "walk" /\ pc' = "returned" /\ pending = {} /\ files = << >> /\ UNCHANGED <<pending, files, kept>>
      BY <1>10 DEF LoadReturns
    <2>2. LoadFailsForACause' /\ Listed' = Listed
      BY <2>1 DEF LoadFailsForACause, Listed
    <2> QED
      BY <1>1, <2>1, <2>2 DEF LoaderInv
  <1> QED
    BY <1>4, <1>5, <1>6, <1>7, <1>8, <1>9, <1>10 DEF LoaderStep

\* What the walk of a tree that nobody changes visits, it has to get to.
LEMMA VisitedIsReached ==
  ASSUME TreeTypes, ProgramTypes, LoaderInv, OneStepInv, NEW i, Visiting(i)
  PROVE  Reaches(disk, i)
  BY DEF LoaderInv, OneStepInv, Visiting, Reaches

\* Every step of the loader on such a tree keeps OneStepInv.
LEMMA StepsKeepOneStep ==
  ASSUME TreeTypes, ProgramTypes, LoaderInv, OneStepInv, edits = 0, LoaderStep, UNCHANGED worktree
  PROVE  OneStepInv'
  <1> DEFINE Hiding == {f \in disk \cap KepFiles : SigPath \in PathTo(f)}
             Before(i, P) == \A m \in Hiding : \A a \in PathTo(i) :
                               parent[a] = parent[m] => a <= m \/ (a = i /\ m \in P)
  <1>1. UNCHANGED <<disk, denied, content>> /\ Shown(disk)' = Shown(disk)
    BY DEF worktree, Shown, Reaches
  <1>2. /\ pending \subseteq disk /\ disk \subseteq Paths /\ files \in Seq(Files) /\ touched = {}
        /\ denied \subseteq disk \ Files /\ Listed \subseteq disk
    BY DEF ProgramTypes, TreeTypes
  <1>3. \A d \in denied : d \in Paths /\ d \notin Files /\ PathTo(d) \subseteq disk
    BY <1>2 DEF TreeTypes, Closed
  <1>4. (\A i \in pending : Before(i, pending)) /\ Hiding \subseteq Files /\ \A m \in Hiding : m \in disk /\ m \in KepFiles
    BY FileFacts DEF OneStepInv
  <1>5. ASSUME \A i \in pending' : Before(i, pending'), Listed' \subseteq Shown(disk),
               \A k \in kept' : \E m \in Shown(disk) : k = <<m, firstDocument(content[m])>>,
               pc' \in {"walk", "returned"} => \A d \in denied : Reaches(disk, d) => PathTo(d) \cap pending' # {},
               LoadIsOneStep'
        PROVE  OneStepInv'
    BY <1>1, <1>5 DEF OneStepInv, Reaches
  <1>6. ASSUME pc' = "error", (\E m \in Shown(disk) : loadError(content[m])) \/ \E d \in denied : Reaches(disk, d)
        PROVE  LoadIsOneStep'
    BY <1>1, <1>6 DEF LoadIsOneStep, Reaches
  <1>7. ASSUME pc' = "returned", \A m \in Shown(disk) : ~loadError(content[m]), \A d \in denied : ~Reaches(disk, d),
               kept' = {<<m, firstDocument(content[m])>> : m \in Shown(disk)}
        PROVE  LoadIsOneStep'
    BY <1>1, <1>7 DEF LoadIsOneStep, Reaches
  <1>8. pc' = "walk" => LoadIsOneStep'
    BY DEF LoadIsOneStep
  <1>9. CASE findLocalKEPMeta
    <2>1. pc = "idle" /\ pending = {} /\ files = << >> /\ kept = {}
      BY <1>9 DEF findLocalKEPMeta, ProgramTypes
    <2>2. Listed' = {} /\ kept' = {}
      BY <1>9, <2>1, NoneListed DEF findLocalKEPMeta, Listed
    <2>3. CASE SigPath \in disk
      <3>1. pc' = "walk" /\ pending' = {SigPath}
        BY <1>9, <2>3 DEF findLocalKEPMeta
      <3>2. Before(SigPath, pending')
        <4> SUFFICES ASSUME NEW m \in Hiding, NEW a \in PathTo(SigPath) PROVE a <= m
          OBVIOUS
        <4>1. SigPath \in Paths /\ m \in Paths /\ SigPath \in PathTo(m)
          BY <1>2, <2>3
        <4>2. a <= SigPath /\ SigPath <= m
          BY <4>1, PathsAscend
        <4>3. a \in Nat /\ SigPath \in Nat /\ m \in Nat
          BY <4>1, TreeFacts
        <4> QED
          BY <4>2, <4>3
      <3>3. \A d \in denied : Reaches(disk, d) => SigPath \in PathTo(d)
        BY DEF Reaches
      <3> HIDE DEF Before
      <3> QED
        BY <1>5, <1>8, <2>2, <3>1, <3>2, <3>3
    <2>4. CASE SigPath \notin disk
      <3>1. pc' = "returned" /\ pending' = {}
        BY <1>9, <2>1, <2>4 DEF findLocalKEPMeta
      <3>2. \A d \in denied : ~Reaches(disk, d)
        BY <1>3, <2>4 DEF Reaches
      <3>3. Shown(disk) = {}
        BY <2>4 DEF Shown, Reaches, TreeTypes, Closed
      <3>4. LoadIsOneStep'
        BY <1>7, <2>2, <3>1, <3>2, <3>3
      <3> HIDE DEF Before
      <3> QED
        BY <1>5, <2>2, <3>1, <3>2, <3>4
    <2> QED
      BY <2>3, <2>4
  <1>10. CASE VisitDir
    <2>1. PICK d \in disk : /\ isDir[d] /\ Visiting(d) /\ UNCHANGED <<files, kept>>
                            /\ IF d \in denied THEN pc' = "error" /\ UNCHANGED pending
                               ELSE pc' = pc /\ pending' = (pending \ {d}) \cup Lists(d)
      BY <1>10 DEF VisitDir
    <2>2. pc = "walk" /\ d \in Paths /\ Reaches(disk, d) /\ Listed' = Listed /\ d \notin Files
      BY <1>2, <2>1, VisitedIsReached, FileFacts DEF Visiting, Listed
    <2>3. CASE d \in denied
      <3>1. pc' = "error" /\ UNCHANGED pending
        BY <2>1, <2>3
      <3>2. LoadIsOneStep'
        BY <1>6, <2>2, <2>3, <3>1
      <3> HIDE DEF Before
      <3> QED
        BY <1>4, <1>5, <2>1, <2>2, <3>1, <3>2 DEF OneStepInv
    <2>4. CASE d \notin denied
      <3>1. pc' = "walk" /\ pending' = (pending \ {d}) \cup Lists(d)
        BY <2>1, <2>2, <2>4
      <3>2. ASSUME NEW i \in pending \ {d} PROVE Before(i, pending')
        BY <1>4, <2>2, <3>1
      <3>3. ASSUME NEW c \in Lists(d) PROVE Before(c, pending')
        <4> SUFFICES ASSUME NEW m \in Hiding, NEW a \in PathTo(c), parent[a] = parent[m]
                     PROVE  a <= m \/ (a = c /\ m \in pending')
          OBVIOUS
        <4>1. PathTo(c) = PathTo(d) \cup {c} /\ parent[c] = d
          BY <2>2, ChildPath DEF Lists
        <4>2. CASE a = c
          <5>1. m \in Lists(d)
            BY <1>2, <4>1, <4>2 DEF Lists, Children
          <5> QED
            BY <3>1, <4>2, <5>1
        <4>3. CASE a # c
          BY <2>2, <4>1, <4>3 DEF Reaches
        <4> QED
          BY <4>2, <4>3
      <3>4. ASSUME NEW e \in denied, Reaches(disk, e) PROVE PathTo(e) \cap pending' # {}
        <4>1. PathTo(e) \cap pending # {}
          BY <2>2, <3>4 DEF OneStepInv
        <4>2. CASE d \in PathTo(e)
          <5>1. PICK c \in PathTo(e) : parent[c] = d
            BY <1>3, <2>4, <4>2, TreeFacts
          <5>2. c \in Lists(d)
            BY <1>2, <1>3, <5>1 DEF Lists, Children
          <5> QED
            BY <3>1, <5>1, <5>2
        <4>3. CASE d \notin PathTo(e)
          BY <3>1, <4>1, <4>3
        <4> QED
          BY <4>2, <4>3
      <3>5. \A i \in pending' : Before(i, pending')
        <4> HIDE DEF Before
        <4> QED
          BY <3>1, <3>2, <3>3
      <3> HIDE DEF Before
      <3> QED
        BY <1>5, <1>8, <2>1, <2>2, <3>1, <3>4, <3>5 DEF OneStepInv
    <2> QED
      BY <2>3, <2>4
  <1>11. CASE VisitMetadata
    <2>1. PICK i \in KepFiles : /\ Visiting(i) /\ files' = Append(files, i)
                                /\ pending' = pending \ Children(parent[i]) /\ UNCHANGED <<pc, kept>>
      BY <1>11 DEF VisitMetadata
    <2>2. /\ i \in Files /\ i \in Paths /\ pc = "walk" /\ i \in pending /\ \A j \in pending : i <= j
          /\ Reaches(disk, i) /\ i \in disk
      BY <1>2, <2>1, FileFacts, VisitedIsReached DEF Visiting
    <2>3. Listed' = Listed \cup {i}
      BY <1>2, <2>1, <2>2, Appended DEF Listed
    <2>4. i \in Shown(disk) /\ i \in Hiding
      BY <2>1, <2>2 DEF Shown, Reaches
    <2>5. ASSUME NEW j \in pending' PROVE Before(j, pending')
      <3> SUFFICES ASSUME NEW m \in Hiding, NEW a \in PathTo(j), parent[a] = parent[m]
                   PROVE  a <= m \/ (a = j /\ m \in pending')
        OBVIOUS
      <3>1. j \in pending /\ j \in Paths /\ j \notin Children(parent[i]) /\ m \in Paths
        BY <1>2, <2>1
      <3>2. a <= m \/ (a = j /\ m \in pending)
        BY <1>4, <3>1
      <3>3. a = j => m \notin Children(parent[i])
        BY <3>1 DEF Children
      <3> QED
        BY <2>1, <3>2, <3>3
    <2>6. ASSUME NEW e \in denied, Reaches(disk, e) PROVE PathTo(e) \cap pending' # {}
      <3>1. PICK a \in PathTo(e) : a \in pending
        BY <2>2, <2>6 DEF OneStepInv
      <3>2. CASE a \in Children(parent[i])
        <4>1. parent[a] = parent[i] /\ a \in Paths
          BY <3>2 DEF Children
        <4>2. a <= i
          BY <2>4, <2>6, <3>1, <4>1 DEF Reaches
        <4>3. i <= a /\ a \in Nat /\ i \in Nat
          BY <2>2, <3>1, <4>1, TreeFacts
        <4>4. i \in PathTo(e)
          BY <3>1, <4>2, <4>3
        <4>5. i = e
          BY <1>3, <2>2, <4>4, FileFacts
        <4> QED
          BY <1>3, <2>2, <4>5
      <3>3. CASE a \notin Children(parent[i])
        BY <2>1, <3>1, <3>3
      <3> QED
        BY <3>2, <3>3
    <2> HIDE DEF Before, Hiding
    <2> QED
      BY <1>5, <1>8, <2>1, <2>2, <2>3, <2>4, <2>5, <2>6 DEF OneStepInv
  <1>12. CASE VisitOther
    <2>1. PICK i \in Files \ KepFiles : Visiting(i) /\ pending' = pending \ {i} /\ UNCHANGED <<pc, files, kept>>
      BY <1>12 DEF VisitOther
    <2>2. pc = "walk" /\ Listed' = Listed
      BY <2>1 DEF Visiting, Listed
    <2>3. \A j \in pending' : Before(j, pending')
      BY <1>4, <2>1
    <2>4. \A e \in denied : i \notin PathTo(e)
      BY <1>3, FileFacts
    <2>5. \A e \in denied : Reaches(disk, e) => PathTo(e) \cap pending' # {}
      BY <2>1, <2>2, <2>4 DEF OneStepInv
    <2> HIDE DEF Before
    <2> QED
      BY <1>5, <1>8, <2>1, <2>2, <2>3, <2>5 DEF OneStepInv
  <1>13. CASE VisitVanished
    BY <1>2, <1>13 DEF VisitVanished, Visiting
  <1>14. CASE LoadKEP
    <2> DEFINE f == Head(files)
    <2>1. pc = "walk" /\ pending = {} /\ pending' = {} /\ files # << >>
      BY <1>14 DEF LoadKEP
    <2>2. Listed = {f} \cup ElementsOf(Tail(files)) /\ f \in Shown(disk)
      BY <1>2, <2>1, Taken DEF Listed, OneStepInv
    <2>3. CASE loadError(content[f])
      <3>1. pc' = "error" /\ kept' = {} /\ Listed' = Listed
        BY <1>14, <2>3 DEF LoadKEP, Listed
      <3>2. LoadIsOneStep'
        BY <1>6, <2>2, <2>3, <3>1
      <3> HIDE DEF Before
      <3> QED
        BY <1>5, <2>1, <3>1, <3>2 DEF OneStepInv
    <2>4. CASE ~loadError(content[f])
      <3>1. pc' = "walk" /\ kept' = kept \cup {<<f, firstDocument(content[f])>>} /\ files' = Tail(files)
        BY <1>14, <2>1, <2>4 DEF LoadKEP
      <3>2. Listed' \subseteq Listed
        BY <2>2, <3>1 DEF Listed
      <3>3. \A k \in kept' : \E m \in Shown(disk) : k = <<m, firstDocument(content[m])>>
        BY <2>2, <3>1 DEF OneStepInv
      <3> HIDE DEF Before
      <3> QED
        BY <1>5, <1>8, <2>1, <3>1, <3>2, <3>3 DEF OneStepInv
    <2> QED
      BY <2>3, <2>4
  <1>15. CASE LoadReturns
    <2>1. pc = "walk" /\ pc' = "returned" /\ pending = {} /\ files = << >> /\ UNCHANGED <<pending, files, kept>>
      BY <1>15 DEF LoadReturns
    <2>2. Listed = {} /\ Listed' = {}
      BY <2>1, NoneListed DEF Listed
    <2>3. Due = Shown(disk)
      <3>1. disk \cup touched = disk
        BY <1>2
      <3> QED
        BY <1>2, <3>1 DEF Due
    <2>4. \A m \in Shown(disk) : ~loadError(content[m]) /\ <<m, firstDocument(content[m])>> \in kept
      BY <2>1, <2>2, <2>3 DEF LoaderInv
    <2>5. \A d \in denied : ~Reaches(disk, d)
      BY <2>1 DEF OneStepInv
    <2>6. kept' = {<<m, firstDocument(content[m])>> : m \in Shown(disk)}
      BY <2>1, <2>4 DEF OneStepInv
    <2>7. LoadIsOneStep'
      BY <1>7, <2>1, <2>4, <2>5, <2>6
    <2> HIDE DEF Before
    <2> QED
      BY <1>5, <2>1, <2>2, <2>5, <2>7 DEF OneStepInv
  <1> QED
    BY <1>9, <1>10, <1>11, <1>12, <1>13, <1>14, <1>15 DEF LoaderStep

\* The loader's invariants hold while the tree changes, and until it does.
LoaderSafe ==
    /\ TreeTypes /\ ProgramTypes /\ program \in {"kepctl", "kepify"}
    /\ program = "kepctl" => LoaderInv /\ (edits = 0 => OneStepInv)

\* The loader starts with nothing found.
LEMMA LoaderStarts == Init => LoaderSafe
  <1> SUFFICES ASSUME Init PROVE LoaderSafe
    OBVIOUS
  <1>1. TreeTypes /\ ProgramTypes
    BY TypesInitially
  <1>2. pc = "idle" /\ pending = {} /\ Listed = {} /\ kept = {} /\ program \in {"kepctl", "kepify"}
    BY NoneListed DEF Init, TreeInit, Listed
  <1>3. LoadFailsForACause /\ LoadIsOneStep
    BY <1>2 DEF LoadFailsForACause, LoadIsOneStep
  <1> QED
    BY <1>1, <1>2, <1>3 DEF LoaderSafe, LoaderInv, OneStepInv

\* No step breaks them.
LEMMA LoaderGoesOn == LoaderSafe /\ [Next]_vars => LoaderSafe'
  <1> SUFFICES ASSUME LoaderSafe, [Next]_vars PROVE LoaderSafe'
    OBVIOUS
  <1>1. TreeTypes /\ ProgramTypes /\ program \in {"kepctl", "kepify"}
    BY DEF LoaderSafe
  <1>2. TreeTypes' /\ ProgramTypes'
    BY <1>1, TypesGoOn
  <1>3. program' = program
    BY DEF Next, Step, vars
  <1>4. CASE program = "kepify"
    BY <1>1, <1>2, <1>3, <1>4 DEF LoaderSafe
  <1>5. CASE program = "kepctl" /\ Step
    <2>1. LoaderStep /\ UNCHANGED worktree
      BY <1>1, <1>5, StepKeepsTypes DEF Step
    <2>2. LoaderInv /\ LoaderInv'
      BY <1>1, <1>5, <2>1, StepsKeepLoader DEF LoaderSafe
    <2>3. ASSUME edits' = 0 PROVE OneStepInv'
      <3>1. edits = 0 /\ OneStepInv
        BY <1>5, <2>1, <2>3 DEF worktree, LoaderSafe
      <3> QED
        BY <1>1, <2>1, <2>2, <3>1, StepsKeepOneStep
    <2> QED
      BY <1>1, <1>2, <1>3, <2>2, <2>3 DEF LoaderSafe
  <1>6. CASE program = "kepctl" /\ (Remove \/ Write)
    <2>1. edits' # 0
      BY <1>1, <1>6, EditsKeepTree DEF EditEffect
    <2>2. LoaderInv'
      BY <1>1, <1>6, EditsKeepLoader DEF LoaderSafe
    <2> QED
      BY <1>1, <1>2, <1>3, <2>1, <2>2 DEF LoaderSafe
  <1>7. CASE program = "kepctl" /\ UNCHANGED vars
    <2>1. UNCHANGED <<disk, denied, content, touched, removed, seen, pc, pending, files, kept, edits>>
      BY <1>7 DEF vars, treeVars
    <2>2. Listed' = Listed /\ Due' = Due
      BY <2>1 DEF Listed, Due, Shown, Reaches
    <2>3. LoadFailsForACause' = LoadFailsForACause
      BY <2>1 DEF LoadFailsForACause
    <2>4. LoaderInv'
      BY <1>7, <2>1, <2>2, <2>3 DEF LoaderSafe, LoaderInv
    <2>5. LoadIsOneStep' = LoadIsOneStep /\ Shown(disk)' = Shown(disk)
      BY <2>1 DEF LoadIsOneStep, Shown, Reaches
    <2>6. OneStepInv => OneStepInv'
      BY <2>1, <2>2, <2>5 DEF OneStepInv, Reaches
    <2> QED
      BY <1>1, <1>2, <1>3, <1>7, <2>1, <2>4, <2>6 DEF LoaderSafe
  <1> QED
    BY <1>1, <1>4, <1>5, <1>6, <1>7 DEF Next

\* The loader's invariants hold in every state.
LEMMA LoaderHolds == Spec => []LoaderSafe
  BY LoaderStarts, LoaderGoesOn, PTL DEF Spec

\* KepQuery may take the load of a SIG as one step: on a tree that nobody changes,
\* LoadLocalKEPs returns exactly the KEPs that its walk shows, or fails if one of
\* them or a directory on the way cannot be read (repo.go:202-284, 461-494).
THEOREM LoadsInOneStep == Spec => []LoadIsOneStep
  <1>1. LoaderSafe => LoadIsOneStep
    <2> SUFFICES ASSUME LoaderSafe PROVE LoadIsOneStep
      OBVIOUS
    <2>1. CASE program = "kepctl"
      BY <2>1 DEF LoaderSafe, OneStepInv, LoadIsOneStep
    <2>2. CASE program = "kepify"
      BY <2>2 DEF LoaderSafe, ProgramTypes, LoadIsOneStep
    <2> QED
      BY <2>1, <2>2 DEF LoaderSafe
  <1> QED
    BY <1>1, LoaderHolds, PTL

\* An answer of LoadLocalKEPs has every KEP that was left alone while it ran and no
\* KEP that was in no file, whatever changed meanwhile (repo.go:202-284).
THEOREM KEPsAreReal == Spec => []LoadedKEPsAreReal
  <1>1. LoaderSafe => LoadedKEPsAreReal
    <2> SUFFICES ASSUME LoaderSafe, pc = "returned" PROVE LoadedKEPsAreReal
      BY DEF LoadedKEPsAreReal
    <2>1. program = "kepctl" /\ LoaderInv
      BY DEF LoaderSafe, ProgramTypes
    <2>2. pending = {} /\ Listed = {}
      BY <2>1, NoneListed DEF LoaderInv, Listed
    <2>3. \A m \in Due : ~loadError(content[m]) /\ <<m, firstDocument(content[m])>> \in kept
      BY <2>1, <2>2 DEF LoaderInv
    <2> QED
      BY <2>1, <2>3 DEF LoadedKEPsAreReal, LoaderInv, Due
  <1> QED
    BY <1>1, LoaderHolds, PTL

\* LoadLocalKEPs fails only for a KEP that does not load, a directory that cannot be
\* listed or a path that went away, and panics only for the last (repo.go:215-219,
\* 461-472).
THEOREM FailsForACause == Spec => []LoadFailsForACause
  <1>1. LoaderSafe => LoadFailsForACause
    <2> SUFFICES ASSUME LoaderSafe PROVE LoadFailsForACause
      OBVIOUS
    <2>1. CASE program = "kepctl"
      BY <2>1 DEF LoaderSafe, LoaderInv
    <2>2. CASE program = "kepify"
      BY <2>2 DEF LoaderSafe, ProgramTypes, LoadFailsForACause
    <2> QED
      BY <2>1, <2>2 DEF LoaderSafe
  <1> QED
    BY <1>1, LoaderHolds, PTL

----------------------------------------------------------------------------
(* kepify *)

\* A change to the tree takes KEPs from those that are awaited and adds none.
LEMMA EditsKeepKepify ==
  ASSUME TreeTypes, ProgramTypes, KepifyInv, Remove \/ Write, UNCHANGED kepifyVars
  PROVE  KepifyInv'
  <1>1. EditEffect
    BY EditsKeepTree
  <1>2. \A m \in Awaited' : m \in Awaited /\ content'[m] = content[m]
    <2> SUFFICES ASSUME NEW m \in Awaited' PROVE m \in Awaited /\ content'[m] = content[m]
      OBVIOUS
    <2>1. m \in disk' /\ m \in Markdown /\ PathTo(m) \cap touched' = {}
      BY DEF Awaited
    <2>2. m \in PathTo(m) /\ m \in Files
      BY <2>1, FileFacts, TreeFacts
    <2> QED
      BY <1>1, <2>1, <2>2 DEF EditEffect, Awaited
  <1>3. pc' = pc /\ pc \notin {"done", "exited", "crashed", "killed"}
    BY <1>1 DEF EditEffect, Running
  <1>4. UNCHANGED <<pending, files, kept>> /\ seen \subseteq seen' /\ Listed' = Listed /\ Read' = Read
    BY <1>1 DEF EditEffect, Listed, Read
  <1>5. UNCHANGED <<found, opened, output, failures>>
    BY DEF kepifyVars
  <1> QED
    BY <1>2, <1>3, <1>4, <1>5 DEF KepifyInv

\* Every step of kepify keeps KepifyInv: it passes over no KEP, and touches its
\* output only when all are parsed.
LEMMA StepsKeepKepify ==
  ASSUME TreeTypes, ProgramTypes, KepifyInv, KepifyStep \/ Kill, UNCHANGED worktree
  PROVE  KepifyInv'
  <1>1. UNCHANGED <<disk, denied, content, removed, touched, seen>> /\ Awaited' = Awaited
    BY DEF worktree, Awaited
  <1>2. pending \subseteq Paths /\ files \in Seq(Files) /\ disk \subseteq Paths
    BY DEF ProgramTypes, TreeTypes
  <1>3. \A m \in Awaited : m \in Markdown /\ m \in Paths /\ m \in disk /\ PathTo(m) \subseteq disk
    BY FileFacts DEF Awaited, TreeTypes, Closed
  <1>4. (files' = files => Listed' = Listed) /\ (kept' = kept => Read' = Read)
    BY DEF Listed, Read
  <1>5. CASE Start
    <2>1. pc = "idle" /\ pc' = "walk" /\ pending' = {Root} /\ UNCHANGED <<files, kept, found, opened, output, failures>>
      BY <1>5 DEF Start, kepifyVars
    <2>2. \A m \in Awaited : PathTo(m) \cap pending' # {}
      BY <1>3, <2>1, TreeFacts
    <2> QED
      BY <1>1, <1>4, <2>1, <2>2 DEF KepifyInv
  <1>6. CASE WalkDir
    <2>1. PICK d \in disk : /\ isDir[d] /\ Visiting(d) /\ UNCHANGED <<files, kept, found, opened, output, failures>>
                            /\ IF d \in denied THEN pc' = "exited" /\ UNCHANGED pending
                               ELSE pc' = pc /\ pending' = (pending \ {d}) \cup Lists(d)
      BY <1>6 DEF WalkDir, kepifyVars
    <2>2. pc = "walk" /\ d \in Paths /\ d \notin Files
      BY <1>2, <2>1, FileFacts DEF Visiting
    <2>3. CASE d \in denied
      BY <1>1, <1>4, <2>1, <2>2, <2>3 DEF KepifyInv
    <2>4. CASE d \notin denied
      <3>1. pc' = "walk" /\ pending' = (pending \ {d}) \cup Lists(d)
        BY <2>1, <2>2, <2>4
      <3>2. ASSUME NEW m \in Awaited, PathTo(m) \cap pending # {} PROVE PathTo(m) \cap pending' # {}
        <4>1. CASE d \in PathTo(m)
          <5>1. m \in Paths /\ d # m
            BY <1>3, <2>2, FileFacts
          <5>2. PICK c \in PathTo(m) : parent[c] = d
            BY <4>1, <5>1, TreeFacts
          <5>3. c \in Lists(d)
            BY <1>2, <1>3, <5>2 DEF Lists, Children
          <5> QED
            BY <3>1, <5>2, <5>3
        <4>2. CASE d \notin PathTo(m)
          BY <3>1, <3>2, <4>2
        <4> QED
          BY <4>1, <4>2
      <3> QED
        BY <1>1, <1>4, <2>1, <2>2, <3>1, <3>2 DEF KepifyInv
    <2> QED
      BY <2>3, <2>4
  <1>7. CASE WalkFile
    <2>1. PICK i \in Files : /\ Visiting(i) /\ pending' = pending \ {i}
                             /\ files' = IF i \in Markdown THEN Append(files, i) ELSE files
                             /\ UNCHANGED <<pc, kept, found, opened, output, failures>>
      BY <1>7 DEF WalkFile, kepifyVars
    <2>2. pc = "walk" /\ pc' = "walk"
      BY <2>1 DEF Visiting
    <2>3. Listed' = IF i \in Markdown THEN Listed \cup {i} ELSE Listed
      <3>1. ElementsOf(Append(files, i)) = ElementsOf(files) \cup {i}
        BY <1>2, Appended
      <3>2. files' = Append(files, i) => Listed' = Listed \cup {i}
        BY <3>1 DEF Listed
      <3> QED
        BY <1>4, <2>1, <3>2
    <2>4. ASSUME NEW m \in Awaited, PathTo(m) \cap pending # {} PROVE PathTo(m) \cap pending' # {} \/ m \in Listed'
      BY <1>3, <2>1, <2>3, <2>4, FileFacts
    <2>5. Listed' \subseteq Markdown /\ Listed \subseteq Listed'
      BY <2>3 DEF KepifyInv
    <2> QED
      BY <1>1, <1>4, <2>1, <2>2, <2>4, <2>5 DEF KepifyInv
  <1>8. CASE WalkVanished
    <2>1. pc = "walk" /\ pc' = "exited" /\ UNCHANGED <<pending, files, kept, found, opened, output, failures>>
      BY <1>8 DEF WalkVanished, Visiting, kepifyVars
    <2> QED
      BY <1>1, <1>4, <2>1 DEF KepifyInv
  <1>9. CASE WalkEnds
    <2>1. pc = "walk" /\ pending = {} /\ pc' = (IF files = << >> THEN "exited" ELSE "groups")
          /\ UNCHANGED <<pending, files, kept, opened, output, failures>>
      BY <1>9 DEF WalkEnds
    <2>2. found' = Listed
      BY <1>9 DEF WalkEnds, Listed, ElementsOf
    <2>3. files # << >> => Listed # {}
      BY <1>2, Taken DEF Listed
    <2>4. kept = {} /\ Read = {} /\ output = OldOutput
      BY <2>1 DEF KepifyInv, Read
    <2>5. CASE files = << >>
      BY <1>1, <1>4, <2>1, <2>4, <2>5 DEF KepifyInv
    <2>6. CASE files # << >>
      BY <1>1, <1>4, <2>1, <2>2, <2>3, <2>4, <2>6 DEF KepifyInv
    <2> QED
      BY <2>5, <2>6
  <1>10. CASE Fetch
    <2>1. pc = "groups" /\ pc' \in {"exited", "parse"} /\ UNCHANGED <<pending, files, kept, found, opened, output>>
          /\ (failures > 0 => failures' > 0)
      BY <1>10 DEF Fetch, Fails, ProgramTypes
    <2> QED
      BY <1>1, <1>4, <2>1 DEF KepifyInv
  <1>11. CASE ParseFile
    <2> DEFINE f == Head(files)
               c == content[f]
    <2>1. pc = "parse" /\ files # << >> /\ UNCHANGED <<pending, found, output, failures>>
      BY <1>11 DEF ParseFile
    <2>2. f \in Files /\ Listed = {f} \cup ElementsOf(Tail(files)) /\ f \in Markdown
      BY <1>2, <2>1, Taken DEF Listed, KepifyInv
    <2>3. CASE c \in {NotExist, Unreadable} \/ opened = MaxOpen \/ parseError(c)
      <3>1. pc' \in {"exited", "crashed"} /\ UNCHANGED <<files, kept>>
        BY <1>11, <2>3 DEF ParseFile
      <3> QED
        BY <1>1, <1>4, <2>1, <3>1 DEF KepifyInv
    <2>4. CASE ~(c \in {NotExist, Unreadable} \/ opened = MaxOpen \/ parseError(c))
      <3>1. pc' = "parse" /\ kept' = kept \cup {<<f, metadata(c)>>} /\ files' = Tail(files)
        BY <1>11, <2>1, <2>4 DEF ParseFile
      <3>2. Listed = {f} \cup Listed' /\ Read' = Read \cup {f}
        <4>1. Listed = {f} \cup Listed'
          BY <2>2, <3>1 DEF Listed
        <4> HIDE DEF f, c
        <4>2. {k[1] : k \in {<<f, metadata(c)>>}} = {f}
          OBVIOUS
        <4>3. Read' = Read \cup {k[1] : k \in {<<f, metadata(c)>>}}
          BY <3>1 DEF Read
        <4> QED
          BY <4>1, <4>2, <4>3
      <3>3. <<f, c>> \in seen /\ c # Unreadable
        BY <2>2, <2>4 DEF TreeTypes
      <3>4. ParseKEP(metadata(c)) = NoError
        BY <2>4 DEF parseError
      <3>5. \A k \in kept' : \E s \in seen : /\ s[1] = k[1] /\ k[1] \in Markdown /\ s[2] # Unreadable
                                             /\ metadata(s[2]) = k[2] /\ ParseKEP(k[2]) = NoError
        <4> HIDE DEF f, c
        <4>1. \A k \in {<<f, metadata(c)>>} : k[1] = f /\ k[2] = metadata(c)
          OBVIOUS
        <4>2. <<f, c>>[1] = f /\ <<f, c>>[2] = c
          OBVIOUS
        <4> QED
          BY <2>2, <3>1, <3>3, <3>4, <4>1, <4>2 DEF KepifyInv
      <3>6. \A m \in Awaited : m \in Listed' \/ <<m, metadata(content[m])>> \in kept'
        BY <2>1, <3>1, <3>2 DEF KepifyInv
      <3>7. output = OldOutput
        BY <2>1 DEF KepifyInv
      <3>8. Listed' \subseteq Markdown /\ found = Listed' \cup Read' /\ found # {} /\ pending = {}
        BY <2>1, <3>2 DEF KepifyInv
      <3> HIDE DEF f, c
      <3> QED
        BY <1>1, <2>1, <3>1, <3>5, <3>6, <3>7, <3>8 DEF KepifyInv
    <2> QED
      BY <2>3, <2>4
  <1>12. CASE ParseEnds
    <2>1. pc = "parse" /\ files = << >> /\ pc' = "create" /\ UNCHANGED <<pending, files, kept, found, output, failures>>
      BY <1>12 DEF ParseEnds
    <2> QED
      BY <1>1, <1>4, <2>1 DEF KepifyInv
  <1>13. CASE CreateOutput
    <2>1. pc = "create" /\ UNCHANGED <<pending, files, kept, found, opened>>
      BY <1>13 DEF CreateOutput
    <2>2. found = Read /\ found # {} /\ output = OldOutput
      BY <2>1, NoneListed DEF KepifyInv, Listed
    <2>3. CASE Fails /\ pc' = "exited" /\ UNCHANGED output
      <3>1. failures > 0 => failures' > 0
        BY <2>3 DEF Fails, ProgramTypes
      <3> QED
        BY <1>1, <1>4, <2>1, <2>2, <2>3, <3>1 DEF KepifyInv
    <2>4. CASE output' = Truncated /\ pc' = "write" /\ UNCHANGED failures
      BY <1>1, <1>4, <2>1, <2>2, <2>4 DEF KepifyInv
    <2> QED
      BY <1>13, <2>3, <2>4 DEF CreateOutput
  <1>14. CASE WriteOutput
    <2>1. pc = "write" /\ UNCHANGED <<pending, files, kept, found, opened>>
      BY <1>14 DEF WriteOutput
    <2>2. found = Read /\ found # {} /\ Listed = {} /\ pending = {}
      BY <2>1, NoneListed DEF KepifyInv, Listed
    <2>3. CASE Fails /\ pc' = "exited" /\ UNCHANGED output
      <3>1. failures' > 0
        BY <2>3 DEF Fails, ProgramTypes
      <3> QED
        BY <1>1, <1>4, <2>1, <2>2, <2>3, <3>1 DEF KepifyInv
    <2>4. CASE output' = {k[2] : k \in kept} /\ pc' = "done" /\ UNCHANGED failures
      <3>1. output' # Truncated
        BY <2>2, <2>4 DEF Truncated, Read
      <3>2. OutputIsWhole'
        <4>1. ASSUME NEW m \in Markdown \cap disk', PathTo(m) \cap touched' = {} PROVE metadata(content'[m]) \in output'
          <5>1. <<m, metadata(content[m])>> \in kept
            BY <1>1, <2>1, <2>2, <4>1 DEF KepifyInv, Awaited
          <5>2. <<m, metadata(content[m])>>[2] = metadata(content[m])
            OBVIOUS
          <5> QED
            BY <1>1, <2>4, <5>1, <5>2
        <4>2. \A p \in output' : \E s \in seen' :
                s[1] \in Markdown /\ s[2] # Unreadable /\ metadata(s[2]) = p /\ ParseKEP(p) = NoError
          BY <1>1, <2>4 DEF KepifyInv
        <4>3. found' # {} /\ found' = {k[1] : k \in kept'}
          BY <2>1, <2>2 DEF Read
        <4> QED
          BY <4>1, <4>2, <4>3 DEF OutputIsWhole
      <3> QED
        BY <1>1, <1>4, <2>1, <2>2, <2>4, <3>1, <3>2 DEF KepifyInv
    <2> QED
      BY <1>14, <2>3, <2>4 DEF WriteOutput
  <1>15. CASE Kill
    <2>1. pc \notin {"done", "exited", "crashed", "killed"} /\ pc' = "killed"
          /\ UNCHANGED <<pending, files, kept, found, opened, output, failures>>
      BY <1>15 DEF Kill, Running, kepifyVars
    <2> QED
      BY <1>1, <1>4, <2>1 DEF KepifyInv
  <1> QED
    BY <1>5, <1>6, <1>7, <1>8, <1>9, <1>10, <1>11, <1>12, <1>13, <1>14, <1>15 DEF KepifyStep

\* There are finitely many files to count.
LEMMA FilesCount ==
  ASSUME NEW S \in SUBSET Paths, NEW T \in SUBSET S
  PROVE  /\ Cardinality(S) \in Nat /\ Cardinality(T) \in Nat /\ Cardinality(T) <= Cardinality(S)
         /\ \A f \in S \ T : /\ Cardinality(T \cup {f}) = Cardinality(T) + 1
                             /\ Cardinality(T) + 1 <= Cardinality(S)
  <1>1. Len(Tree) \in Int /\ 1 \in Int
    BY TreeIsATree
  <1>2. IsFiniteSet(Paths)
    BY <1>1, FS_Interval DEF Paths
  <1>3. IsFiniteSet(S)
    BY <1>2, FS_Subset
  <1>4. IsFiniteSet(T) /\ Cardinality(T) <= Cardinality(S)
    BY <1>3, FS_Subset
  <1>5. ASSUME NEW f \in S \ T
        PROVE  Cardinality(T \cup {f}) = Cardinality(T) + 1 /\ Cardinality(T) + 1 <= Cardinality(S)
    <2>1. Cardinality(T \cup {f}) = Cardinality(T) + 1
      BY <1>4, FS_AddElement
    <2>2. T \cup {f} \in SUBSET S
      OBVIOUS
    <2>3. Cardinality(T \cup {f}) <= Cardinality(S)
      BY <1>3, <2>2, FS_Subset
    <2> QED
      BY <2>1, <2>3
  <1> QED
    BY <1>3, <1>4, <1>5, FS_CardinalityType

\* Every step of kepify on a tree that nobody changes keeps LimitInv: a descriptor
\* is open for each file that was read.
LEMMA StepsKeepLimit ==
  ASSUME TreeTypes, ProgramTypes, KepifyInv, LimitInv, edits = 0, KepifyStep \/ Kill, UNCHANGED worktree
  PROVE  LimitInv'
  <1> DEFINE keps == Markdown \cap disk
  <1>1. UNCHANGED <<disk, denied, content>> /\ touched = {} /\ removed = {} /\ Awaited = keps
    BY DEF worktree, TreeTypes, Awaited
  <1>2. /\ pending \subseteq disk /\ Listed \subseteq disk /\ disk \subseteq Paths /\ files \in Seq(Files)
        /\ Listed \subseteq keps /\ pending \subseteq Nat /\ Listed \subseteq Nat
    <2>1. pending \subseteq disk /\ Listed \subseteq disk /\ disk \subseteq Paths /\ files \in Seq(Files)
      BY <1>1 DEF ProgramTypes, TreeTypes
    <2> QED
      BY <2>1, TreeFacts DEF KepifyInv
  <1>3. keps \in SUBSET Paths /\ Cardinality(keps) \in Nat /\ MaxOpen \in Nat /\ failures \in Nat
    <2>1. keps \in SUBSET Paths /\ keps \in SUBSET keps
      BY <1>2
    <2>2. Cardinality(keps) \in Nat
      BY <2>1, FilesCount
    <2> QED
      BY <2>1, <2>2, KepifyConstants DEF ProgramTypes
  <1>4. (files' = files => Listed' = Listed) /\ (kept' = kept => Read' = Read)
    BY DEF Listed, Read
  <1>5. ASSUME pc' \notin {"done", "exited", "crashed"} \/ failures' # 0 \/ denied # {}
        PROVE  ConvertsUpToTheLimit'
    BY <1>1, <1>5 DEF ConvertsUpToTheLimit
  <1>6. ASSUME pc' = "exited", (\E m \in keps : content[m] = Unreadable) \/ keps = {} \/ Cardinality(keps) > MaxOpen
        PROVE  ConvertsUpToTheLimit'
    <2>1. ~(Cardinality(keps) > MaxOpen /\ Cardinality(keps) <= MaxOpen)
      BY <1>3
    <2> QED
      BY <1>1, <1>6, <2>1 DEF ConvertsUpToTheLimit
  <1>7. ASSUME pc' = "crashed", \E m \in keps : parseError(content[m])
        PROVE  ConvertsUpToTheLimit'
    BY <1>1, <1>7 DEF ConvertsUpToTheLimit
  <1>8. ASSUME pc' = "done", \A m \in keps : content[m] # Unreadable /\ ~parseError(content[m]),
               keps # {}, Cardinality(keps) <= MaxOpen
        PROVE  ConvertsUpToTheLimit'
    BY <1>1, <1>8 DEF ConvertsUpToTheLimit
  <1> HIDE DEF keps
  <1>9. CASE Start
    <2>1. pc = "idle" /\ pc' = "walk" /\ UNCHANGED <<files, kept>> /\ files = << >> /\ kept = {}
      BY <1>9 DEF Start, ProgramTypes
    <2>2. Listed' = {} /\ Read' = {} /\ ConvertsUpToTheLimit'
      BY <1>4, <1>5, <2>1, NoneListed DEF Listed, Read
    <2> QED
      BY <1>1, <2>1, <2>2 DEF LimitInv
  <1>10. CASE WalkDir
    <2>1. PICK d \in disk : /\ Visiting(d) /\ UNCHANGED <<files, kept>>
                            /\ IF d \in denied THEN pc' = "exited" /\ UNCHANGED pending
                               ELSE pc' = pc /\ pending' = (pending \ {d}) \cup Lists(d)
      BY <1>10 DEF WalkDir
    <2>2. pc = "walk" /\ d \in Paths /\ d \in pending
      BY <1>2, <2>1 DEF Visiting
    <2>3. CASE d \in denied
      <3>1. ConvertsUpToTheLimit'
        BY <1>5, <2>3
      <3> QED
        BY <1>1, <1>4, <2>1, <2>2, <2>3, <3>1 DEF LimitInv
    <2>4. CASE d \notin denied
      <3>1. pc' = "walk" /\ pending' = (pending \ {d}) \cup Lists(d)
        BY <2>1, <2>2, <2>4
      <3>2. ASSUME NEW f \in Listed, NEW j \in pending' PROVE f < j
        <4>1. CASE j \in pending
          BY <4>1 DEF LimitInv
        <4>2. CASE j \in Lists(d)
          <5>1. f < d
            BY <2>2 DEF LimitInv
          <5>2. d < j /\ j \in Paths
            BY <2>2, <4>2, ChildPath DEF Lists
          <5>3. f \in Nat /\ d \in Nat /\ j \in Nat
            BY <1>2, <2>2, <5>2, TreeFacts
          <5> QED
            BY <5>1, <5>2, <5>3
        <4> QED
          BY <3>1, <4>1, <4>2
      <3>3. ConvertsUpToTheLimit'
        BY <1>5, <3>1
      <3> QED
        BY <1>1, <1>4, <2>1, <2>2, <3>1, <3>2, <3>3 DEF LimitInv
    <2> QED
      BY <2>3, <2>4
  <1>11. CASE WalkFile
    <2>1. PICK i \in Files : /\ Visiting(i) /\ pending' = pending \ {i}
                             /\ files' = IF i \in Markdown THEN Append(files, i) ELSE files
                             /\ UNCHANGED <<pc, kept>>
      BY <1>11 DEF WalkFile
    <2>2. pc = "walk" /\ pc' = "walk" /\ i \in pending /\ i \in Nat /\ kept = {} /\ \A j \in pending : i <= j
      BY <1>2, <2>1 DEF Visiting, KepifyInv
    <2>3. i \notin Listed
      BY <1>2, <2>2 DEF LimitInv
    <2>4. Read' = {} /\ ConvertsUpToTheLimit'
      BY <1>5, <2>1, <2>2 DEF Read
    <2>5. CASE i \in Markdown
      <3>1. files' = Append(files, i)
        BY <2>1, <2>5
      <3>2. Listed' = Listed \cup {i} /\ \A m, n \in DOMAIN files' : files'[m] = files'[n] => m = n
        BY <1>2, <2>3, <3>1, Appended DEF Listed, LimitInv
      <3>3. ASSUME NEW f \in Listed', NEW j \in pending' PROVE f < j
        <4>1. j \in pending /\ j # i /\ j \in Nat /\ i <= j
          BY <1>2, <2>1, <2>2
        <4>2. CASE f = i
          BY <2>2, <4>1, <4>2
        <4>3. CASE f # i
          BY <3>2, <4>1, <4>3 DEF LimitInv
        <4> QED
          BY <4>2, <4>3
      <3> QED
        BY <1>1, <2>1, <2>2, <2>4, <3>2, <3>3 DEF LimitInv
    <2>6. CASE i \notin Markdown
      <3>1. files' = files
        BY <2>1, <2>6
      <3> QED
        BY <1>1, <1>4, <2>1, <2>2, <2>4, <3>1 DEF LimitInv
    <2> QED
      BY <2>5, <2>6
  <1>12. CASE WalkVanished
    BY <1>2, <1>12 DEF WalkVanished, Visiting
  <1>13. CASE WalkEnds
    <2>1. pc = "walk" /\ pending = {} /\ pc' = (IF files = << >> THEN "exited" ELSE "groups")
          /\ UNCHANGED <<pending, files, kept>> /\ kept = {}
      BY <1>13 DEF WalkEnds, KepifyInv
    <2>2. keps = Listed /\ Read = {}
      BY <1>1, <1>2, <2>1 DEF KepifyInv, Read
    <2>3. CASE files = << >>
      <3>1. keps = {} /\ pc' = "exited"
        BY <2>1, <2>2, <2>3, NoneListed DEF Listed
      <3>2. ConvertsUpToTheLimit'
        BY <1>6, <3>1
      <3> QED
        BY <1>1, <1>4, <2>1, <3>1, <3>2 DEF LimitInv
    <2>4. CASE files # << >>
      <3>1. pc' = "groups" /\ ConvertsUpToTheLimit'
        BY <1>5, <2>1, <2>4
      <3> QED
        BY <1>1, <1>4, <2>1, <2>2, <3>1 DEF LimitInv, keps
    <2> QED
      BY <2>3, <2>4
  <1>14. CASE Fetch
    <2>1. pc = "groups" /\ (pc' = "parse" \/ (pc' = "exited" /\ failures' = failures + 1))
          /\ UNCHANGED <<pending, files, kept, opened>> /\ kept = {} /\ opened = 0
      BY <1>14 DEF Fetch, Fails, KepifyInv
    <2>2. ConvertsUpToTheLimit'
      <3>1. pc' = "parse" \/ failures' # 0
        BY <1>3, <2>1
      <3> QED
        BY <1>5, <2>1, <3>1
    <2>3. Read = {} /\ Cardinality({}) = 0
      BY <2>1, FS_EmptySet DEF Read
    <2> QED
      BY <1>1, <1>4, <2>1, <2>2, <2>3 DEF LimitInv
  <1>15. CASE ParseFile
    <2> DEFINE f == Head(files)
               c == content[f]
    <2>1. pc = "parse" /\ files # << >> /\ UNCHANGED pending /\ pending = {}
      BY <1>15 DEF ParseFile, KepifyInv
    <2>2. /\ Tail(files) \in Seq(Files) /\ Listed = {f} \cup ElementsOf(Tail(files))
          /\ f \notin ElementsOf(Tail(files))
          /\ \A m, n \in DOMAIN Tail(files) : Tail(files)[m] = Tail(files)[n] => m = n
      BY <1>2, <2>1, Taken DEF Listed, LimitInv
    <2>3. f \in keps /\ f \in Files /\ f \in disk /\ f \notin Read /\ keps = Listed \cup Read
      BY <1>2, <2>1, <2>2 DEF LimitInv, keps, TreeTypes, Markdown
    <2>4. c # NotExist
      BY <2>3 DEF TreeTypes
    <2>5. /\ Read \in SUBSET keps /\ opened = Cardinality(Read)
          /\ Cardinality(Read \cup {f}) = Cardinality(Read) + 1 /\ Cardinality(Read) + 1 <= Cardinality(keps)
      <3>1. Read \in SUBSET keps /\ opened = Cardinality(Read) /\ f \in keps \ Read
        BY <2>1, <2>3 DEF LimitInv
      <3> HIDE DEF f, c
      <3> QED
        BY <1>3, <3>1, FilesCount
    <2>6. CASE c = Unreadable \/ opened = MaxOpen
      <3>1. pc' = "exited" /\ UNCHANGED <<files, kept>>
        BY <1>15, <2>6 DEF ParseFile
      <3>2. (\E m \in keps : content[m] = Unreadable) \/ Cardinality(keps) > MaxOpen
        BY <1>3, <2>3, <2>5, <2>6
      <3>3. ConvertsUpToTheLimit'
        BY <1>6, <3>1, <3>2
      <3> QED
        BY <1>1, <1>4, <2>1, <3>1, <3>3 DEF LimitInv
    <2>7. CASE c # Unreadable /\ opened # MaxOpen /\ parseError(c)
      <3>1. pc' = "crashed" /\ UNCHANGED <<files, kept>>
        BY <1>15, <2>4, <2>7 DEF ParseFile
      <3>2. ConvertsUpToTheLimit'
        BY <1>7, <2>3, <2>7, <3>1
      <3> QED
        BY <1>1, <1>4, <2>1, <3>1, <3>2 DEF LimitInv
    <2>8. CASE c # Unreadable /\ opened # MaxOpen /\ ~parseError(c)
      <3>1. pc' = "parse" /\ kept' = kept \cup {<<f, metadata(c)>>} /\ files' = Tail(files) /\ opened' = opened + 1
        BY <1>15, <2>1, <2>4, <2>8 DEF ParseFile
      <3>2. Listed = {f} \cup Listed' /\ f \notin Listed'
        BY <2>2, <3>1 DEF Listed
      <3>3. Read' = Read \cup {f} /\ \A k \in kept' : content[k[1]] # Unreadable /\ ~parseError(content[k[1]])
        <4>1. c = content[f]
          OBVIOUS
        <4> HIDE DEF f, c
        <4>2. {k[1] : k \in {<<f, metadata(c)>>}} = {f} /\ \A k \in {<<f, metadata(c)>>} : k[1] = f
          OBVIOUS
        <4>3. Read' = Read \cup {k[1] : k \in {<<f, metadata(c)>>}}
          BY <3>1 DEF Read
        <4> QED
          BY <2>8, <3>1, <4>1, <4>2, <4>3 DEF LimitInv
      <3>4. Listed' \cap Read' = {} /\ keps = Listed' \cup Read'
        BY <2>3, <3>2, <3>3 DEF LimitInv
      <3>5. opened' = Cardinality(Read') /\ ConvertsUpToTheLimit'
        BY <1>5, <2>5, <3>1, <3>3
      <3>6. \A m, n \in DOMAIN files' : files'[m] = files'[n] => m = n
        BY <2>2, <3>1
      <3> HIDE DEF f, c
      <3> QED
        BY <1>1, <2>1, <3>1, <3>3, <3>4, <3>5, <3>6 DEF LimitInv, keps
    <2> QED
      BY <2>6, <2>7, <2>8
  <1>16. CASE ParseEnds
    <2>1. pc = "parse" /\ pc' = "create" /\ UNCHANGED <<pending, files, kept>>
      BY <1>16 DEF ParseEnds
    <2>2. Cardinality(Read) <= MaxOpen /\ ConvertsUpToTheLimit'
      <3>1. opened = Cardinality(Read) /\ opened \in 0 .. MaxOpen
        BY <2>1 DEF LimitInv, ProgramTypes
      <3> QED
        BY <1>3, <1>5, <2>1, <3>1
    <2> QED
      BY <1>1, <1>4, <2>1, <2>2 DEF LimitInv
  <1>17. CASE CreateOutput
    <2>1. pc = "create" /\ (pc' = "write" \/ (pc' = "exited" /\ failures' = failures + 1))
          /\ UNCHANGED <<pending, files, kept>>
      BY <1>17 DEF CreateOutput, Fails
    <2>2. ConvertsUpToTheLimit'
      <3>1. pc' = "write" \/ failures' # 0
        BY <1>3, <2>1
      <3> QED
        BY <1>5, <2>1, <3>1
    <2> QED
      BY <1>1, <1>4, <2>1, <2>2 DEF LimitInv
  <1>18. CASE WriteOutput
    <2>1. pc = "write" /\ (pc' = "done" \/ (pc' = "exited" /\ failures' = failures + 1))
          /\ UNCHANGED <<pending, files, kept>>
      BY <1>18 DEF WriteOutput, Fails
    <2>2. keps = Read /\ keps # {} /\ Cardinality(keps) <= MaxOpen
      BY <2>1, NoneListed DEF LimitInv, KepifyInv, Listed, keps
    <2>3. \A m \in keps : content[m] # Unreadable /\ ~parseError(content[m])
      BY <2>2 DEF LimitInv, Read
    <2>4. ConvertsUpToTheLimit'
      <3>1. pc' = "done" \/ failures' # 0
        BY <1>3, <2>1
      <3> QED
        BY <1>5, <1>8, <2>2, <2>3, <3>1
    <2> QED
      BY <1>1, <1>4, <2>1, <2>4 DEF LimitInv
  <1>19. CASE Kill
    <2>1. pc' = "killed" /\ UNCHANGED <<pending, files, kept>>
      BY <1>19 DEF Kill
    <2>2. ConvertsUpToTheLimit'
      BY <1>5, <2>1
    <2> QED
      BY <1>1, <1>4, <2>1, <2>2 DEF LimitInv
  <1> QED
    BY <1>9, <1>10, <1>11, <1>12, <1>13, <1>14, <1>15, <1>16, <1>17, <1>18, <1>19 DEF KepifyStep

\* kepify's invariants hold while the tree changes, and until it does.
KepifySafe ==
    /\ TreeTypes /\ ProgramTypes /\ program \in {"kepctl", "kepify"}
    /\ program = "kepify" => KepifyInv /\ (edits = 0 => LimitInv)

\* kepify starts with nothing found and the output of an earlier run.
LEMMA KepifyStarts == Init => KepifySafe
  <1> SUFFICES ASSUME Init PROVE KepifySafe
    OBVIOUS
  <1>1. TreeTypes /\ ProgramTypes
    BY TypesInitially
  <1>2. /\ pc = "idle" /\ pending = {} /\ files = << >> /\ Listed = {} /\ kept = {} /\ Read = {}
        /\ opened = 0 /\ output = OldOutput /\ program \in {"kepctl", "kepify"}
    BY NoneListed DEF Init, TreeInit, KepifyInit, Listed, Read
  <1>3. ConvertsUpToTheLimit
    BY <1>2 DEF ConvertsUpToTheLimit
  <1>4. KepifyInv
    BY <1>2, KepifyConstants DEF KepifyInv
  <1>5. LimitInv
    BY <1>2, <1>3 DEF LimitInv
  <1> QED
    BY <1>1, <1>2, <1>4, <1>5 DEF KepifySafe

\* No step breaks them.
LEMMA KepifyGoesOn == KepifySafe /\ [Next]_vars => KepifySafe'
  <1> SUFFICES ASSUME KepifySafe, [Next]_vars PROVE KepifySafe'
    OBVIOUS
  <1>1. TreeTypes /\ ProgramTypes /\ program \in {"kepctl", "kepify"}
    BY DEF KepifySafe
  <1>2. TreeTypes' /\ ProgramTypes'
    BY <1>1, TypesGoOn
  <1>3. program' = program
    BY DEF Next, Step, vars
  <1>4. CASE program = "kepctl"
    BY <1>1, <1>2, <1>3, <1>4 DEF KepifySafe
  <1>5. CASE program = "kepify" /\ (Step \/ Kill)
    <2>1. (KepifyStep \/ Kill) /\ UNCHANGED worktree
      BY <1>1, <1>3, <1>5, StepKeepsTypes DEF Step
    <2>2. KepifyInv /\ KepifyInv'
      BY <1>1, <1>5, <2>1, StepsKeepKepify DEF KepifySafe
    <2>3. ASSUME edits' = 0 PROVE LimitInv'
      <3>1. edits = 0 /\ LimitInv
        BY <1>5, <2>1, <2>3 DEF worktree, KepifySafe
      <3> QED
        BY <1>1, <2>1, <2>2, <3>1, StepsKeepLimit
    <2> QED
      BY <1>1, <1>2, <1>3, <2>2, <2>3 DEF KepifySafe
  <1>6. CASE program = "kepify" /\ (Remove \/ Write) /\ UNCHANGED kepifyVars
    <2>1. edits' # 0
      BY <1>1, <1>6, EditsKeepTree DEF EditEffect
    <2>2. KepifyInv'
      BY <1>1, <1>6, EditsKeepKepify DEF KepifySafe
    <2> QED
      BY <1>1, <1>2, <1>3, <2>1, <2>2 DEF KepifySafe
  <1>7. CASE program = "kepify" /\ UNCHANGED vars
    <2>1. UNCHANGED <<disk, denied, content, touched, seen, pc, pending, files, kept, edits, found, opened, output, failures>>
      BY <1>7 DEF vars, treeVars, kepifyVars
    <2>2. Listed' = Listed /\ Read' = Read /\ Awaited' = Awaited
      BY <2>1 DEF Listed, Read, Awaited
    <2>3. OutputIsWhole' = OutputIsWhole /\ ConvertsUpToTheLimit' = ConvertsUpToTheLimit
      BY <2>1 DEF OutputIsWhole, ConvertsUpToTheLimit
    <2>4. KepifyInv'
      BY <1>7, <2>1, <2>2, <2>3 DEF KepifySafe, KepifyInv
    <2>5. LimitInv => LimitInv'
      BY <2>1, <2>2, <2>3 DEF LimitInv
    <2> QED
      BY <1>1, <1>2, <1>3, <1>7, <2>1, <2>4, <2>5 DEF KepifySafe
  <1> QED
    BY <1>1, <1>4, <1>5, <1>6, <1>7 DEF Next

\* kepify's invariants hold in every state.
LEMMA KepifyHolds == Spec => []KepifySafe
  BY KepifyStarts, KepifyGoesOn, PTL DEF Spec

\* kepify's output has the Proposal of every KEP that was left alone and of none
\* that was in no file; it is replaced only when all files found are parsed
\* (cmd/kepify/main.go:77-100, 128-176).
THEOREM OutputHasEveryKEP == Spec => []OutputIsWhole
  <1>1. KepifySafe => OutputIsWhole
    <2> SUFFICES ASSUME KepifySafe PROVE OutputIsWhole
      OBVIOUS
    <2>1. CASE program = "kepctl"
      BY <2>1 DEF KepifySafe, ProgramTypes, OutputIsWhole
    <2>2. CASE program = "kepify" /\ pc = "done"
      BY <2>2 DEF KepifySafe, KepifyInv
    <2>3. CASE program = "kepify" /\ pc # "done"
      BY <2>3 DEF KepifySafe, KepifyInv, OutputIsWhole, Read
    <2> QED
      BY <2>1, <2>2, <2>3 DEF KepifySafe
  <1> QED
    BY <1>1, KepifyHolds, PTL

\* os.Create empties the output before it is written, but only a process that is
\* killed, or whose write fails, leaves it empty (main.go:151-176).
THEOREM OutputIsEmptyForAFault == Spec => []EmptyOutputNeedsAFault
  <1>1. KepifySafe => EmptyOutputNeedsAFault
    <2> SUFFICES ASSUME KepifySafe, output = Truncated, ~Running PROVE pc = "killed" \/ failures > 0
      BY DEF EmptyOutputNeedsAFault
    <2>1. program = "kepify"
      BY KepifyConstants DEF KepifySafe, ProgramTypes
    <2>2. pc # "write"
      BY DEF Running
    <2> QED
      BY <2>1, <2>2 DEF KepifySafe, KepifyInv
  <1> QED
    BY <1>1, KepifyHolds, PTL

\* parseFiles keeps a descriptor for every file until it returns, so that kepify
\* converts the KEPs of a tree that nobody changes exactly up to the number of
\* descriptors (main.go:128-149).
THEOREM LimitIsExact == Spec => []ConvertsUpToTheLimit
  <1>1. KepifySafe => ConvertsUpToTheLimit
    <2> SUFFICES ASSUME KepifySafe PROVE ConvertsUpToTheLimit
      OBVIOUS
    <2>1. CASE program = "kepctl"
      BY <2>1 DEF KepifySafe, ProgramTypes, ConvertsUpToTheLimit
    <2>2. CASE program = "kepify" /\ edits = 0
      BY <2>2 DEF KepifySafe, LimitInv
    <2>3. CASE edits # 0
      BY <2>3 DEF ConvertsUpToTheLimit
    <2> QED
      BY <2>1, <2>2, <2>3 DEF KepifySafe
  <1> QED
    BY <1>1, KepifyHolds, PTL
=============================================================================
