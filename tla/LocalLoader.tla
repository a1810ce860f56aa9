---------------------------- MODULE LocalLoader ----------------------------
(***************************************************************************)
(* Repo.LoadLocalKEPs of one SIG (pkg/repo/repo.go), step by step:         *)
(* findLocalKEPMeta walks keps/<sig> for kep.yaml files, then each of them *)
(* is read by loadKEPFromYaml.  KepQuery takes all of it as one step.      *)
(***************************************************************************)
EXTENDS WorkingTree

CONSTANTS
    SigPath,        \* keps/<sig>
    Symlinks        \* the files that are symbolic links

KepFiles == Metadata \ Symlinks

findLocalKEPMeta ==
    /\ pc = "idle"
    /\ IF SigPath \in disk
       THEN pc' = "walk" /\ pending' = {SigPath}
       ELSE pc' = "returned" /\ UNCHANGED pending
    /\ UNCHANGED <<worktree, files, kept>>

\* The callback returns the error of a directory that cannot be listed.
VisitDir ==
    \E d \in {i \in disk : isDir[i]} :
        /\ Visiting(d)
        /\ IF d \in denied
           THEN pc' = "error" /\ UNCHANGED pending
           ELSE pc' = pc /\ pending' = (pending \ {d}) \cup Lists(d)
        /\ UNCHANGED <<worktree, files, kept>>

\* Mutant of VisitMetadata: nil is returned instead of SkipDir.
VisitMetadataOnly ==
    \E i \in KepFiles :
        /\ Visiting(i)
        /\ files' = Append(files, i)
        /\ pending' = pending \ {i}
        /\ UNCHANGED <<worktree, pc, kept>>

\* A kep.yaml, there or gone since lstat: what is left of its directory is skipped.
VisitMetadata ==
    \E i \in KepFiles :
        /\ Visiting(i)
        /\ files' = Append(files, i)
        /\ pending' = pending \ Children(parent[i])
        /\ UNCHANGED <<worktree, pc, kept>>

\* Other files and symbolic links.
VisitOther ==
    \E i \in Files \ KepFiles :
        /\ Visiting(i)
        /\ pending' = pending \ {i}
        /\ UNCHANGED <<worktree, pc, files, kept>>

\* A name is gone: lstat fails and the callback calls info.Name() of a nil
\* FileInfo, or a directory goes after lstat and cannot be listed.
VisitVanished ==
    \E i \in Paths \ disk :
        /\ Visiting(i)
        /\ \/ pc' = "panicked"
           \/ isDir[i] /\ pc' = "error"
        /\ UNCHANGED <<worktree, pending, files, kept>>

\* The first YAML document of a file: a blank section before a "---" is none.
firstDocument(sections) ==
    IF sections[1] = Blank /\ Len(sections) > 1 THEN sections[2] ELSE sections[1]

loadError(c) == c \in {NotExist, Unreadable} \/ firstDocument(c) \notin Proposals

\* Mutant of LoadKEP: the Proposal is validated too.
LoadKEPValid ==
    /\ pc = "walk" /\ pending = {} /\ files # << >>
    /\ LET c == content[Head(files)]
       IN  IF loadError(c) \/ ~validateStruct(firstDocument(c))
           THEN pc' = "error" /\ kept' = {} /\ UNCHANGED files
           ELSE /\ kept' = kept \cup {<<Head(files), firstDocument(c)>>}
                /\ files' = Tail(files)
                /\ UNCHANGED pc
    /\ UNCHANGED <<worktree, pending>>

\* Mutant of LoadKEP: the error of UnmarshalStrict is dropped.
LoadKEPUnchecked ==
    /\ pc = "walk" /\ pending = {} /\ files # << >>
    /\ LET c == content[Head(files)]
       IN  IF c \in {NotExist, Unreadable}
           THEN pc' = "error" /\ kept' = {} /\ UNCHANGED files
           ELSE /\ kept' = kept \cup {<<Head(files), firstDocument(c)>>}
                /\ files' = Tail(files)
                /\ UNCHANGED pc
    /\ UNCHANGED <<worktree, pending>>

\* Mutant of LoadKEP: a file that does not load is left out.
LoadKEPOrSkip ==
    /\ pc = "walk" /\ pending = {} /\ files # << >>
    /\ LET c == content[Head(files)]
       IN  kept' = IF loadError(c) THEN kept ELSE kept \cup {<<Head(files), firstDocument(c)>>}
    /\ files' = Tail(files)
    /\ UNCHANGED <<worktree, pc, pending>>

\* loadKEPFromYaml of the next file; the first error is the result.
LoadKEP ==
    /\ pc = "walk" /\ pending = {} /\ files # << >>
    /\ LET c == content[Head(files)]
       IN  IF loadError(c)
           THEN pc' = "error" /\ kept' = {} /\ UNCHANGED files
           ELSE /\ kept' = kept \cup {<<Head(files), firstDocument(c)>>}
                /\ files' = Tail(files)
                /\ UNCHANGED pc
    /\ UNCHANGED <<worktree, pending>>

LoadReturns ==
    /\ pc = "walk" /\ pending = {} /\ files = << >>
    /\ pc' = "returned"
    /\ UNCHANGED <<worktree, pending, files, kept>>

LoaderStep ==
    \/ findLocalKEPMeta \/ VisitDir \/ VisitMetadata \/ VisitOther \/ VisitVanished
    \/ LoadKEP \/ LoadReturns

----------------------------------------------------------------------------
(* Properties *)

\* What a walk of the SIG gets to in a tree with the paths S: a kep.yaml hides what
\* is sorted after it in its directory.
Reaches(S, i) ==
    /\ SigPath \in PathTo(i)
    /\ \A m \in {f \in S \cap KepFiles : SigPath \in PathTo(f)} :
         \A a \in PathTo(i) : parent[a] = parent[m] => a <= m

Shown(S) == {i \in S \cap KepFiles : Reaches(S, i)}

\* On a tree that nobody changes, LoadLocalKEPs fails exactly if a directory it has
\* to list or a KEP it shows cannot be read, and returns all of the KEPs that it
\* shows otherwise: what KepQuery takes as one step.
LoadIsOneStep ==
    edits = 0 /\ pc \in {"returned", "error", "panicked"} =>
        IF \/ \E m \in Shown(disk) : loadError(content[m])
           \/ \E d \in denied : Reaches(disk, d)
        THEN pc = "error"
        ELSE pc = "returned" /\ kept = {<<m, firstDocument(content[m])>> : m \in Shown(disk)}

\* Whatever changes meanwhile, an answer has every KEP that was left alone, and
\* nothing that was not in the tree at some moment of the call.
LoadedKEPsAreReal ==
    pc = "returned" =>
        /\ \A m \in Shown(disk \cup touched) :
             PathTo(m) \cap touched = {} =>
                 ~loadError(content[m]) /\ <<m, firstDocument(content[m])>> \in kept
        /\ \A k \in kept : \E s \in seen :
             s[1] = k[1] /\ s[2] # Unreadable /\ firstDocument(s[2]) = k[2]

\* One KEP fails all of them, but only one that did not load at some moment of the
\* call; without such a KEP, a directory that cannot be listed or a path that went
\* away the answer is there, and only a path that went away makes it panic.
LoadFailsForACause ==
    /\ pc = "panicked" => \E i \in removed : SigPath \in PathTo(i)
    /\ pc = "error" => \/ \E i \in removed \cup denied : SigPath \in PathTo(i)
                       \/ \E s \in seen : s[1] \in KepFiles /\ loadError(s[2])
=============================================================================
