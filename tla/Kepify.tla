------------------------------- MODULE Kepify -------------------------------
(***************************************************************************)
(* kepify (cmd/kepify/main.go): converts the KEPs in Markdown files, with  *)
(* their metadata between "---" lines, to one JSON file.  It collects the  *)
(* files, fetches groups and approvers, parses each file with              *)
(* KEPHandler.Parse and writes the output.                                 *)
(***************************************************************************)
EXTENDS WorkingTree, FiniteSets

CONSTANTS
    MarkdownNames,  \* the file names that end in "md"
    OldOutput,      \* what the output file holds before
    MaxOpen,        \* descriptors that the process may have open for KEPs
    MaxFailures     \* bound: downloads and calls on the output file that fail

\* An empty output file: it has no Proposal.
Truncated == {}

ASSUME KepifyConstants == MaxOpen \in Nat /\ MaxFailures \in Nat /\ OldOutput # Truncated

VARIABLES
    found,      \* the files that findMarkdownFiles has returned
    opened,     \* the descriptors that are open
    output,     \* the output file: OldOutput, Truncated or the set of Proposals
    failures

kepifyVars == <<found, opened, output, failures>>

KepifyInit == found = {} /\ opened = 0 /\ output = OldOutput /\ failures = 0

Fails == failures < MaxFailures /\ failures' = failures + 1

----------------------------------------------------------------------------
(* findMarkdownFiles *)

ignore(n) ==
    \/ n \notin MarkdownNames
    \/ n \in {"0023-documentation-for-images.md", "0004-cloud-provider-template.md",
              "0001a-meta-kep-implementation.md",
              "0001-kubernetes-enhancement-proposal-process.md",
              "YYYYMMDD-kep-template.md", "README.md", "kep-faq.md"}

Markdown == {i \in Files : ~ignore(name[i])}

Start ==
    /\ pc = "idle"
    /\ pc' = "walk" /\ pending' = {Root}
    /\ UNCHANGED <<worktree, files, kept, kepifyVars>>

WalkDir ==
    \E d \in {i \in disk : isDir[i]} :
        /\ Visiting(d)
        /\ IF d \in denied
           THEN pc' = "exited" /\ UNCHANGED pending
           ELSE pc' = pc /\ pending' = (pending \ {d}) \cup Lists(d)
        /\ UNCHANGED <<worktree, files, kept, kepifyVars>>

\* A file, there or gone since lstat.
WalkFile ==
    \E i \in Files :
        /\ Visiting(i)
        /\ files' = IF i \in Markdown THEN Append(files, i) ELSE files
        /\ pending' = pending \ {i}
        /\ UNCHANGED <<worktree, pc, kept, kepifyVars>>

\* A name is gone; here the callback looks at the error first.
WalkVanished ==
    \E i \in Paths \ disk :
        /\ Visiting(i)
        /\ pc' = "exited"
        /\ UNCHANGED <<worktree, pending, files, kept, kepifyVars>>

\* No file at all is an error.
WalkEnds ==
    /\ pc = "walk" /\ pending = {}
    /\ pc' = IF files = << >> THEN "exited" ELSE "groups"
    /\ found' = {files[i] : i \in DOMAIN files}
    /\ UNCHANGED <<worktree, pending, files, kept, opened, output, failures>>

\* Mutant of Fetch: the output file is created before the files are parsed.
FetchCreates ==
    /\ pc = "groups"
    /\ pc' = "parse" /\ output' = Truncated
    /\ UNCHANGED <<worktree, pending, files, kept, found, opened, failures>>

\* FetchGroups and FetchPRRApprovers (api/groups.go).
Fetch ==
    /\ pc = "groups"
    /\ \/ Fails /\ pc' = "exited"
       \/ pc' = "parse" /\ UNCHANGED failures
    /\ UNCHANGED <<worktree, pending, files, kept, found, opened, output>>

----------------------------------------------------------------------------
(* parseFiles *)

\* The section of a file that KEPHandler.Parse takes for its metadata: what is
\* between the first two lines with "---", or all of a file without one.
metadata(sections) == IF Len(sections) = 1 THEN sections[1] ELSE sections[2]

parseError(sections) ==
    metadata(sections) \notin Proposals \/ ParseKEP(metadata(sections)) # NoError

\* Mutant of ParseFile: a file that does not parse is left out.
ParseFileOrSkip ==
    /\ pc = "parse" /\ files # << >>
    /\ LET c == content[Head(files)]
       IN  IF c \in {NotExist, Unreadable} \/ opened = MaxOpen
           THEN pc' = "exited" /\ opened' = 0 /\ UNCHANGED <<files, kept>>
           ELSE /\ opened' = opened + 1
                /\ files' = Tail(files)
                /\ kept' = IF parseError(c) THEN kept ELSE kept \cup {<<Head(files), metadata(c)>>}
                /\ UNCHANGED pc
    /\ UNCHANGED <<worktree, pending, found, output, failures>>

\* The next file is opened, to be closed when parseFiles returns, and parsed.  For
\* a file that does not parse, kep.Error.Error() is called, and kep.Error is nil.
ParseFile ==
    /\ pc = "parse" /\ files # << >>
    /\ LET c == content[Head(files)]
       IN  IF c \in {NotExist, Unreadable} \/ opened = MaxOpen
           THEN pc' = "exited" /\ opened' = 0 /\ UNCHANGED <<files, kept>>
           ELSE /\ opened' = opened + 1
                /\ IF parseError(c)
                   THEN pc' = "crashed" /\ UNCHANGED <<files, kept>>
                   ELSE /\ kept' = kept \cup {<<Head(files), metadata(c)>>}
                        /\ files' = Tail(files)
                        /\ UNCHANGED pc
    /\ UNCHANGED <<worktree, pending, found, output, failures>>

ParseEnds ==
    /\ pc = "parse" /\ files = << >>
    /\ pc' = "create" /\ opened' = 0
    /\ UNCHANGED <<worktree, pending, files, kept, found, output, failures>>

----------------------------------------------------------------------------
(* printJSONOutput *)

\* Mutant of CreateOutput: it waits for an output file that is not there yet.
CreateOutputWaits ==
    /\ pc = "create" /\ output # OldOutput
    /\ output' = Truncated /\ pc' = "write"
    /\ UNCHANGED <<worktree, pending, files, kept, found, opened, failures>>

\* os.Create empties the file.
CreateOutput ==
    /\ pc = "create"
    /\ \/ Fails /\ pc' = "exited" /\ UNCHANGED output
       \/ output' = Truncated /\ pc' = "write" /\ UNCHANGED failures
    /\ UNCHANGED <<worktree, pending, files, kept, found, opened>>

\* Mutant of WriteOutput: the data is not written.
WriteOutputNever ==
    /\ pc = "write"
    /\ pc' = "done"
    /\ UNCHANGED <<worktree, pending, files, kept, found, opened, output, failures>>

\* os.WriteFile writes it.
WriteOutput ==
    /\ pc = "write"
    /\ \/ Fails /\ pc' = "exited" /\ UNCHANGED output
       \/ output' = {k[2] : k \in kept} /\ pc' = "done" /\ UNCHANGED failures
    /\ UNCHANGED <<worktree, pending, files, kept, found, opened>>

Kill ==
    /\ Running
    /\ pc' = "killed"
    /\ UNCHANGED <<worktree, pending, files, kept, kepifyVars>>

KepifyStep ==
    \/ Start \/ WalkDir \/ WalkFile \/ WalkVanished \/ WalkEnds \/ Fetch
    \/ ParseFile \/ ParseEnds \/ CreateOutput \/ WriteOutput

----------------------------------------------------------------------------
(* Properties *)

\* The output has the Proposal of every KEP that was left alone, and nothing that
\* was not in a file at some moment of the run; until all files are parsed, and if
\* one does not parse, the output of an earlier run is still there.
OutputIsWhole ==
    /\ pc = "done" =>
         /\ \A m \in Markdown \cap disk :
              PathTo(m) \cap touched = {} => metadata(content[m]) \in output
         /\ \A p \in output : \E s \in seen :
              s[1] \in Markdown /\ s[2] # Unreadable /\ metadata(s[2]) = p /\ ParseKEP(p) = NoError
    /\ output # OldOutput => found # {} /\ found = {k[1] : k \in kept}

\* The output is left empty only by a process that was killed, or whose write
\* failed, after every file was parsed.
EmptyOutputNeedsAFault ==
    output = Truncated /\ ~Running => pc = "killed" \/ failures > 0

\* On a tree that nobody changes and that can be read, kepify converts a number of
\* KEPs for which there are descriptors, all of them, or crashes at one that does
\* not parse; one KEP more and it exits.
ConvertsUpToTheLimit ==
    edits = 0 /\ failures = 0 /\ denied = {} /\ pc \in {"done", "exited", "crashed"} =>
        LET keps == Markdown \cap disk
            readable == \A m \in keps : content[m] # Unreadable
            wellFormed == \A m \in keps : content[m] # Unreadable /\ ~parseError(content[m])
        IN  /\ pc = "done" <=> wellFormed /\ keps # {} /\ Cardinality(keps) <= MaxOpen
            /\ pc = "crashed" => ~wellFormed
            /\ pc = "exited" => ~readable \/ keps = {} \/ Cardinality(keps) > MaxOpen
=============================================================================
