---------------------------- MODULE WorkingTree ----------------------------
(***************************************************************************)
(* A working tree that one program reads while its user changes it, and    *)
(* what the programs share: a walk of the tree (filepath.Walk) that        *)
(* collects files.  LocalLoader and Kepify are the programs.               *)
(*                                                                         *)
(* A file is the sequence of its sections, the parts between its lines     *)
(* with "---": each is a Proposal in YAML, Blank, or Malformed for         *)
(* anything else.  Without such a line it has one section.                 *)
(***************************************************************************)
EXTENDS KepMetadata, FileTree

CONSTANTS
    Blank,          \* an empty section
    Contents,       \* what the user writes to a file
    Trees,          \* the [disk, denied, content] to start on
    MaxEdits        \* bound: changes while a program runs

Files == {i \in Paths : ~isDir[i]}

ASSUME TreesAreTrees ==
    \A t \in Trees :
        /\ t.disk \in SUBSET Paths /\ Root \in t.disk /\ Closed(t.disk)
        /\ t.denied \subseteq t.disk \ Files
        /\ DOMAIN t.content = Files
        /\ \A f \in Files : t.content[f] = NotExist <=> f \notin t.disk

ASSUME EditConstants == MaxEdits \in Nat /\ NotExist \notin Contents

VARIABLES
    disk,       \* the paths that exist
    denied,     \* the directories that cannot be listed
    content,    \* Files -> the sections of the file; NotExist, Unreadable
    edits,      \* changes so far
    touched,    \* history: the paths that were created, written or removed
    removed,    \* history: the paths that were removed
    seen,       \* history: the <<file, content>> there were
    pc,         \* where the program is
    pending,    \* the names that the walk has listed and not yet visited
    files,      \* the files found and not yet read
    kept        \* the <<file, Proposal>> read

worktree == <<disk, denied, content, edits, touched, removed, seen>>
treeVars == <<disk, denied, content, edits, touched, removed, seen, pc, pending, files, kept>>

TreeInit ==
    /\ \E t \in Trees : disk = t.disk /\ denied = t.denied /\ content = t.content
    /\ edits = 0 /\ touched = {} /\ removed = {}
    /\ seen = {<<f, content[f]>> : f \in Files \cap disk}
    /\ pc = "idle" /\ pending = {} /\ files = << >> /\ kept = {}

Visiting(i) == pc = "walk" /\ i \in pending /\ \A j \in pending : i <= j

\* The names that a directory has when it is listed.
Lists(d) == Children(d) \cap disk

----------------------------------------------------------------------------
(* The user, while the program runs. *)

Running == pc \notin {"idle", "returned", "error", "panicked", "done", "exited", "crashed", "killed"}

Edit(paths) ==
    /\ Running /\ edits < MaxEdits
    /\ edits' = edits + 1
    /\ touched' = touched \cup paths
    /\ seen' = seen \cup {<<f, content'[f]>> : f \in Files \cap disk'}
    /\ UNCHANGED <<pc, pending, files, kept>>

\* A file or a directory with all that is in it.
Remove ==
    \E i \in disk \ {Root} :
        LET gone == {j \in disk : i \in PathTo(j)}
        IN  /\ disk' = disk \ gone
            /\ denied' = denied \ gone
            /\ content' = [f \in Files |-> IF f \in gone THEN NotExist ELSE content[f]]
            /\ removed' = removed \cup gone
            /\ Edit(gone)

\* A file, in directories that are made if they are missing.
Write ==
    \E f \in Files, c \in Contents :
        /\ content[f] # c
        /\ disk' = disk \cup PathTo(f)
        /\ content' = [content EXCEPT ![f] = c]
        /\ Edit({f} \cup (PathTo(f) \ disk))
        /\ UNCHANGED <<denied, removed>>
=============================================================================
