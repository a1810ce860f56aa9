\* The loader of a SIG and kepify on a tree that changes twice.
CONSTANTS
    Groups = {"sig-a"}
    PRRApprovers = {"prr"}
    Nil = Nil
    Malformed = Malformed
    NotExist = NotExist
    Unreadable = Unreadable
    BadMilestone = BadMilestone
    Blank = Blank
    Tree <- MCTree
    Contents <- MCContents
    Trees <- MCTrees
    SigPath = 3
    Symlinks <- MCSymlinks
    MarkdownNames <- MCMarkdownNames
    OldOutput = OldOutput
    MaxOpen = 2
    MaxEdits = 2
    MaxFailures = 1
SPECIFICATION Spec
INVARIANTS TypeOK LoadIsOneStep LoadedKEPsAreReal LoadFailsForACause
INVARIANTS OutputIsWhole EmptyOutputNeedsAFault ConvertsUpToTheLimit
PROPERTY ReadersEnd
\* A program that has ended does nothing more.
CHECK_DEADLOCK FALSE
