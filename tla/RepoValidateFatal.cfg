\* A kep.yaml that cannot be opened: validate.go:122 says that this stops the validation.
CONSTANTS
    Groups = {"sig-a"}
    PRRApprovers = {"prr"}
    Nil = Nil
    Malformed = Malformed
    NotExist = NotExist
    Unreadable = Unreadable
    BadMilestone = BadMilestone
    Tree <- NestedTree
    Docs <- PRRDocs
    PRRFiles <- PRRDocuments
    PRRKeys <- KeysOfDocs
    Checkouts <- QuietCheckouts
    MaxEdits = 0
SPECIFICATION Spec
INVARIANT FatalStops
\* Validate returns: its process may stop.
CHECK_DEADLOCK FALSE
