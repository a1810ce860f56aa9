\* Every shape of a tree with nested KEPs and every kind of KEP and approval, on a tree that
\* nobody changes; and trees that change twice while they are validated.
CONSTANTS
    Groups = {"sig-a"}
    PRRApprovers = {"prr"}
    Nil = Nil
    Malformed = Malformed
    NotExist = NotExist
    Unreadable = Unreadable
    BadMilestone = BadMilestone
    Tree <- NestedTree
    Docs <- PRRDocs
    PRRFiles <- PRRDocuments
    PRRKeys <- KeysOfDocs
    Checkouts <- QuietAndBusy
    MaxEdits = 2
SPECIFICATION Spec
INVARIANTS TypeOK ExactReport GivesUpExactlyWhenBlocked PassMeansApproved SteadyKEPsAreJudged PanicOnlyIfVanished
PROPERTIES Terminates ImplementsGate
\* Validate returns: its process may stop.
CHECK_DEADLOCK FALSE
