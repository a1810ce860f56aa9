--------------------------- MODULE MCRepoValidate ---------------------------
(* Instances of RepoValidate for TLC. *)
EXTENDS RepoValidate

\* The record of every path of a tree given as <<name, dir, parent>>.
WithAncestors(paths) ==
    LET above[i \in DOMAIN paths] ==
            IF i = 1 THEN {} ELSE {paths[i][3]} \cup above[paths[i][3]]
    IN  [i \in DOMAIN paths |-> [name |-> paths[i][1], dir |-> paths[i][2],
                                 parent |-> paths[i][3], within |-> above[i]]]

\* A KEP with a nested KEP before and after its kep.yaml, a misplaced kep.yaml
\* among the approvals, and the README.md of the root.
NestedTree == WithAncestors(<<
    <<"keps", TRUE, 0>>,
    <<"README.md", FALSE, 1>>,
    <<"prod-readiness", TRUE, 1>>,
    <<"kep.yaml", FALSE, 3>>,
    <<"sig-a", TRUE, 1>>,
    <<"1-kep", TRUE, 5>>,
    <<"early", TRUE, 6>>,
    <<"README.md", FALSE, 7>>,
    <<"kep.yaml", FALSE, 7>>,
    <<"kep.yaml", FALSE, 6>>,
    <<"late", TRUE, 6>>,
    <<"kep.yaml", FALSE, 11>>,
    <<"notes.md", FALSE, 6>> >>)

Handle(at, n) == [at |-> at, name |-> n]

KEP(number, status, stage, milestone) ==
    [title |-> "t", number |-> number, authors |-> {Handle(TRUE, "a")}, owningSIG |-> "sig-a",
     participatingSIGs |-> Nil, approvers |-> {Handle(TRUE, "b")}, status |-> status,
     stage |-> stage, latestMilestone |-> milestone]

Provisional == KEP("1", "provisional", "alpha", NoMilestone)

AllShapes == {S \in SUBSET Paths : Root \in S /\ Closed(S)}

WalkDocs == {Provisional, Malformed}

\* KEPs on both sides of every condition of isPRRRequired and ValidatePRR.
PRRDocs ==
    {Malformed,
     [Provisional EXCEPT !.approvers = Nil],
     Provisional,
     KEP("1", "implementable", "beta", 20),
     KEP("1", "implementable", "beta", 21),
     KEP("1", "implementable", "", 22),
     KEP("1", "implementable", "gamma", 22),
     KEP("1", "implemented", "stable", NoMilestone),
     KEP("2", "implemented", "stable", 22),
     KEP("2", "implementable", "alpha", BadMilestone)}

NoStage == [s \in ValidStages |-> Nil]
Approval(milestone) == [number |-> "1", milestone |-> milestone]

PRRDocuments ==
    {NotExist, Unreadable, Malformed,
     Approval(NoStage),
     [number |-> "", milestone |-> NoStage],
     Approval([NoStage EXCEPT !["beta"] = EmptyHandle]),
     Approval([NoStage EXCEPT !["alpha"] = Handle(TRUE, "prr")]),
     Approval([NoStage EXCEPT !["beta"] = Handle(TRUE, "prr"), !["stable"] = Handle(FALSE, "prr")]),
     Approval([NoStage EXCEPT !["beta"] = Handle(TRUE, "someone"), !["stable"] = Handle(TRUE, "")])}

KeysOfDocs == {"sig-a"} \X {"1", "2"}
OnlyAbsent == {NotExist}

\* Nobody works on the tree: every shape, with unreadable paths; and on one shape, with
\* a KEP nested in another, every kind of KEP and of approval.
QuietCheckouts ==
    {[disks |-> AllShapes, docs |-> WalkDocs, drafts |-> {},
      denied |-> {{}, {6}, {10}, {3, 12}}, approvals |-> OnlyAbsent],
     [disks |-> {{1, 5, 6, 7, 9, 10}}, docs |-> PRRDocs, drafts |-> {},
      denied |-> {{}}, approvals |-> PRRDocuments]}

\* Somebody works on the tree: every shape of a KEP with its nested ones.
BusyCheckouts ==
    {[disks |-> {S \in AllShapes : S \subseteq {1, 5, 6, 7, 8, 9, 10, 11, 12}},
      docs |-> WalkDocs, drafts |-> WalkDocs,
      denied |-> {{}, {11}, {10}}, approvals |-> OnlyAbsent]}

QuietAndBusy == QuietCheckouts \cup BusyCheckouts
=============================================================================
