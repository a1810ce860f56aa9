--------------------------- MODULE MCNodeApprovers ---------------------------
(* Instances of NodeApprovers for TLC. *)
EXTENDS NodeApprovers

\* "@Lead", "@lead" and "lead" are the same person.
Shout(n) == [at |-> TRUE, caps |-> TRUE, name |-> n]
At(n) == [at |-> TRUE, caps |-> FALSE, name |-> n]
Bare(n) == [at |-> FALSE, caps |-> FALSE, name |-> n]

Plain(h) == [user |-> h, marker |-> "none"]
Assigned(h) == [user |-> h, marker |-> "sig-node-assigned-approver"]
Reviewing(h) == [user |-> h, marker |-> "sig-node-assigned-reviewer"]

KEP(stage, milestone, approvers) ==
    [status |-> "implementable", stage |-> stage, latestMilestone |-> milestone,
     reviewers |-> Nil, approvers |-> approvers]

Empty == [status |-> "none", stage |-> "none", latestMilestone |-> 0, reviewers |-> Nil, approvers |-> Nil]

\* A KEP with a marked reviewer, and every way to list approvers.
OwnersDocs ==
    {Malformed, Empty,
     [KEP("beta", 36, {Plain(At("lead")), Assigned(At("dev"))}) EXCEPT !.reviewers = {Reviewing(At("rev"))}],
     KEP("alpha", 39, {Plain(At("lead")), Plain(At("dev"))}),
     KEP("alpha", 39, {Plain(At("lead")), Assigned(Shout("dev"))}),
     KEP("alpha", 39, {Assigned(At("lead")), Reviewing(At("dev")), Nil})}

\* Alpha KEPs before, at and after a release, and the KEPs that are passed over.
ReleaseDocs ==
    {Malformed,
     KEP("alpha", 37, {Plain(At("dev"))}),
     KEP("alpha", 37, {Assigned(At("dev"))}),
     KEP("alpha", 38, {Plain(At("lead")), Assigned(At("dev"))}),
     KEP("alpha", 38, {Assigned(At("lead"))}),
     KEP("beta", 36, {Plain(At("dev"))}),
     KEP("alpha", 35, {Plain(At("dev"))}),
     KEP("alpha", BadMilestone, {Plain(At("dev"))}),
     [KEP("alpha", 37, Nil) EXCEPT !.status = "withdrawn"],
     KEP("alpha", 37, Nil)}

AllDocs == OwnersDocs \cup ReleaseDocs

OwnersChoices ==
    {NotExist, Unreadable, Malformed,
     [reviewers |-> {}, approvers |-> {Bare("lead")}],
     [reviewers |-> {}, approvers |-> {Bare("lead"), Bare("dev")}],
     [reviewers |-> {Bare("rev")}, approvers |-> {Bare("dev")}]}

AliasChoices == {Unreadable, Nil, {}, {Shout("lead")}}

Pair(x, y) == [i \in KEPs |-> IF i = 1 THEN x ELSE y]

\* Every kep.yaml with every OWNERS, after the last release.
AfterReleases ==
    [kep     |-> {Pair(x, y) : x \in {Empty, Malformed} \cup {d \in OwnersDocs \ {Malformed} : d.reviewers # Nil},
                               y \in OwnersDocs},
     owners  |-> {Pair(x, y) : x \in {o \in OwnersChoices \ {Unreadable, Malformed} :
                                        o = NotExist \/ o.reviewers # {}},
                               y \in OwnersChoices},
     aliases |-> AliasChoices,
     tags    |-> {[m \in Minors |-> MaxTags]}]

\* KEPs of SIG Node before the first tag; a change of the tree leads to the others.
BeforeReleases ==
    [kep     |-> {Pair(Empty, y) : y \in {KEP("alpha", 37, {Assigned(At("dev"))}),
                                         KEP("alpha", 38, {Assigned(At("lead"))})}},
     owners  |-> {Pair(NotExist, NotExist)},
     aliases |-> {Unreadable, {Shout("lead")}},
     tags    |-> {[m \in Minors |-> 0]}]

Both == {AfterReleases, BeforeReleases}
After == {AfterReleases}
Before == {BeforeReleases}
==============================================================================
