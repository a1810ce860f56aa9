----------------------------- MODULE MCKepQuery -----------------------------
(* Instances of KepQuery for TLC. *)
EXTENDS KepQuery

\* A pattern is a group name, "." for any group, "zzz" for none.
MCMatches(re, group) == re = group \/ re = "."

\* The groups of the community, and a page that has none in it.
GroupAnswers == {<<"sig-a", "sig-b", "sig-c">>, << >>}
AllGroups == {<<"sig-a", "sig-b", "sig-c">>}

AliasAnswers == {[approvers |-> {"prr"}, emeritus |-> {}], [approvers |-> {}, emeritus |-> {}]}

\* A clone, and clones that lack a path or have something else there.
Whole == <<"present", "present", "present", "present">>
MCLayouts ==
    {Whole,
     [Whole EXCEPT ![1] = "absent", ![2] = "absent", ![3] = "absent", ![4] = "absent"],
     [Whole EXCEPT ![2] = "other kind", ![3] = "absent"],
     [Whole EXCEPT ![3] = "other kind"],
     [Whole EXCEPT ![4] = "absent"]}
OneLayout == {Whole}

Someone == [at |-> TRUE, name |-> "a"]

Doc(status, stage) ==
    [title |-> "t", number |-> "1", authors |-> {Someone}, owningSIG |-> "sig-a",
     participatingSIGs |-> Nil, approvers |-> {Someone}, status |-> status,
     stage |-> stage, latestMilestone |-> NoMilestone]

Draft == Doc("provisional", "")
Astray == [Doc("implementable", "alpha") EXCEPT !.owningSIG = "sig-b"]
Ready == Doc("implementable", "alpha")

Top(n) == << << >>, n>>
Nested(n) == << <<"sub">>, n>>

\* A group with three KEPs, one of which belongs to another group and one of which
\* is in a directory of its own, a group without a directory, and one with a
\* kep.yaml that does not unmarshal.
MCLocal ==
    [g \in Groups |->
       CASE g = "sig-a" -> [t \in {Top("k1"), Top("k2"), Nested("k6")} |->
                              IF t = Top("k1") THEN Draft ELSE IF t = Top("k2") THEN Astray ELSE Ready]
         [] g = "sig-b" -> NotExist
         [] OTHER -> [t \in {Top("k3")} |-> Malformed]]

A(n) == <<"sig-a", << >>, n>>
B(n) == <<"sig-b", << >>, n>>
Sub(n) == <<"sig-a", <<"sub">>, n>>

\* The branch of a pull request: no other KEP is on it.
Branch(keps) ==
    [t \in Groups \X {<< >>, <<"sub">>} \X {"k1", "k3", "k4", "k5", "k6", "sub"} |->
       IF t \in DOMAIN keps THEN keps[t] ELSE NotExist]

\* The newest pull request belongs to both groups, the second touches a nested KEP
\* and the oldest has no kind/kep label.
ThreePRs == <<
    [labels |-> {sigLabel("sig-a")}, pages |-> <<{A("k1")}>>,
     tree |-> Branch([t \in {A("k1")} |-> Ready])],
    [labels |-> {proposalLabel, sigLabel("sig-a")}, pages |-> <<{A("k1"), A("k3"), Sub("k6")}>>,
     tree |-> Branch([t \in {A("k1"), A("k3"), Sub("k6")} |-> IF t = A("k3") THEN Malformed ELSE Ready])],
    [labels |-> {proposalLabel, sigLabel("sig-a"), sigLabel("sig-b")},
     pages |-> <<{A("k1"), B("k4")}, {A("k5")}>>,
     tree |-> Branch([t \in {A("k1"), A("k5"), B("k4")} |-> IF t = A("k1") THEN Draft ELSE Ready])] >>

Sound == [groups |-> <<"sig-a", "sig-b">>, includePRs |-> TRUE, status |-> {}, stage |-> {},
          prrApprover |-> {}, author |-> {}, approver |-> {}, participant |-> {}, output |-> "table"]

\* Requests that succeed, one that reaches the broken group, and options that are
\* rejected; a pattern that does not compile is reached or not.
MixedRequests ==
    {Sound,
     [Sound EXCEPT !.groups = <<"sig-a">>, !.stage = {"none"}],
     [Sound EXCEPT !.groups = <<"sig-a">>, !.includePRs = FALSE, !.author = {Someone}, !.output = "json"],
     [Sound EXCEPT !.groups = << >>],
     [Sound EXCEPT !.groups = <<".", "(">>],
     [Sound EXCEPT !.groups = <<"zzz">>],
     [Sound EXCEPT !.groups = <<"sig-a", "(">>],
     [Sound EXCEPT !.output = "xml"]}
OneRequest == {Sound}
=============================================================================
