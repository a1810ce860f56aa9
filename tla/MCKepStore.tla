----------------------------- MODULE MCKepStore -----------------------------
(* Instances of KepStore for TLC. *)
EXTENDS KepStore

People(n) == {[at |-> FALSE, name |-> n]}

KEP(sig, approvers) ==
    [title |-> "t", number |-> "1", authors |-> updatePersonReference(People("a")), owningSIG |-> sig,
     participatingSIGs |-> Nil, approvers |-> approvers, status |-> "implementable",
     stage |-> "alpha", latestMilestone |-> 20]

MCDirs == {"sig-a", "sig-b"} \X {"1-x"}
Only(d, kep) == [e \in MCDirs |-> IF e = d THEN kep ELSE NotExist]

\* No KEP; one in the directory of its group; one whose approvers are empty or missing.
AtHome == {Only(<<"sig-a", "1-x">>, k) : k \in {NotExist, KEP("sig-a", updatePersonReference(People("b"))),
                                               KEP("sig-a", {}), KEP("sig-a", Nil)}}
\* A KEP in the directory of a group that no longer owns it.
Moved == {Only(<<"sig-a", "1-x">>, KEP("sig-b", updatePersonReference(People("b"))))}
\* Both.
Anywhere == AtHome \cup Moved

NewKEP == [sig |-> "sig-a", name |-> "1-x", number |-> "1", title |-> "t", authors |-> People("a"),
           approvers |-> People("b"), participatingSIGs |-> {}, state |-> "provisional", stage |-> "alpha"]

\* The defaults of the command line, and what Validate and WriteKEP reject.
MCCreates ==
    {NewKEP,
     [NewKEP EXCEPT !.state = "implementable", !.participatingSIGs = {"sig-b"}],
     [NewKEP EXCEPT !.authors = {}],
     [NewKEP EXCEPT !.title = ""],
     [NewKEP EXCEPT !.sig = "sig-z"],
     [NewKEP EXCEPT !.state = "implemented"],
     [NewKEP EXCEPT !.name = ""]}

MCPromotes == {[sig |-> "sig-a", name |-> "1-x", stage |-> "beta", release |-> 21, cwd |-> cwd] : cwd \in BOOLEAN}
=============================================================================
