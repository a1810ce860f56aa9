------------------------------ MODULE MCKepctl ------------------------------
(* Instances of Kepctl for TLC. *)
EXTENDS MCKepStore, Kepctl, TLC

\* Every flag that a KEP needs, the same with a stage, and none.
FullLine == [title |-> "t", number |-> "1", name |-> "1-x", owningSig |-> "sig-a",
             authors |-> People("a"), approvers |-> People("b")]
MCCreateLines == {FullLine, FullLine @@ [stage |-> "beta"], << >>}

MCPromoteLines ==
    {[kep |-> <<"sig-a", "1-x">>, flags |-> [stage |-> "beta", release |-> 21], cwd |-> cwd] : cwd \in BOOLEAN}

NoOptions == {}
=============================================================================
