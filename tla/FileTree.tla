------------------------------ MODULE FileTree ------------------------------
(***************************************************************************)
(* The working tree that the tools read: keps/ as the sequence Tree of the *)
(* paths that may exist, in the order of a lexical pre-order walk.  A path *)
(* is its index, and Root is the directory keps/ itself.                   *)
(***************************************************************************)
EXTENDS Naturals, Sequences

CONSTANT Tree   \* <<[name, dir, parent, within], ...>>: the paths that may exist

Root == 1
Paths == 1 .. Len(Tree)
parent == [i \in Paths |-> Tree[i].parent]
name == [i \in Paths |-> Tree[i].name]
isDir == [i \in Paths |-> Tree[i].dir]
within == [i \in Paths |-> Tree[i].within]

ProposalMetadataFilename == "kep.yaml"
ProposalFilename == "README.md"
PRRApprovalPathStub == "prod-readiness"

Metadata == {i \in Paths : name[i] = ProposalMetadataFilename /\ ~isDir[i]}
Children(d) == {i \in Paths : parent[i] = d}

\* The directories on the way from the root to i, and i itself.
PathTo(i) == within[i] \cup {i}

\* A path exists only in a directory that exists.
Closed(S) == \A i \in S : PathTo(i) \subseteq S

ASSUME TreeIsATree ==
    /\ Len(Tree) \in Nat \ {0}
    /\ Tree[Root].dir /\ Tree[Root].parent = 0 /\ Tree[Root].within = {}
    /\ \A i \in Paths \ {Root} :
         /\ Tree[i].parent \in 1 .. i - 1
         /\ Tree[i].within = PathTo(Tree[i].parent)
         /\ \A d \in Tree[i].within : /\ Tree[d].dir /\ PathTo(d) \subseteq PathTo(i)
                                       /\ \E c \in PathTo(i) : Tree[c].parent = d
    /\ \A i \in Paths : /\ Tree[i].dir \in BOOLEAN /\ Tree[i].within \in SUBSET Paths
                        /\ Root \in PathTo(i)
=============================================================================
