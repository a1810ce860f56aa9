--------------------------- MODULE FileTreeProofs ---------------------------
(***************************************************************************)
(* Facts about the paths of FileTree, for any tree.                        *)
(***************************************************************************)
EXTENDS FileTree, TLAPS, WellFoundedInduction

\* What TreeIsATree says of the paths that filepath.Walk may visit.
LEMMA TreeFacts ==
    /\ Paths \subseteq Nat /\ Root \in Paths /\ isDir[Root]
    /\ Metadata \subseteq Paths
    /\ \A i \in Paths : /\ PathTo(i) \subseteq Paths /\ i \in PathTo(i) /\ Root \in PathTo(i)
                        /\ parent[i] = Tree[i].parent /\ name[i] = Tree[i].name /\ isDir[i] = Tree[i].dir
                        /\ within[i] = Tree[i].within
    /\ \A i \in Paths : \A d \in PathTo(i) : ~isDir[d] => d = i
    /\ \A i \in Paths : \A d \in PathTo(i) : d # i => \E c \in PathTo(i) : parent[c] = d
    /\ \A i \in Paths : \A d \in PathTo(i) : d # i => d \in within[i]
  <1>1. Paths \subseteq Nat /\ Root \in Paths
    BY TreeIsATree DEF Paths, Root
  <1>2. isDir[Root] /\ Metadata \subseteq Paths
    BY <1>1, TreeIsATree DEF isDir, Metadata
  <1>3. \A i \in Paths : /\ PathTo(i) \subseteq Paths /\ i \in PathTo(i) /\ Root \in PathTo(i)
                         /\ parent[i] = Tree[i].parent /\ name[i] = Tree[i].name /\ isDir[i] = Tree[i].dir
                         /\ within[i] = Tree[i].within
    BY TreeIsATree DEF PathTo, parent, name, isDir, within
  <1>4. \A i \in Paths : \A d \in PathTo(i) : d # i => d \in within[i]
    BY DEF PathTo
  <1>5. ASSUME NEW i \in Paths, NEW d \in PathTo(i), d # i
        PROVE  isDir[d] /\ \E c \in PathTo(i) : parent[c] = d
    <2>1. i # Root
      BY <1>3, <1>4, <1>5, TreeIsATree
    <2>2. d \in Paths /\ Tree[d].dir /\ \E c \in PathTo(i) : Tree[c].parent = d
      BY <2>1, <1>3, <1>4, <1>5, TreeIsATree
    <2> QED
      BY <2>2, <1>3
  <1> QED
    BY <1>1, <1>2, <1>3, <1>4, <1>5

\* What is above a path of i is above i.
LEMMA PathsNest == \A i \in Paths : \A j \in PathTo(i) : PathTo(j) \subseteq PathTo(i)
  <1>1. ASSUME NEW i \in Paths, NEW j \in PathTo(i), j # i PROVE PathTo(j) \subseteq PathTo(i)
    <2>1. i # Root /\ j \in within[i]
      BY <1>1, TreeIsATree, TreeFacts
    <2>2. j \in Tree[i].within
      BY <2>1, TreeFacts
    <2> QED
      BY <2>1, <2>2, TreeIsATree
  <1> QED
    BY <1>1

\* What a directory lists: the path to a child is the path to the directory and the
\* child.
LEMMA ChildPath ==
  ASSUME NEW d \in Paths, NEW c \in Children(d)
  PROVE  c \in Paths /\ d < c /\ parent[c] = d /\ PathTo(c) = PathTo(d) \cup {c}
  <1>1. c \in Paths /\ parent[c] = d /\ Tree[c].parent = d
    BY TreeFacts DEF Children
  <1>2. c # Root
    <2>1. 0 \notin Paths
      BY DEF Paths
    <2> QED
      BY <1>1, <2>1, TreeIsATree
  <1>3. d \in 1 .. c - 1 /\ Tree[c].within = PathTo(d)
    BY <1>1, <1>2, TreeIsATree
  <1>4. d < c
    BY <1>1, <1>3, TreeFacts
  <1> QED
    BY <1>1, <1>3, <1>4, TreeFacts DEF PathTo

\* A path comes behind those above it, as filepath.Walk visits them.
LEMMA PathsAscend == \A i \in Paths : \A a \in PathTo(i) : a <= i
  <1> DEFINE U == {i \in Paths : \E a \in PathTo(i) : ~(a <= i)}
  <1> SUFFICES ASSUME U # {} PROVE FALSE
    OBVIOUS
  <1>1. PICK i \in U : \A y \in U : ~(y < i)
    <2>1. U \in SUBSET Nat
      BY TreeFacts
    <2> HIDE DEF U
    <2>2. PICK i \in U : \A y \in U : ~(<<y, i>> \in OpToRel(<, Nat))
      BY <2>1, WFMin, NatLessThanWellFounded, Zenon
    <2>3. \A y \in U : ~(y < i)
      BY <2>1, <2>2 DEF OpToRel
    <2> QED
      BY <2>3
  <1>2. i \in Paths /\ \E a \in PathTo(i) : ~(a <= i)
    BY <1>1
  <1>3. PICK a \in PathTo(i) : ~(a <= i)
    BY <1>2
  <1>4. i \in Nat /\ a \in Nat /\ a # i /\ a \in within[i]
    <2>1. i \in Nat /\ a \in Nat
      BY <1>2, <1>3, TreeFacts
    <2>2. a # i
      BY <1>3, <2>1
    <2> QED
      BY <1>2, <1>3, <2>1, <2>2, TreeFacts
  <1>5. i # Root
    <2>1. Tree[Root].within = {}
      BY TreeIsATree
    <2>2. within[Root] = {}
      BY <2>1, TreeFacts, Zenon
    <2> QED
      BY <1>4, <2>2
  <1> DEFINE p == Tree[i].parent
  <1>6. p \in 1 .. i - 1 /\ within[i] = PathTo(p)
    BY <1>2, <1>5, TreeIsATree, TreeFacts
  <1> HIDE DEF p, U
  <1>7. Len(Tree) \in Nat /\ i <= Len(Tree)
    BY <1>2, TreeIsATree DEF Paths
  <1>8. p \in Paths /\ p < i /\ p \in Nat
    BY <1>4, <1>6, <1>7 DEF Paths
  <1>9. a <= p
    BY <1>1, <1>4, <1>6, <1>8 DEF U
  <1> QED
    BY <1>3, <1>4, <1>8, <1>9
=============================================================================
