--------------------------- MODULE KepQueryProofs ---------------------------
(***************************************************************************)
(* Proofs about KepQuery, for any groups, KEPs, pull requests and options, *)
(* and any number of queries, failures and changes on GitHub.              *)
(***************************************************************************)
EXTENDS KepQuery, TLAPS, SequenceTheorems, WellFoundedInduction

Reading == {"files", "checkout", "read"}
Searching == {"search", "list", "select", "clone"} \cup Reading
Working == {"local"} \cup Searching
Ended == {"returned", "printed", "truncated"}

\* What NewRepo has seen to, and where a query is.
SetupInv ==
    /\ pc \notin {"new", "no client", "panicked"} => \A i \in Needed : layout[i] = "present"
    /\ pc \in Working \cup Ended \cup {"ready", "error"} => layout[4] = "present"
    /\ pc \notin {"new", "groups", "no client", "panicked"} => groups \in GroupLists
    /\ printed # Nil => pc \in {"printed", "truncated"}
    /\ pc \in Searching => sigs # << >> /\ opts.includePRs
    /\ pc \in Searching \ {"search"} => allPRs \in Seq(Numbers)
    /\ pc = "list" => page >= 1
    /\ pc \in {"checkout", "read"} => kepPRs # << >>

\* The local KEPs of the groups that are not to come have been collected.
LocalInv ==
    /\ pc \in {"new", "groups"} => allKEPs = {}
    /\ pc \in Working => Elems(sigs) \subseteq Chosen
    /\ pc \in Ended => sigs = << >>
    /\ \A k \in allKEPs :
         IF k.pr = 0 THEN \E g \in Chosen : k \in LocalKEPs(g)
         ELSE allPRs \in Seq(Numbers) /\ k.pr \in Elems(allPRs)
    /\ pc \notin Reading => prKEPs = {}
    /\ pc \in Reading \cup {"clone"} => Elems(kepPRs) \subseteq Elems(allPRs)
    /\ \A k \in prKEPs : k.pr \in Elems(allPRs)
    /\ pc \in Working \cup Ended => \A g \in Chosen : g \in Elems(sigs) \/ LocalKEPs(g) \subseteq allKEPs
    /\ pc \in Searching => LocalKEPs(Head(sigs)) \subseteq allKEPs
    /\ pc \in Ended => results = {k \in allKEPs : Allowed(opts, k.doc)}
    /\ pc = "printed" => printed = {Row(k) : k \in results}

\* The KEPs of pull requests that have been collected for a group.
Found(g) == {k \in allKEPs : k.sig = g /\ k.pr # 0}

\* The KEPs of one pull request.
KEPsOf(n, g) ==
    {[sig |-> g, dir |-> << >>, name |-> name, pr |-> n, doc |-> PullRequests[n].tree[<<g, << >>, name>>]] :
        name \in {m \in KepNames(n, g) : ~loadError(PullRequests[n].tree[<<g, << >>, m>>])}}

\* A group that is over has all of its pull requests or none, one that is to come
\* has none.
SearchInv ==
    pc \in Working \cup Ended /\ opts.includePRs =>
        /\ \A i, j \in DOMAIN sigs : sigs[i] = sigs[j] => i = j
        /\ \A g \in Chosen \ Elems(sigs) :
             IF g \in warned THEN Found(g) = {}
             ELSE /\ Found(g) = PullRequestKEPs(g, Elems(allPRs))
                  /\ allPRs \in Seq(Numbers) /\ pc # "list"
        /\ \A g \in Elems(sigs) : g \notin warned /\ Found(g) = {}

\* What has been read for the current group.
ReadInv ==
    /\ pc \in Reading \cup {"clone"} =>
         LET g == Head(sigs)
         IN  /\ prKEPs \subseteq PullRequestKEPs(g, Elems(allPRs))
             /\ \A n \in Elems(kepPRs) : Labelled(n, g)
             /\ \A n \in Elems(allPRs) :
                  Labelled(n, g) => n \in Elems(kepPRs) \/ KEPsOf(n, g) \subseteq prKEPs
    /\ pc \in {"checkout", "read"} =>
         /\ kepNames \subseteq KepNames(Head(kepPRs), Head(sigs))
         /\ \A k \in KEPsOf(Head(kepPRs), Head(sigs)) : k \in prKEPs \/ k.name \in kepNames
    /\ pc = "read" => gitRepo = Head(kepPRs)

\* Where the listing begins on its next page.
From == (page - 1) * PerPage

\* What is still to be listed.
ListInv ==
    /\ \A i, j \in DOMAIN open : i < j => open[i] > open[j]
    /\ pc = "list" =>
         /\ shrank \/ \A n \in held : n \in Elems(allPRs) \/ \E i \in DOMAIN open : i > From /\ open[i] = n
         /\ grew \/ /\ \A i, j \in DOMAIN allPRs : allPRs[i] = allPRs[j] => i = j
                    /\ \A i \in DOMAIN open : i > From => open[i] \notin Elems(allPRs)
    /\ ListingSurvivesChanges

----------------------------------------------------------------------------
(* Sequences *)

\* Every set of naturals that is not empty has a least element.
LEMMA LeastNumber ==
  ASSUME NEW T \in SUBSET Nat, T # {}
  PROVE  \E x \in T : \A y \in T : x <= y
  <1>1. PICK x \in T : \A y \in T : ~ (<<y, x>> \in OpToRel(<, Nat))
    BY WFMin, NatLessThanWellFounded, Zenon
  <1>2. \A y \in T : ~(y < x)
    BY <1>1 DEF OpToRel
  <1> QED
    BY <1>2

\* Induction up to N, over a set: T has 0 and, with a number below N, the next one.
LEMMA Induction ==
  ASSUME NEW N \in Nat, NEW T, 0 \in T, \A n \in 0 .. N : n \in T /\ n < N => n + 1 \in T
  PROVE  \A n \in 0 .. N : n \in T
  <1> SUFFICES ASSUME NEW m \in 0 .. N, m \notin T PROVE FALSE
    OBVIOUS
  <1> DEFINE U == {n \in 0 .. N : n \notin T}
  <1>1. PICK x \in U : \A y \in U : x <= y
    <2>1. U \in SUBSET Nat /\ U # {}
      OBVIOUS
    <2> HIDE DEF U
    <2> QED
      BY <2>1, LeastNumber
  <1>2. x # 0 /\ x - 1 \in 0 .. N /\ x - 1 < N /\ ~(x <= x - 1)
    OBVIOUS
  <1>3. x - 1 \in T
    BY <1>1, <1>2
  <1>4. (x - 1) + 1 \in T
    BY <1>2, <1>3
  <1> QED
    BY <1>2, <1>4

\* One turn of the loop of Keep.
Turn(seq, S, g, n) ==
    IF n = 0 THEN << >>
    ELSE IF seq[n] \in S THEN Append(g[n - 1], seq[n]) ELSE g[n - 1]

\* The function that Keep defines by recursion exists.
LEMMA KeepExists ==
  ASSUME NEW X, NEW seq \in Seq(X), NEW S
  PROVE  \E g : g = [n \in 0 .. Len(seq) |-> Turn(seq, S, g, n)]
  <1> DEFINE N == Len(seq)
             Upto(n, g) == g \in [0 .. n -> Seq(X)] /\ \A k \in 0 .. n : g[k] = Turn(seq, S, g, k)
             T == {n \in 0 .. N : \E g : Upto(n, g)}
  <1>1. N \in Nat
    OBVIOUS
  <1>2. 0 \in T
    <2> DEFINE g == [k \in 0 .. 0 |-> << >>]
    <2>1. Upto(0, g)
      BY DEF Turn
    <2> QED
      BY <2>1
  <1>3. ASSUME NEW n \in 0 .. N, n \in T, n < N PROVE n + 1 \in T
    <2>1. PICK g : Upto(n, g)
      BY <1>3
    <2> DEFINE h == [k \in 0 .. n + 1 |-> IF k = n + 1 THEN Turn(seq, S, g, n + 1) ELSE g[k]]
    <2>2. seq[n + 1] \in X /\ g[n] \in Seq(X)
      BY <1>1, <1>3, <2>1
    <2>3. Turn(seq, S, g, n + 1) \in Seq(X)
      BY <1>3, <2>2 DEF Turn
    <2>4. h \in [0 .. n + 1 -> Seq(X)]
      BY <2>1, <2>3
    <2>5. \A k \in 0 .. n : h[k] = g[k]
      BY <1>3
    <2>6. \A k \in 0 .. n + 1 : h[k] = Turn(seq, S, h, k)
      <3> TAKE k \in 0 .. n + 1
      <3>1. k = 0 \/ k - 1 \in 0 .. n
        BY <1>3
      <3>2. k # 0 => h[k - 1] = g[k - 1]
        BY <2>5, <3>1
      <3>3. Turn(seq, S, h, k) = Turn(seq, S, g, k)
        BY <3>2 DEF Turn
      <3>4. h[k] = Turn(seq, S, g, k)
        BY <2>1, <2>5
      <3> QED
        BY <3>3, <3>4
    <2>7. Upto(n + 1, h)
      BY <2>4, <2>6
    <2>8. \E f : Upto(n + 1, f)
      <3> HIDE DEF Upto, h
      <3> QED
        BY <2>7
    <2>9. n + 1 \in 0 .. N
      BY <1>1, <1>3
    <2> HIDE DEF Upto
    <2> QED
      BY <2>8, <2>9
  <1>4. N \in T
    <2> HIDE DEF T, N
    <2>1. \A n \in 0 .. N : n \in T
      BY <1>1, <1>2, <1>3, Induction
    <2> QED
      BY <1>1, <2>1
  <1>5. PICK g : Upto(N, g)
    BY <1>4
  <1> QED
    BY <1>5

\* Keep goes turn by turn.
LEMMA KeepTurns ==
  ASSUME NEW X, NEW seq \in Seq(X), NEW S
  PROVE  \E h : h = [n \in 0 .. Len(seq) |-> Turn(seq, S, h, n)] /\ Keep(seq, S) = h[Len(seq)]
  <1> DEFINE k == CHOOSE h : h = [n \in 0 .. Len(seq) |-> Turn(seq, S, h, n)]
  <1>1. k = [n \in 0 .. Len(seq) |-> Turn(seq, S, k, n)]
    BY KeepExists
  <1>2. Keep(seq, S) = k[Len(seq)]
    BY Zenon DEF Keep, Turn
  <1> QED
    BY <1>1, <1>2

\* t has the elements of S among the first n of seq, in their order: p says where
\* they were.
Embeds(t, seq, n, S, p) ==
    /\ p \in [1 .. Len(t) -> 1 .. n]
    /\ \A i \in 1 .. Len(t) : i <= p[i] /\ t[i] = seq[p[i]] /\ seq[p[i]] \in S
    /\ \A i, j \in 1 .. Len(t) : i < j => p[i] < p[j]
    /\ \A q \in 1 .. n : seq[q] \in S => \E i \in 1 .. Len(t) : p[i] = q

\* The loops of selectByRegexp (query.go:189) and over the labels (repo.go:352) keep
\* what they select, all of it and in order.
LEMMA KeepKeeps ==
  ASSUME NEW X, NEW seq \in Seq(X), NEW S
  PROVE  /\ Keep(seq, S) \in Seq(X)
         /\ \E p : Embeds(Keep(seq, S), seq, Len(seq), S, p)
  <1>1. PICK g : g = [n \in 0 .. Len(seq) |-> Turn(seq, S, g, n)] /\ Keep(seq, S) = g[Len(seq)]
    BY KeepTurns
  <1> DEFINE N == Len(seq)
             T == {n \in 0 .. N : g[n] \in Seq(X) /\ \E p : Embeds(g[n], seq, n, S, p)}
  <1>2. N \in Nat /\ \A n \in 0 .. N : g[n] = Turn(seq, S, g, n)
    BY <1>1
  <1>3. 0 \in T
    <2>1. g[0] = << >>
      BY <1>2 DEF Turn
    <2>2. Embeds(<< >>, seq, 0, S, [i \in 1 .. 0 |-> i])
      BY DEF Embeds
    <2>3. \E p : Embeds(g[0], seq, 0, S, p)
      BY <2>1, <2>2
    <2>4. g[0] \in Seq(X) /\ 0 \in 0 .. N
      BY <1>2, <2>1
    <2> QED
      BY <2>3, <2>4
  <1>4. ASSUME NEW n \in 0 .. N, n \in T, n < N PROVE n + 1 \in T
    <2>1. PICK p : Embeds(g[n], seq, n, S, p)
      BY <1>4
    <2>2. g[n] \in Seq(X) /\ seq[n + 1] \in X /\ n + 1 \in 0 .. N /\ n \in Nat /\ Len(g[n]) \in Nat
      BY <1>2, <1>4
    <2>3. g[n + 1] = IF seq[n + 1] \in S THEN Append(g[n], seq[n + 1]) ELSE g[n]
      BY <1>2, <2>2 DEF Turn
    <2>4. CASE seq[n + 1] \notin S
      <3>1. Embeds(g[n], seq, n + 1, S, p)
        <4>1. p \in [1 .. Len(g[n]) -> 1 .. n + 1]
          BY <2>1, <2>2 DEF Embeds
        <4>2. \A q \in 1 .. n + 1 : q = n + 1 \/ q \in 1 .. n
          BY <2>2
        <4> QED
          BY <2>1, <2>4, <4>1, <4>2 DEF Embeds
      <3> QED
        BY <2>2, <2>3, <2>4, <3>1
    <2>5. CASE seq[n + 1] \in S
      <3> DEFINE L == Len(g[n])
                 t == Append(g[n], seq[n + 1])
                 q == [i \in 1 .. L + 1 |-> IF i = L + 1 THEN n + 1 ELSE p[i]]
      <3>0. L \in Nat /\ L = Len(g[n]) /\ p \in [1 .. L -> 1 .. n]
        BY <2>1, <2>2 DEF Embeds
      <3>1. t \in Seq(X) /\ Len(t) = L + 1 /\ t[L + 1] = seq[n + 1] /\ \A i \in 1 .. L : t[i] = g[n][i]
        BY <2>2
      <3> HIDE DEF L
      <3>2. \A i \in 1 .. L : p[i] \in 1 .. n /\ q[i] = p[i] /\ i # L + 1
        <4> TAKE i \in 1 .. L
        <4>1. i # L + 1 /\ i \in 1 .. L + 1
          BY <3>0
        <4> QED
          BY <3>0, <4>1
      <3>3. \A i \in 1 .. L + 1 : i \in 1 .. L \/ i = L + 1
        BY <3>0
      <3>4. q \in [1 .. L + 1 -> 1 .. n + 1]
        BY <2>2, <3>0, <3>2, <3>3
      <3>5. L <= n
        <4>1. CASE L = 0
          BY <2>2, <3>0, <4>1
        <4>2. CASE L # 0
          <5>1. L \in 1 .. L
            BY <3>0, <4>2
          <5>2. L <= p[L] /\ p[L] \in 1 .. n
            BY <2>1, <3>0, <5>1 DEF Embeds
          <5> QED
            BY <2>2, <3>0, <5>2
        <4> QED
          BY <4>1, <4>2
      <3>6. \A i \in 1 .. L + 1 : i <= q[i] /\ t[i] = seq[q[i]] /\ seq[q[i]] \in S
        BY <2>1, <2>2, <2>5, <3>0, <3>1, <3>2, <3>3, <3>5 DEF Embeds
      <3>7. \A i, j \in 1 .. L + 1 : i < j => q[i] < q[j]
        <4> SUFFICES ASSUME NEW i \in 1 .. L + 1, NEW j \in 1 .. L + 1, i < j PROVE q[i] < q[j]
          OBVIOUS
        <4>1. i \in 1 .. L
          BY <3>0
        <4>2. CASE j = L + 1
          <5>1. p[i] \in 1 .. n /\ q[i] = p[i] /\ q[j] = n + 1
            BY <3>2, <4>1, <4>2
          <5> QED
            BY <2>2, <5>1
        <4>3. CASE j \in 1 .. L
          BY <2>1, <3>0, <3>2, <4>1, <4>3 DEF Embeds
        <4> QED
          BY <3>3, <4>2, <4>3
      <3>8. ASSUME NEW r \in 1 .. n + 1, seq[r] \in S PROVE \E i \in 1 .. L + 1 : q[i] = r
        <4>1. CASE r = n + 1
          <5>1. L + 1 \in 1 .. L + 1 /\ q[L + 1] = n + 1
            BY <3>0
          <5> QED
            BY <4>1, <5>1
        <4>2. CASE r \in 1 .. n
          <5>1. PICK i \in 1 .. L : p[i] = r
            BY <2>1, <3>0, <3>8, <4>2 DEF Embeds
          <5> QED
            BY <3>0, <3>2, <5>1
        <4> QED
          BY <2>2, <4>1, <4>2
      <3>9. Embeds(t, seq, n + 1, S, q)
        <4> HIDE DEF q, t
        <4> QED
          BY <3>1, <3>4, <3>6, <3>7, <3>8 DEF Embeds
      <3> QED
        BY <2>2, <2>3, <2>5, <3>1, <3>9
    <2> QED
      BY <2>4, <2>5
  <1>5. N \in T
    <2> HIDE DEF T, N
    <2>1. \A n \in 0 .. N : n \in T
      BY <1>2, <1>3, <1>4, Induction
    <2> QED
      BY <1>2, <2>1
  <1> QED
    BY <1>1, <1>5

\* What Keep selects, as a set.
LEMMA KeepElems ==
  ASSUME NEW X, NEW seq \in Seq(X), NEW S
  PROVE  Keep(seq, S) \in Seq(X) /\ Elems(Keep(seq, S)) = Elems(seq) \cap S
  <1> DEFINE t == Keep(seq, S)
  <1>1. t \in Seq(X)
    BY KeepKeeps
  <1>2. PICK p : Embeds(t, seq, Len(seq), S, p)
    BY KeepKeeps
  <1> HIDE DEF t
  <1>3. DOMAIN t = 1 .. Len(t) /\ DOMAIN seq = 1 .. Len(seq)
    BY <1>1
  <1>4. Elems(t) \subseteq Elems(seq) \cap S
    BY <1>2, <1>3 DEF Embeds, Elems
  <1>5. Elems(seq) \cap S \subseteq Elems(t)
    <2> SUFFICES ASSUME NEW q \in DOMAIN seq, seq[q] \in S PROVE seq[q] \in Elems(t)
      BY DEF Elems
    <2>1. PICK i \in 1 .. Len(t) : p[i] = q
      BY <1>2, <1>3 DEF Embeds
    <2> QED
      BY <1>2, <1>3, <2>1 DEF Embeds, Elems
  <1> QED
    BY <1>1, <1>4, <1>5 DEF t

\* Keep does not repeat an element that was there once.
LEMMA KeepOnce ==
  ASSUME NEW X, NEW seq \in Seq(X), NEW S,
         \A i, j \in DOMAIN seq : seq[i] = seq[j] => i = j
  PROVE  \A i, j \in DOMAIN Keep(seq, S) : Keep(seq, S)[i] = Keep(seq, S)[j] => i = j
  <1> DEFINE t == Keep(seq, S)
  <1>1. t \in Seq(X)
    BY KeepKeeps
  <1>2. PICK p : Embeds(t, seq, Len(seq), S, p)
    BY KeepKeeps
  <1> HIDE DEF t
  <1>3. DOMAIN t = 1 .. Len(t) /\ DOMAIN seq = 1 .. Len(seq) /\ Len(t) \in Nat /\ Len(seq) \in Nat
    BY <1>1
  <1>4. ASSUME NEW i \in DOMAIN t, NEW j \in DOMAIN t, t[i] = t[j] PROVE i = j
    <2>1. p[i] = p[j] /\ p[i] \in Nat
      BY <1>2, <1>3, <1>4 DEF Embeds
    <2> QED
      BY <1>2, <1>3, <2>1 DEF Embeds
  <1> QED
    BY <1>4 DEF t

\* The first of a sequence and the others.
LEMMA HeadAndTail ==
  ASSUME NEW X, NEW s \in Seq(X), s # << >>
  PROVE  /\ Head(s) \in X /\ Tail(s) \in Seq(X)
         /\ Elems(s) = {Head(s)} \cup Elems(Tail(s))
         /\ (\A i, j \in DOMAIN s : s[i] = s[j] => i = j) =>
              /\ Head(s) \notin Elems(Tail(s))
              /\ \A i, j \in DOMAIN Tail(s) : Tail(s)[i] = Tail(s)[j] => i = j
  <1> DEFINE t == Tail(s)
  <1>1. /\ Len(s) \in Nat \ {0} /\ DOMAIN s = 1 .. Len(s) /\ Head(s) = s[1] /\ s[1] \in X
        /\ t \in Seq(X) /\ Len(t) = Len(s) - 1
    OBVIOUS
  <1>2. DOMAIN t = 1 .. Len(s) - 1 /\ \A i \in 1 .. Len(s) - 1 : t[i] = s[i + 1]
    BY <1>1
  <1> HIDE DEF t
  <1>3. Elems(s) \subseteq {Head(s)} \cup Elems(t)
    <2> SUFFICES ASSUME NEW i \in 1 .. Len(s), i # 1 PROVE s[i] \in Elems(t)
      BY <1>1 DEF Elems
    <2>1. i - 1 \in 1 .. Len(s) - 1 /\ (i - 1) + 1 = i
      BY <1>1
    <2> QED
      BY <1>2, <2>1 DEF Elems
  <1>4. {Head(s)} \cup Elems(t) \subseteq Elems(s)
    <2>1. Head(s) \in Elems(s)
      BY <1>1 DEF Elems
    <2>2. ASSUME NEW i \in 1 .. Len(s) - 1 PROVE t[i] \in Elems(s)
      <3>1. i + 1 \in 1 .. Len(s)
        BY <1>1
      <3> QED
        BY <1>1, <1>2, <3>1 DEF Elems
    <2>3. Elems(t) \subseteq Elems(s)
      BY <1>2, <2>2 DEF Elems
    <2> QED
      BY <2>1, <2>3
  <1>5. ASSUME \A i, j \in DOMAIN s : s[i] = s[j] => i = j
        PROVE  Head(s) \notin Elems(t) /\ \A i, j \in DOMAIN t : t[i] = t[j] => i = j
    <2>1. \A i \in DOMAIN t : i + 1 \in DOMAIN s /\ i + 1 # 1 /\ t[i] = s[i + 1] /\ i \in Nat
      BY <1>1, <1>2
    <2> QED
      BY <1>1, <1>5, <2>1 DEF Elems
  <1> QED
    BY <1>1, <1>3, <1>4, <1>5 DEF t

\* A sequence that is not over has elements, one that is over has none.
LEMMA NoElems == Elems(<< >>) = {}
  BY DEF Elems

----------------------------------------------------------------------------
(* Pages *)

\* PullRequests.List: the pages follow each other without gap or overlap.
LEMMA PagesFollow ==
  ASSUME TypeOK, NEW n \in Nat, n >= 1
  PROVE  LET from == (n - 1) * PerPage
         IN  /\ from \in Nat
             /\ PageOf(n) \in Seq(Numbers)
             /\ \A i \in DOMAIN PageOf(n) : from + i \in DOMAIN open /\ PageOf(n)[i] = open[from + i]
             /\ NextPage(n) = 0 => \A i \in DOMAIN open : i > from => i - from \in DOMAIN PageOf(n)
             /\ NextPage(n) # 0 => /\ NextPage(n) = n + 1 /\ n * PerPage = from + PerPage
                                   /\ DOMAIN PageOf(n) = 1 .. PerPage
  <1> DEFINE from == (n - 1) * PerPage
             size == IF Len(open) - from < PerPage THEN Len(open) - from ELSE PerPage
  <1>1. PerPage \in Nat \ {0} /\ from \in Nat /\ n * PerPage = from + PerPage /\ n * PerPage \in Nat
    <2>1. PerPage \in Nat \ {0}
      BY QueryConstants
    <2>2. n - 1 \in Nat
      OBVIOUS
    <2>3. \A a, b \in Nat : a * b \in Nat
      OBVIOUS
    <2>4. \A a, b \in Int : a * b = (a - 1) * b + b
      OBVIOUS
    <2> QED
      BY <2>1, <2>2, <2>3, <2>4
  <1>2. Len(open) \in Nat /\ DOMAIN open = 1 .. Len(open) /\ \A i \in 1 .. Len(open) : open[i] \in Numbers
    <2>1. open \in Seq(Numbers)
      BY DEF TypeOK
    <2> QED
      BY <2>1
  <1>3. PageOf(n) = [i \in 1 .. size |-> open[from + i]]
    BY DEF PageOf
  <1> HIDE DEF from
  <1>4. size \in Int /\ size <= PerPage /\ size <= Len(open) - from
    BY <1>1, <1>2
  <1>5. \A i \in 1 .. size : from + i \in 1 .. Len(open)
    BY <1>1, <1>2, <1>4
  <1>6. PageOf(n) \in Seq(Numbers)
    <2>1. CASE size >= 0
      BY <1>2, <1>3, <1>4, <1>5, <2>1
    <2>2. CASE size < 0
      <3>1. 1 .. size = {}
        BY <1>4, <2>2
      <3>2. PageOf(n) = << >>
        BY <1>3, <3>1
      <3> QED
        BY <3>2
    <2> QED
      BY <1>4, <2>1, <2>2
  <1>7. ASSUME NextPage(n) = 0, NEW i \in DOMAIN open, i > from PROVE i - from \in 1 .. size
    <2>1. ~(n * PerPage < Len(open))
      BY <1>7 DEF NextPage
    <2> QED
      BY <1>1, <1>2, <1>7, <2>1
  <1>8. NextPage(n) # 0 => NextPage(n) = n + 1 /\ size = PerPage
    <2> SUFFICES ASSUME NextPage(n) # 0 PROVE NextPage(n) = n + 1 /\ size = PerPage
      OBVIOUS
    <2>1. n * PerPage < Len(open) /\ NextPage(n) = n + 1
      BY DEF NextPage
    <2>2. ~(Len(open) - from < PerPage)
      BY <1>1, <1>2, <2>1
    <2> QED
      BY <2>1, <2>2
  <1>9. DOMAIN PageOf(n) = 1 .. size /\ \A i \in 1 .. size : PageOf(n)[i] = open[from + i]
    BY <1>3
  <1> HIDE DEF size
  <1>10. /\ \A i \in DOMAIN PageOf(n) : from + i \in DOMAIN open /\ PageOf(n)[i] = open[from + i]
         /\ NextPage(n) = 0 => \A i \in DOMAIN open : i > from => i - from \in DOMAIN PageOf(n)
         /\ NextPage(n) # 0 => /\ NextPage(n) = n + 1 /\ n * PerPage = from + PerPage
                               /\ DOMAIN PageOf(n) = 1 .. PerPage
    BY <1>1, <1>2, <1>5, <1>7, <1>8, <1>9
  <1> QED
    BY <1>1, <1>6, <1>10 DEF from

----------------------------------------------------------------------------
(* Types *)

\* A query goes on with the groups that are left, also after a failure.
LEMMA NextGroup ==
  ASSUME TypeOK, SetupInv, pc \in Searching
  PROVE  /\ Head(sigs) \in Groups /\ Tail(sigs) \in Seq(Groups)
         /\ warned \cup {Head(sigs)} \in SUBSET Groups
  <1>1. sigs \in Seq(Groups) /\ sigs # << >> /\ warned \in SUBSET Groups
    BY DEF TypeOK, SetupInv
  <1> QED
    BY <1>1, HeadAndTail

\* PrepareQueryOpts selects groups of those that were fetched.
LEMMA SelectedAreGroups ==
  ASSUME groups \in GroupLists, NEW o
  PROVE  /\ SelectedGroups(o) \in Seq(Groups)
         /\ Elems(SelectedGroups(o)) =
              {g \in Elems(groups) : o.groups = << >> \/ \E re \in Elems(o.groups) : Matches(re, g)}
         /\ \A i, j \in DOMAIN SelectedGroups(o) : SelectedGroups(o)[i] = SelectedGroups(o)[j] => i = j
  <1>1. groups \in Seq(Groups) /\ \A i, j \in DOMAIN groups : groups[i] = groups[j] => i = j
    BY QueryConstants, GroupsAreNamedOnce
  <1>2. CASE o.groups = << >>
    BY <1>1, <1>2 DEF SelectedGroups
  <1>3. CASE o.groups # << >>
    <2> DEFINE S == {v \in Elems(groups) : \E re \in Elems(o.groups) : Matches(re, v)}
    <2>1. SelectedGroups(o) = Keep(groups, S)
      BY <1>3 DEF SelectedGroups, selectByRegexp
    <2> HIDE DEF S
    <2>2. Keep(groups, S) \in Seq(Groups) /\ Elems(Keep(groups, S)) = Elems(groups) \cap S
      BY <1>1, KeepElems
    <2>3. \A i, j \in DOMAIN Keep(groups, S) : Keep(groups, S)[i] = Keep(groups, S)[j] => i = j
      BY <1>1, KeepOnce
    <2> QED
      BY <1>3, <2>1, <2>2, <2>3 DEF S
  <1> QED
    BY <1>2, <1>3

\* The parts of TypeOK.
CounterTypes ==
    queries \in 0 .. MaxQueries /\ failures \in 0 .. MaxFailures /\ changes \in 0 .. MaxChanges

HistoryTypes == held \in SUBSET Numbers /\ grew \in BOOLEAN /\ shrank \in BOOLEAN

AnswerTypes == results \subseteq allKEPs /\ (printed = Nil \/ printed \subseteq {Row(k) : k \in results})

PlainTypes ==
    /\ layout \in Layouts
    /\ groups \in {Nil} \cup GroupLists
    /\ open \in Seq(Numbers)
    /\ allPRs = Nil \/ allPRs \in Seq(Numbers)
    /\ gitRepo \in {Nil, 0} \cup Numbers
    /\ opts \in Requests
    /\ pc \in {"new", "groups", "approvers", "template", "ready", "no client", "panicked",
              "error"} \cup Working \cup Ended
    /\ sigs \in Seq(Groups)
    /\ page \in Nat
    /\ kepPRs \in Seq(Numbers)
    /\ warned \in SUBSET Groups

\* TypeOK is its parts.
LEMMA TypeParts == TypeOK <=> CounterTypes /\ HistoryTypes /\ AnswerTypes /\ PlainTypes
  <1>1. <<queries, failures, changes>> \in (0 .. MaxQueries) \X (0 .. MaxFailures) \X (0 .. MaxChanges)
          <=> CounterTypes
    BY DEF CounterTypes
  <1>2. {grew, shrank} \subseteq BOOLEAN <=> grew \in BOOLEAN /\ shrank \in BOOLEAN
    OBVIOUS
  <1> QED
    BY <1>1, <1>2, Zenon DEF TypeOK, HistoryTypes, AnswerTypes, PlainTypes, Working, Ended, Searching, Reading

\* The bounds hold.
LEMMA CountersStay == CounterTypes /\ Next => CounterTypes'
  <1> SUFFICES ASSUME CounterTypes, Next PROVE CounterTypes'
    OBVIOUS
  <1>1. MaxQueries \in Nat /\ MaxFailures \in Nat /\ MaxChanges \in Nat
    BY QueryConstants
  <1>2. Fail \/ UNCHANGED failures
    BY DEF Next, Query, PrintProposals, Step, OpenPR, ClosePR, NewRepo, FetchGroups, FetchPRRApprovers, getProposalTemplate,
           LoadLocalKEPs, BeginSearch, ListPage, SelectPRs, Clone, ListFiles, CheckoutPullRequest, ReadKEP, Return
  <1>3. (queries < MaxQueries /\ queries' = queries + 1) \/ UNCHANGED queries
    BY DEF Next, Query, PrintProposals, Step, OpenPR, ClosePR, NewRepo, FetchGroups, FetchPRRApprovers, getProposalTemplate,
           LoadLocalKEPs, BeginSearch, ListPage, SelectPRs, Clone, ListFiles, CheckoutPullRequest, ReadKEP, Return, query
  <1>4. (changes < MaxChanges /\ changes' = changes + 1) \/ UNCHANGED changes
    BY DEF Next, Query, PrintProposals, Step, OpenPR, ClosePR, NewRepo, FetchGroups, FetchPRRApprovers, getProposalTemplate,
           LoadLocalKEPs, BeginSearch, ListPage, SelectPRs, Clone, ListFiles, CheckoutPullRequest, ReadKEP, Return, github
  <1> QED
    BY <1>1, <1>2, <1>3, <1>4 DEF CounterTypes, Fail

\* What the listing is held to is kept apart from the program's own state.
LEMMA HistoryStays == HistoryTypes /\ open \in Seq(Numbers) /\ Next => HistoryTypes'
  <1> SUFFICES ASSUME HistoryTypes, open \in Seq(Numbers), Next PROVE HistoryTypes'
    OBVIOUS
  <1>1. Elems(open) \subseteq Numbers
    BY DEF Elems
  <1>2. UNCHANGED history \/ BeginSearch \/ ListPage \/ OpenPR \/ ClosePR
    BY DEF Next, Query, PrintProposals, Step, NewRepo, FetchGroups, FetchPRRApprovers, getProposalTemplate,
           LoadLocalKEPs, SelectPRs, Clone, ListFiles, CheckoutPullRequest, ReadKEP, Return, query, history
  <1> QED
    BY <1>1, <1>2 DEF HistoryTypes, history, BeginSearch, ListPage, OpenPR, ClosePR

\* What is collected is not lost before it is filtered, and what is printed is a row
\* of the answer.
LEMMA AnswerStays == AnswerTypes /\ SetupInv /\ Next => AnswerTypes'
  <1> SUFFICES ASSUME AnswerTypes, SetupInv, Next PROVE AnswerTypes'
    OBVIOUS
  <1>1. CASE Query
    <2>1. printed = Nil
      BY <1>1 DEF Query, SetupInv
    <2> QED
      BY <1>1, <2>1 DEF Query, AnswerTypes
  <1>2. CASE PrintProposals
    <2>1. UNCHANGED <<results, allKEPs, opts>>
      BY <1>2 DEF PrintProposals
    <2>2. \A k : Row(k)' = Row(k)
      BY <2>1 DEF Row, Title, Link
    <2>3. printed' \subseteq {Row(k) : k \in results}
      BY <1>2 DEF PrintProposals
    <2> QED
      BY <2>1, <2>2, <2>3 DEF AnswerTypes
  <1>3. CASE Return
    <2>1. printed = Nil /\ UNCHANGED <<printed, allKEPs>>
      BY <1>3 DEF Return, SetupInv
    <2>2. results' \subseteq allKEPs
      BY <1>3 DEF Return
    <2> QED
      BY <2>1, <2>2 DEF AnswerTypes
  <1>4. CASE ~Query /\ ~PrintProposals /\ ~Return
    <2>1. UNCHANGED <<results, printed, opts>>
      BY <1>4 DEF Next, Step, OpenPR, ClosePR, NewRepo, FetchGroups, FetchPRRApprovers,
             getProposalTemplate, LoadLocalKEPs, BeginSearch, ListPage, SelectPRs, Clone, ListFiles,
             CheckoutPullRequest, ReadKEP, query
    <2>2. allKEPs \subseteq allKEPs'
      BY <1>4 DEF Next, Step, OpenPR, ClosePR, NewRepo, FetchGroups, FetchPRRApprovers,
             getProposalTemplate, LoadLocalKEPs, BeginSearch, ListPage, SelectPRs, Clone, ListFiles,
             CheckoutPullRequest, ReadKEP, query, Abort, Finish
    <2>3. \A k : Row(k)' = Row(k)
      BY <2>1 DEF Row, Title, Link
    <2> QED
      BY <2>1, <2>2, <2>3 DEF AnswerTypes
  <1> QED
    BY <1>1, <1>2, <1>3, <1>4

\* Every step keeps the other types.
LEMMA PlainStays == PlainTypes /\ TypeOK /\ SetupInv /\ Next => PlainTypes'
  <1> SUFFICES ASSUME PlainTypes, TypeOK, SetupInv, Next PROVE PlainTypes'
    OBVIOUS
  <1> USE DEF client, github, query, search, Working, Ended, Searching, Reading
  <1>1. CASE NewRepo \/ FetchGroups \/ FetchPRRApprovers \/ getProposalTemplate
    BY <1>1 DEF NewRepo, FetchGroups, FetchPRRApprovers, getProposalTemplate, PlainTypes
  <1>2. CASE Query
    <2>1. groups \in GroupLists
      BY <1>2 DEF Query, SetupInv
    <2>2. sigs' \in Seq(Groups)
      <3>1. PICK o : sigs' = << >> \/ sigs' = SelectedGroups(o)
        BY <1>2 DEF Query
      <3>2. SelectedGroups(o) \in Seq(Groups)
        BY <2>1, SelectedAreGroups
      <3>3. << >> \in Seq(Groups)
        OBVIOUS
      <3> QED
        BY <3>1, <3>2, <3>3
    <2>3. pc' \in {"error", "local"} /\ opts' \in Requests /\ warned' = {}
      BY <1>2 DEF Query
    <2> QED
      BY <1>2, <2>2, <2>3 DEF Query, PlainTypes
  <1>3. CASE LoadLocalKEPs
    <2>1. sigs' \in Seq(Groups)
      <3>1. sigs \in Seq(Groups) /\ sigs # << >> /\ (sigs' = sigs \/ sigs' = Tail(sigs))
        BY <1>3 DEF LoadLocalKEPs, PlainTypes
      <3> QED
        BY <3>1, HeadAndTail
    <2>2. pc' \in {"error", "search", "local"}
      BY <1>3 DEF LoadLocalKEPs
    <2> QED
      BY <1>3, <2>1, <2>2 DEF LoadLocalKEPs, PlainTypes
  <1>4. ASSUME pc \in Searching, Abort
        PROVE  sigs' \in Seq(Groups) /\ warned' \in SUBSET Groups /\ kepPRs' \in Seq(Numbers) /\ pc' = "local"
    BY <1>4, NextGroup DEF Abort
  <1>5. ASSUME pc \in Searching, NEW keps, Finish(keps)
        PROVE  sigs' \in Seq(Groups) /\ warned' = warned /\ kepPRs' \in Seq(Numbers) /\ pc' = "local"
    BY <1>5, NextGroup DEF Finish
  <1>6. CASE BeginSearch
    <2>1. sigs' \in Seq(Groups) /\ warned' \in SUBSET Groups /\ kepPRs' \in Seq(Numbers)
          /\ pc' \in {"local", "list", "select"}
      BY <1>4, <1>6 DEF BeginSearch, PlainTypes
    <2>2. allPRs' = allPRs \/ allPRs' \in Seq(Numbers)
      <3>1. << >> \in Seq(Numbers)
        OBVIOUS
      <3> QED
        BY <1>6, <3>1 DEF BeginSearch
    <2>3. page' \in Nat
      BY <1>6 DEF BeginSearch, PlainTypes
    <2> QED
      BY <1>6, <2>1, <2>2, <2>3 DEF BeginSearch, PlainTypes
  <1>7. CASE ListPage
    <2>1. allPRs \in Seq(Numbers) /\ page \in Nat /\ page >= 1
      BY <1>7 DEF ListPage, SetupInv, PlainTypes
    <2>2. PageOf(page) \in Seq(Numbers) /\ NextPage(page) \in Nat
      <3>1. NextPage(page) \in Nat
        BY <2>1 DEF NextPage
      <3> QED
        BY <2>1, <3>1, PagesFollow
    <2>3. allPRs' \in Seq(Numbers) /\ page' \in Nat
      <3>1. allPRs \o PageOf(page) \in Seq(Numbers)
        BY <2>1, <2>2
      <3>2. /\ allPRs' = allPRs \/ allPRs' = allPRs \o PageOf(page)
            /\ page' = page \/ page' = NextPage(page)
        BY <1>7 DEF ListPage
      <3> QED
        BY <2>1, <2>2, <3>1, <3>2
    <2>4. sigs' \in Seq(Groups) /\ warned' \in SUBSET Groups /\ kepPRs' \in Seq(Numbers)
          /\ pc' \in {"local", "list", "select"}
      BY <1>4, <1>7 DEF ListPage, PlainTypes
    <2> QED
      BY <1>7, <2>3, <2>4 DEF ListPage, PlainTypes
  <1>8. CASE SelectPRs
    <2> DEFINE found == Keep(allPRs, {n \in Elems(allPRs) : Labelled(n, Head(sigs))})
    <2>1. allPRs \in Seq(Numbers)
      BY <1>8 DEF SelectPRs, SetupInv
    <2>2. found \in Seq(Numbers)
      BY <2>1, KeepElems
    <2> HIDE DEF found
    <2>3. \/ Finish({})
          \/ /\ kepPRs' = found /\ pc' \in {"clone", "files"} /\ UNCHANGED <<sigs, warned>>
      BY <1>8 DEF SelectPRs, found
    <2>4. sigs' \in Seq(Groups) /\ warned' = warned /\ kepPRs' \in Seq(Numbers)
          /\ pc' \in {"local", "clone", "files"}
      BY <1>5, <1>8, <2>2, <2>3 DEF SelectPRs, PlainTypes
    <2> QED
      BY <1>8, <2>4 DEF SelectPRs, PlainTypes
  <1>9. CASE Clone
    <2>1. sigs' \in Seq(Groups) /\ warned' \in SUBSET Groups /\ kepPRs' \in Seq(Numbers)
          /\ pc' \in {"local", "files"} /\ gitRepo' \in {gitRepo, 0}
      BY <1>4, <1>9 DEF Clone, PlainTypes
    <2> QED
      BY <1>9, <2>1 DEF Clone, PlainTypes
  <1>10. CASE ListFiles
    <2>1. kepPRs # << >> => Tail(kepPRs) \in Seq(Numbers)
      BY HeadAndTail DEF PlainTypes
    <2>2. sigs' \in Seq(Groups) /\ warned' \in SUBSET Groups /\ kepPRs' \in Seq(Numbers)
          /\ pc' \in {"local", "files", "checkout"}
      BY <1>4, <1>5, <1>10, <2>1 DEF ListFiles, PlainTypes
    <2> QED
      BY <1>10, <2>2 DEF ListFiles, PlainTypes
  <1>11. CASE CheckoutPullRequest
    <2>1. Head(kepPRs) \in Numbers
      BY <1>11, HeadAndTail DEF CheckoutPullRequest, SetupInv, PlainTypes
    <2>2. sigs' \in Seq(Groups) /\ warned' \in SUBSET Groups /\ kepPRs' \in Seq(Numbers)
          /\ pc' \in {"local", "read"} /\ gitRepo' \in {gitRepo, Head(kepPRs)}
      BY <1>4, <1>11 DEF CheckoutPullRequest, PlainTypes
    <2> QED
      BY <1>11, <2>1, <2>2 DEF CheckoutPullRequest, PlainTypes
  <1>12. CASE ReadKEP
    <2>1. Tail(kepPRs) \in Seq(Numbers)
      BY <1>12, HeadAndTail DEF ReadKEP, SetupInv, PlainTypes
    <2>2. kepPRs' \in Seq(Numbers) /\ pc' \in {"files", "read"}
      BY <1>12, <2>1 DEF ReadKEP, PlainTypes
    <2> QED
      BY <1>12, <2>2 DEF ReadKEP, PlainTypes
  <1>13. CASE Return \/ PrintProposals
    BY <1>13 DEF Return, PrintProposals, PlainTypes
  <1>14. CASE OpenPR
    <2>1. open' \in Seq(Numbers)
      <3>1. PICK n \in Numbers : open' = <<n>> \o open
        BY <1>14 DEF OpenPR
      <3>2. open \in Seq(Numbers)
        BY DEF PlainTypes
      <3>3. <<n>> \in Seq(Numbers)
        OBVIOUS
      <3> QED
        BY <3>1, <3>2, <3>3
    <2> QED
      BY <1>14, <2>1 DEF OpenPR, PlainTypes
  <1>15. CASE ClosePR
    <2>1. open' \in Seq(Numbers)
      <3>1. PICK n : open' = Keep(open, Elems(open) \ {n})
        BY <1>15 DEF ClosePR
      <3>2. open \in Seq(Numbers)
        BY DEF PlainTypes
      <3> QED
        BY <3>1, <3>2, KeepElems
    <2> QED
      BY <1>15, <2>1 DEF ClosePR, PlainTypes
  <1> QED
    BY <1>1, <1>2, <1>3, <1>6, <1>7, <1>8, <1>9, <1>10, <1>11, <1>12, <1>13, <1>14, <1>15 DEF Next, Step

\* The search of a group ends, with its KEPs or without.
Ending == pc' = "local" /\ sigs' = Tail(sigs) /\ kepPRs' = << >> /\ kepNames' = {} /\ prKEPs' = {}

\* Every step keeps SetupInv.
LEMMA SetupStays == TypeOK /\ SetupInv /\ Next => SetupInv'
  <1> SUFFICES ASSUME TypeOK, SetupInv, Next PROVE SetupInv'
    OBVIOUS
  <1> USE DEF client, github, query, search, Working, Ended, Searching, Reading
  <1>1. CASE NewRepo
    <2>1. pc' = "groups" => \A i \in Needed : layout[i] = "present"
      <3> SUFFICES ASSUME pc' = "groups" PROVE \A i \in Needed : layout[i] = "present"
        OBVIOUS
      <3>1. statPaths(layout) = "found"
        BY <1>1 DEF NewRepo, statPaths
      <3>2. layout \in [1 .. 4 -> {"present", "absent", "other kind"}]
        BY QueryConstants DEF TypeOK
      <3>3. 1 \in Needed /\ 2 \in Needed /\ 3 \in Needed /\ Needed \subseteq 1 .. 4
            /\ \A i \in Needed : i = 1 \/ i = 2 \/ i = 3
        BY DEF Needed
      <3>4. ~\E i \in Needed : layout[i] = "absent" /\ \A j \in 1 .. i - 1 : layout[j] = "present"
        BY <3>1 DEF statPaths
      <3>5. ~\E i \in Needed : layout[i] = "other kind"
        BY <3>1, <3>4 DEF statPaths
      <3>6. \A i \in Needed : layout[i] \in {"present", "absent"}
        BY <3>2, <3>3, <3>5
      <3>7. /\ \A j \in 1 .. 1 - 1 : FALSE
            /\ \A j \in 1 .. 2 - 1 : j = 1
            /\ \A j \in 1 .. 3 - 1 : j = 1 \/ j = 2
        OBVIOUS
      <3>8. layout[1] = "present"
        BY <3>3, <3>4, <3>7, <3>6
      <3>9. layout[2] = "present"
        BY <3>3, <3>4, <3>7, <3>8, <3>6
      <3>10. layout[3] = "present"
        BY <3>3, <3>4, <3>7, <3>8, <3>9, <3>6
      <3> QED
        BY <3>3, <3>8, <3>9, <3>10
    <2>2. pc' \in {"no client", "panicked", "groups"} /\ UNCHANGED <<layout, printed>> /\ printed = Nil
      BY <1>1 DEF NewRepo, SetupInv
    <2> QED
      BY <2>1, <2>2 DEF SetupInv
  <1>2. CASE FetchGroups \/ FetchPRRApprovers \/ getProposalTemplate
    BY <1>2 DEF FetchGroups, FetchPRRApprovers, getProposalTemplate, SetupInv
  <1>3. CASE Query
    BY <1>3 DEF Query, SetupInv
  <1>4. CASE LoadLocalKEPs
    BY <1>4 DEF LoadLocalKEPs, SetupInv
  <1>5. ASSUME Ending, UNCHANGED <<layout, groups, printed>>, pc \in Searching PROVE SetupInv'
    BY <1>5 DEF Ending, SetupInv
  <1>6. CASE BeginSearch
    <2>1. CASE Abort
      BY <1>5, <1>6, <2>1 DEF BeginSearch, Abort, Ending
    <2>2. CASE allPRs = Nil /\ pc' = "list"
      <3>1. << >> \in Seq(Numbers)
        OBVIOUS
      <3> QED
        BY <1>6, <2>2, <3>1 DEF BeginSearch, SetupInv, Abort
    <2>3. CASE allPRs # Nil /\ pc' = "select"
      BY <1>6, <2>3 DEF BeginSearch, SetupInv, Abort, TypeOK
    <2> QED
      BY <1>6, <2>1, <2>2, <2>3 DEF BeginSearch
  <1>7. CASE ListPage
    <2>1. CASE Abort
      BY <1>5, <1>7, <2>1 DEF ListPage, Abort, Ending
    <2>2. CASE ~Abort
      <3>1. allPRs \in Seq(Numbers) /\ page \in Nat /\ page >= 1 /\ allPRs' = allPRs \o PageOf(page)
            /\ page' = NextPage(page) /\ pc' = IF page' = 0 THEN "select" ELSE "list"
        BY <1>7, <2>2 DEF ListPage, SetupInv, TypeOK
      <3>2. allPRs' \in Seq(Numbers)
        BY <3>1, PagesFollow
      <3>3. page' = 0 \/ page' >= 1
        BY <3>1 DEF NextPage
      <3> QED
        BY <1>7, <2>2, <3>1, <3>2, <3>3 DEF ListPage, SetupInv
    <2> QED
      BY <2>1, <2>2
  <1>8. CASE SelectPRs
    <2>1. CASE Finish({})
      BY <1>5, <1>8, <2>1 DEF SelectPRs, Finish, Ending
    <2>2. CASE ~Finish({})
      BY <1>8, <2>2 DEF SelectPRs, SetupInv
    <2> QED
      BY <2>1, <2>2
  <1>9. CASE Clone
    <2>1. CASE Abort
      BY <1>5, <1>9, <2>1 DEF Clone, Abort, Ending
    <2>2. CASE ~Abort
      BY <1>9, <2>2 DEF Clone, SetupInv
    <2> QED
      BY <2>1, <2>2
  <1>10. CASE ListFiles
    <2>1. CASE Abort \/ Finish(prKEPs)
      BY <1>5, <1>10, <2>1 DEF ListFiles, Abort, Finish, Ending
    <2>2. CASE ~(Abort \/ Finish(prKEPs))
      BY <1>10, <2>2 DEF ListFiles, SetupInv
    <2> QED
      BY <2>1, <2>2
  <1>11. CASE CheckoutPullRequest
    <2>1. CASE Abort
      BY <1>5, <1>11, <2>1 DEF CheckoutPullRequest, Abort, Ending
    <2>2. CASE ~Abort
      BY <1>11, <2>2 DEF CheckoutPullRequest, SetupInv
    <2> QED
      BY <2>1, <2>2
  <1>12. CASE ReadKEP
    BY <1>12 DEF ReadKEP, SetupInv
  <1>13. CASE Return \/ PrintProposals
    BY <1>13 DEF Return, PrintProposals, SetupInv
  <1>14. CASE OpenPR \/ ClosePR
    BY <1>14 DEF OpenPR, ClosePR, SetupInv
  <1> QED
    BY <1>1, <1>2, <1>3, <1>4, <1>6, <1>7, <1>8, <1>9, <1>10, <1>11, <1>12, <1>13, <1>14 DEF Next, Step

\* The variables of NewRepo, Repo.Query and the output keep their types, and SetupInv
\* holds.
LEMMA TypesHold == Spec => [](TypeOK /\ SetupInv)
  <1>1. Init => TypeOK /\ SetupInv
    <2> SUFFICES ASSUME Init PROVE TypeOK /\ SetupInv
      OBVIOUS
    <2>1. open \in Seq(Numbers)
      <3>1. PICK n \in 0 .. Len(PullRequests) : open \in [1 .. n -> Numbers]
        BY DEF Init
      <3>2. Len(PullRequests) \in Nat
        BY QueryConstants
      <3>3. n \in Nat
        BY <3>2
      <3> QED
        BY <3>1, <3>3, SeqDef
    <2>2. MaxQueries \in Nat /\ MaxFailures \in Nat /\ MaxChanges \in Nat
      BY QueryConstants
    <2>3. CounterTypes
      BY <2>2 DEF Init, CounterTypes
    <2>4. HistoryTypes /\ AnswerTypes
      BY DEF Init, HistoryTypes, AnswerTypes
    <2>5. PlainTypes
      BY <2>1 DEF Init, PlainTypes
    <2>6. SetupInv
      BY DEF Init, SetupInv, Searching, Reading, Working, Ended
    <2> QED
      BY <2>3, <2>4, <2>5, <2>6, TypeParts
  <1>2. TypeOK /\ SetupInv /\ [Next]_vars => (TypeOK /\ SetupInv)'
    <2> SUFFICES ASSUME TypeOK, SetupInv, [Next]_vars PROVE TypeOK' /\ SetupInv'
      OBVIOUS
    <2>1. CASE Next
      <3>1. CounterTypes /\ HistoryTypes /\ AnswerTypes /\ PlainTypes /\ open \in Seq(Numbers)
        BY TypeParts DEF PlainTypes
      <3>2. CounterTypes' /\ HistoryTypes' /\ AnswerTypes' /\ PlainTypes'
        BY <2>1, <3>1, CountersStay, HistoryStays, AnswerStays, PlainStays
      <3>3. TypeOK'
        BY <3>2, TypeParts, PTL
      <3> QED
        BY <2>1, <3>3, SetupStays
    <2>2. CASE UNCHANGED vars
      <3>1. \A k : Row(k)' = Row(k)
        BY <2>2 DEF vars, Row, Title, Link
      <3>2. TypeOK'
        BY <2>2, <3>1 DEF vars, TypeOK
      <3>3. SetupInv'
        BY <2>2 DEF vars, SetupInv
      <3> QED
        BY <3>2, <3>3
    <2> QED
      BY <2>1, <2>2
  <1> QED
    BY <1>1, <1>2, PTL DEF Spec

\* The variables of `kepctl query` keep their types: the cache of pull requests, the
\* clone, the groups and the answer (repo.go:53-77, query.go:87-167).
THEOREM TypeCorrect == Spec => []TypeOK
  BY TypesHold, PTL

\* Nothing is printed but by a Repo on a clone of the repository that is complete at
\* every path that NewRepo looks at (repo.go:84-200).
THEOREM AnswersHaveARepository == Spec => []AnswersNeedARepository
  <1>1. TypeOK /\ SetupInv => AnswersNeedARepository
    <2> SUFFICES ASSUME TypeOK, SetupInv, printed # Nil PROVE layout = [i \in 1 .. 4 |-> "present"]
      BY DEF AnswersNeedARepository
    <2>1. (\A i \in Needed : layout[i] = "present") /\ layout[4] = "present"
      BY DEF SetupInv, Ended
    <2>2. layout \in [1 .. 4 -> {"present", "absent", "other kind"}]
      BY QueryConstants DEF TypeOK
    <2>3. \A i \in 1 .. 4 : i \in Needed \/ i = 4
      BY DEF Needed
    <2> QED
      BY <2>1, <2>2, <2>3
  <1> QED
    BY <1>1, TypesHold, PTL

----------------------------------------------------------------------------
(* The local KEPs *)

\* A local KEP has no pull request.
LEMMA LocalHasNoPR == \A g : \A k \in LocalKEPs(g) : k.pr = 0 /\ k.sig = g
  BY DEF LocalKEPs

\* Query chooses its groups once: nothing else changes them.
LEMMA ChosenStays == Next /\ ~Query /\ ~FetchGroups => UNCHANGED <<groups, opts>> /\ Chosen' = Chosen
  <1> SUFFICES ASSUME Next, ~Query, ~FetchGroups PROVE UNCHANGED <<groups, opts>> /\ Chosen' = Chosen
    OBVIOUS
  <1>1. UNCHANGED <<groups, opts>>
    BY DEF Next, PrintProposals, Step, OpenPR, ClosePR, NewRepo, FetchPRRApprovers,
           getProposalTemplate, LoadLocalKEPs, BeginSearch, ListPage, SelectPRs, Clone, ListFiles,
           CheckoutPullRequest, ReadKEP, Return, query, client
  <1>2. Chosen' = Chosen
    BY <1>1 DEF Chosen
  <1> QED
    BY <1>1, <1>2

\* A page only adds to the list.
LEMMA ListGrows ==
  ASSUME NEW s \in Seq(Numbers), NEW t \in Seq(Numbers)
  PROVE  s \o t \in Seq(Numbers) /\ Elems(s) \subseteq Elems(s \o t) /\ Elems(s \o t) = Elems(s) \cup Elems(t)
  <1> DEFINE u == s \o t
  <1>1. /\ Len(s) \in Nat /\ Len(t) \in Nat /\ DOMAIN s = 1 .. Len(s) /\ DOMAIN t = 1 .. Len(t)
        /\ u \in Seq(Numbers) /\ DOMAIN u = 1 .. Len(s) + Len(t)
        /\ \A i \in 1 .. Len(s) + Len(t) : u[i] = IF i <= Len(s) THEN s[i] ELSE t[i - Len(s)]
    OBVIOUS
  <1> HIDE DEF u
  <1>2. \A i \in DOMAIN s : i \in DOMAIN u /\ u[i] = s[i]
    BY <1>1
  <1>3. \A i \in DOMAIN t : Len(s) + i \in DOMAIN u /\ u[Len(s) + i] = t[i]
    BY <1>1
  <1>4. \A i \in DOMAIN u : (i \in DOMAIN s /\ u[i] = s[i]) \/ (i - Len(s) \in DOMAIN t /\ u[i] = t[i - Len(s)])
    BY <1>1
  <1>5. Elems(u) = Elems(s) \cup Elems(t)
    BY <1>2, <1>3, <1>4 DEF Elems
  <1> QED
    BY <1>1, <1>5 DEF u

\* The numbers of pull requests begin at 1.
LEMMA NumbersArePositive == 0 \notin Numbers /\ Numbers \subseteq Nat
  <1>1. Numbers = 1 .. Len(PullRequests)
    BY QueryConstants
  <1>2. 0 \notin 1 .. Len(PullRequests) /\ 1 .. Len(PullRequests) \subseteq Nat
    OBVIOUS
  <1> QED
    BY <1>1, <1>2

\* The search of a group ends, with some of what it has read: what is collected
\* stays in order.
LEMMA EndKeepsLocal ==
  ASSUME TypeOK, SetupInv, LocalInv, pc \in Searching, Ending, Chosen' = Chosen,
         UNCHANGED allPRs, NEW keps \in SUBSET prKEPs, allKEPs' = allKEPs \cup keps
  PROVE  LocalInv'
  <1>1. sigs \in Seq(Groups) /\ sigs # << >> /\ pc' = "local" /\ sigs' = Tail(sigs) /\ prKEPs' = {}
    BY DEF TypeOK, SetupInv, Ending
  <1>2. Elems(sigs) = {Head(sigs)} \cup Elems(sigs')
    BY <1>1, HeadAndTail
  <1>3. ASSUME NEW k \in keps PROVE k.pr # 0 /\ allPRs \in Seq(Numbers) /\ k.pr \in Elems(allPRs)
    <2>1. k.pr \in Elems(allPRs) /\ allPRs \in Seq(Numbers)
      BY DEF LocalInv, SetupInv, Searching, Reading
    <2>2. k.pr \in Numbers
      BY <2>1 DEF Elems
    <2> QED
      BY <2>1, <2>2, NumbersArePositive
  <1>4. \A k \in allKEPs' : IF k.pr = 0 THEN \E g \in Chosen : k \in LocalKEPs(g)
                            ELSE allPRs \in Seq(Numbers) /\ k.pr \in Elems(allPRs)
    BY <1>3 DEF LocalInv
  <1>5. \A g \in Chosen : g \in Elems(sigs') \/ LocalKEPs(g) \subseteq allKEPs'
    BY <1>2 DEF LocalInv, Working
  <1>6. Elems(sigs') \subseteq Chosen
    BY <1>2 DEF LocalInv, Working
  <1> QED
    BY <1>1, <1>4, <1>5, <1>6 DEF LocalInv, Working, Ended, Searching, Reading

\* Every step keeps LocalInv: a failure of GitHub or git costs no local KEP.
LEMMA LocalStays == TypeOK /\ SetupInv /\ LocalInv /\ Next => LocalInv'
  <1> SUFFICES ASSUME TypeOK, SetupInv, LocalInv, Next PROVE LocalInv'
    OBVIOUS
  <1> USE DEF client, github, query, search, Working, Ended, Searching, Reading
  <1>1. CASE NewRepo \/ FetchGroups
    BY <1>1 DEF NewRepo, FetchGroups, LocalInv
  <1>2. CASE Query
    <2>1. allKEPs' = {} /\ prKEPs' = {} /\ pc' \in {"local", "error"}
      BY <1>2 DEF Query, LocalInv
    <2>2. CASE pc' = "local"
      <3>1. PICK o \in Requests : opts' = o /\ sigs' = SelectedGroups(o) /\ UNCHANGED groups
        BY <1>2, <2>2 DEF Query
      <3>2. groups \in GroupLists
        BY <1>2 DEF Query, SetupInv
      <3>3. Elems(sigs') = Chosen'
        BY <3>1, <3>2, SelectedAreGroups DEF Chosen
      <3> QED
        BY <2>1, <2>2, <3>3 DEF LocalInv
    <2> QED
      BY <2>1, <2>2 DEF LocalInv
  <1>3. SUFFICES ASSUME ~Query, ~FetchGroups, UNCHANGED <<groups, opts>>, Chosen' = Chosen
                 PROVE  LocalInv'
    BY <1>1, <1>2, ChosenStays
  <1>4. CASE FetchPRRApprovers \/ getProposalTemplate
    BY <1>3, <1>4 DEF FetchPRRApprovers, getProposalTemplate, LocalInv
  <1>5. ASSUME Abort, pc \in Searching, UNCHANGED allPRs PROVE LocalInv'
    <2>1. Ending /\ allKEPs' = allKEPs \cup {}
      BY <1>5 DEF Abort, Ending
    <2>2. {} \in SUBSET prKEPs
      OBVIOUS
    <2> QED
      BY <1>3, <1>5, <2>1, <2>2, EndKeepsLocal, Zenon
  <1>6. CASE LoadLocalKEPs
    <2>1. sigs \in Seq(Groups) /\ sigs # << >> /\ pc = "local" /\ UNCHANGED <<allPRs, prKEPs>> /\ prKEPs = {}
      BY <1>6 DEF LoadLocalKEPs, TypeOK, LocalInv
    <2>2. Elems(sigs) = {Head(sigs)} \cup Elems(Tail(sigs))
      BY <2>1, HeadAndTail
    <2>3. CASE pc' = "error"
      BY <1>3, <1>6, <2>1, <2>3 DEF LoadLocalKEPs, LocalInv
    <2>4. CASE pc' # "error"
      <3>1. /\ allKEPs' = allKEPs \cup LocalKEPs(Head(sigs))
            /\ \/ pc' = "search" /\ sigs' = sigs
               \/ pc' = "local" /\ sigs' = Tail(sigs)
        BY <1>6, <2>4 DEF LoadLocalKEPs
      <3>2. Head(sigs) \in Chosen /\ Elems(sigs') \subseteq Chosen
        BY <2>1, <2>2, <3>1 DEF LocalInv
      <3>3. \A k \in allKEPs' : IF k.pr = 0 THEN \E g \in Chosen : k \in LocalKEPs(g)
                                ELSE allPRs \in Seq(Numbers) /\ k.pr \in Elems(allPRs)
        BY <3>1, <3>2, LocalHasNoPR DEF LocalInv
      <3>4. \A g \in Chosen : g \in Elems(sigs') \/ LocalKEPs(g) \subseteq allKEPs'
        BY <2>1, <2>2, <3>1 DEF LocalInv
      <3> QED
        BY <1>3, <2>1, <3>1, <3>2, <3>3, <3>4 DEF LocalInv
    <2> QED
      BY <2>3, <2>4
  <1>7. CASE BeginSearch
    <2>1. CASE Abort
      BY <1>5, <1>7, <2>1 DEF BeginSearch, Abort
    <2>2. CASE allPRs = Nil /\ pc' = "list"
      <3>1. allPRs \notin Seq(Numbers) /\ prKEPs = {} /\ pc = "search"
        BY <1>7, <2>2, QueryConstants DEF BeginSearch, LocalInv
      <3>2. UNCHANGED <<allKEPs, prKEPs, sigs>>
        BY <1>7, <2>2 DEF BeginSearch, Abort
      <3> QED
        BY <1>3, <2>2, <3>1, <3>2 DEF LocalInv
    <2>3. CASE pc' = "select"
      <3>1. UNCHANGED <<allKEPs, prKEPs, sigs, allPRs>> /\ prKEPs = {} /\ pc = "search"
        BY <1>7, <2>3 DEF BeginSearch, Abort, LocalInv
      <3> QED
        BY <1>3, <2>3, <3>1 DEF LocalInv
    <2> QED
      BY <1>7, <2>1, <2>2, <2>3 DEF BeginSearch
  <1>8. CASE ListPage
    <2>1. CASE Abort
      BY <1>5, <1>8, <2>1 DEF ListPage, Abort
    <2>2. CASE ~Abort
      <3>1. allPRs \in Seq(Numbers) /\ page \in Nat /\ page >= 1 /\ prKEPs = {} /\ pc = "list"
        BY <1>8 DEF ListPage, SetupInv, TypeOK, LocalInv
      <3>2. allPRs' = allPRs \o PageOf(page) /\ UNCHANGED <<allKEPs, prKEPs, sigs>> /\ pc' \in {"list", "select"}
        BY <1>8, <2>2 DEF ListPage
      <3>3. allPRs' \in Seq(Numbers) /\ Elems(allPRs) \subseteq Elems(allPRs')
        BY <3>1, <3>2, PagesFollow, ListGrows
      <3> QED
        BY <1>3, <3>1, <3>2, <3>3 DEF LocalInv
    <2> QED
      BY <2>1, <2>2
  <1>9. CASE SelectPRs
    <2> DEFINE found == Keep(allPRs, {n \in Elems(allPRs) : Labelled(n, Head(sigs))})
    <2>1. allPRs \in Seq(Numbers) /\ pc = "select" /\ prKEPs = {}
      BY <1>9 DEF SelectPRs, SetupInv, LocalInv
    <2>2. Elems(found) \subseteq Elems(allPRs)
      BY <2>1, KeepElems
    <2> HIDE DEF found
    <2>3. \/ Finish({})
          \/ kepPRs' = found /\ pc' \in {"clone", "files"} /\ UNCHANGED <<sigs, allKEPs, prKEPs>>
      BY <1>9 DEF SelectPRs, found
    <2>4. UNCHANGED allPRs
      BY <1>9 DEF SelectPRs
    <2>5. CASE Finish({})
      <3>1. Ending /\ allKEPs' = allKEPs \cup {}
        BY <2>5 DEF Finish, Ending
      <3> QED
        BY <1>3, <2>1, <2>4, <3>1, EndKeepsLocal
    <2>6. CASE kepPRs' = found /\ pc' \in {"clone", "files"} /\ UNCHANGED <<sigs, allKEPs, prKEPs>>
      BY <1>3, <2>1, <2>2, <2>4, <2>6 DEF LocalInv
    <2> QED
      BY <2>3, <2>5, <2>6
  <1>10. CASE Clone
    <2>1. CASE Abort
      BY <1>5, <1>10, <2>1 DEF Clone
    <2>2. CASE ~Abort
      BY <1>3, <1>10, <2>2 DEF Clone, LocalInv
    <2> QED
      BY <2>1, <2>2
  <1>11. CASE ListFiles
    <2>1. UNCHANGED allPRs /\ pc = "files"
      BY <1>11 DEF ListFiles
    <2>2. CASE Abort
      BY <1>5, <2>1, <2>2
    <2>3. CASE Finish(prKEPs)
      <3>1. Ending /\ allKEPs' = allKEPs \cup prKEPs
        BY <2>3 DEF Finish, Ending
      <3> QED
        BY <1>3, <2>1, <3>1, EndKeepsLocal
    <2>4. CASE ~Abort /\ ~Finish(prKEPs)
      <3>1. kepPRs # << >> /\ UNCHANGED <<sigs, allKEPs, prKEPs>> /\ kepPRs' \in {kepPRs, Tail(kepPRs)}
            /\ pc' \in {"files", "checkout"}
        BY <1>11, <2>4 DEF ListFiles
      <3>2. Elems(kepPRs') \subseteq Elems(kepPRs)
        <4>1. kepPRs \in Seq(Numbers) /\ kepPRs # << >>
          BY <3>1 DEF TypeOK
        <4>2. Elems(kepPRs) = {Head(kepPRs)} \cup Elems(Tail(kepPRs))
          BY <4>1, HeadAndTail, Zenon
        <4>3. CASE kepPRs' = kepPRs
          BY <4>3
        <4>4. CASE kepPRs' = Tail(kepPRs)
          BY <4>2, <4>4, Zenon
        <4> QED
          BY <3>1, <4>3, <4>4
      <3> QED
        BY <1>3, <2>1, <3>1, <3>2 DEF LocalInv
    <2> QED
      BY <2>2, <2>3, <2>4
  <1>12. CASE CheckoutPullRequest
    <2>1. CASE Abort
      BY <1>5, <1>12, <2>1 DEF CheckoutPullRequest
    <2>2. CASE ~Abort
      BY <1>3, <1>12, <2>2 DEF CheckoutPullRequest, LocalInv
    <2> QED
      BY <2>1, <2>2
  <1>13. CASE ReadKEP
    <2>1. kepPRs # << >> /\ pc = "read" /\ UNCHANGED <<sigs, allKEPs, allPRs>> /\ pc' \in {"read", "files"}
      BY <1>13 DEF ReadKEP, SetupInv
    <2>2. kepPRs' \in {kepPRs, Tail(kepPRs)}
      BY <1>13 DEF ReadKEP
    <2>3. Elems(kepPRs') \subseteq Elems(kepPRs) /\ Head(kepPRs) \in Elems(kepPRs)
      <3>1. kepPRs \in Seq(Numbers)
        BY DEF TypeOK
      <3>2. Elems(kepPRs) = {Head(kepPRs)} \cup Elems(Tail(kepPRs))
        BY <2>1, <3>1, HeadAndTail
      <3> QED
        BY <2>2, <3>2
    <2>4. \A k \in prKEPs' : k \in prKEPs \/ k.pr = Head(kepPRs)
      BY <1>13 DEF ReadKEP
    <2>5. \A k \in prKEPs' : k.pr \in Elems(allPRs)
      BY <2>1, <2>3, <2>4 DEF LocalInv
    <2> QED
      BY <1>3, <2>1, <2>3, <2>5 DEF LocalInv
  <1>14. CASE Return
    BY <1>3, <1>14 DEF Return, LocalInv
  <1>15. CASE PrintProposals
    <2>1. \A k : Row(k)' = Row(k)
      BY <1>3 DEF Row, Title, Link
    <2>2. pc = "returned" /\ pc' \in {"printed", "truncated"} /\ (pc' = "printed" => printed' = {Row(k) : k \in results})
          /\ UNCHANGED <<sigs, allKEPs, allPRs, prKEPs, results>>
      BY <1>15 DEF PrintProposals
    <2> QED
      BY <1>3, <2>1, <2>2 DEF LocalInv
  <1>16. CASE OpenPR \/ ClosePR
    <2>1. \A k : Row(k)' = Row(k)
      BY <1>3 DEF Row, Title, Link
    <2>2. UNCHANGED <<pc, sigs, allKEPs, allPRs, kepPRs, prKEPs, results, printed, opts>>
      BY <1>16 DEF OpenPR, ClosePR
    <2> QED
      BY <1>3, <2>1, <2>2 DEF LocalInv
  <1> QED
    BY <1>1, <1>2, <1>4, <1>6, <1>7, <1>8, <1>9, <1>10, <1>11, <1>12, <1>13, <1>14, <1>15, <1>16 DEF Next, Step

\* LocalInv holds, with the types.
LEMMA LocalHolds == Spec => [](TypeOK /\ SetupInv /\ LocalInv)
  <1>1. Init => LocalInv
    BY NoElems DEF Init, LocalInv, Working, Ended, Searching, Reading
  <1>2. TypeOK /\ SetupInv /\ LocalInv /\ [Next]_vars => LocalInv'
    <2> SUFFICES ASSUME LocalInv, UNCHANGED vars PROVE LocalInv'
      BY LocalStays
    <2>1. (\A k : Row(k)' = Row(k)) /\ Chosen' = Chosen
      BY DEF vars, Row, Title, Link, Chosen
    <2> QED
      BY <2>1 DEF vars, LocalInv
  <1> QED
    BY <1>1, <1>2, TypesHold, PTL DEF Spec

\* Query returns exactly the local KEPs that meet the criteria, whatever fails while
\* pull requests are searched (query.go:102-167).
THEOREM LocalKEPsAreReturned == Spec => []LocalKEPsSurviveFailures
  <1>1. LocalInv => LocalKEPsSurviveFailures
    <2> SUFFICES ASSUME LocalInv, Answered
                 PROVE  {k \in results : k.pr = 0} =
                          {k \in UNION {LocalKEPs(g) : g \in Chosen} : Allowed(opts, k.doc)}
      BY DEF LocalKEPsSurviveFailures
    <2>1. results = {k \in allKEPs : Allowed(opts, k.doc)} /\ sigs = << >>
      BY DEF Answered, LocalInv, Ended
    <2>2. \A g \in Chosen : LocalKEPs(g) \subseteq allKEPs
      BY <2>1, NoElems DEF Answered, LocalInv, Ended
    <2>3. \A k \in allKEPs : k.pr = 0 => \E g \in Chosen : k \in LocalKEPs(g)
      BY DEF LocalInv
    <2> QED
      BY <2>1, <2>2, <2>3, LocalHasNoPR
  <1> QED
    BY <1>1, LocalHolds, PTL

\* A failure of GitHub or git never makes Query itself fail (query.go:87-123): it
\* returns an error only for its options, its token or a local KEP.
THEOREM ErrorsHaveLocalCauses == Spec => []ErrorsAreLocal
  <1>1. Init => ErrorsAreLocal
    BY DEF Init, ErrorsAreLocal
  <1>2. ASSUME TypeOK, SetupInv, LocalInv, ErrorsAreLocal, Next PROVE ErrorsAreLocal'
    <2> SUFFICES ASSUME pc' = "error" PROVE ErrorsAreLocal'
      BY DEF ErrorsAreLocal
    <2>1. CASE Query
      <3>1. PICK o \in Requests : /\ opts' = o
                                  /\ \/ PrepareError(o)
                                     \/ TokenPath /\ Fail
        BY <2>1 DEF Query
      <3>2. allKEPs' = {} /\ warned' = {} /\ UNCHANGED groups
        BY <2>1 DEF Query, client
      <3>3. PrepareError(o) => PrepareError(opts)'
        BY <3>1, <3>2 DEF PrepareError
      <3>4. Fail => failures' > 0
        <4>1. failures \in Nat
          BY <1>2, TypeParts DEF CounterTypes
        <4> QED
          BY <4>1 DEF Fail
      <3> QED
        BY <3>1, <3>2, <3>3, <3>4 DEF ErrorsAreLocal
    <2>2. CASE LoadLocalKEPs
      <3>1. sigs \in Seq(Groups) /\ sigs # << >> /\ pc = "local" /\ LocalError(Head(sigs)) /\ UNCHANGED <<groups, opts>>
        BY <1>2, <2>2 DEF LoadLocalKEPs, TypeOK, client
      <3>2. Head(sigs) \in Chosen
        BY <1>2, <3>1, HeadAndTail DEF LocalInv, Working
      <3>3. Chosen' = Chosen
        BY <3>1 DEF Chosen
      <3>4. \E g \in Chosen' : LocalError(g)
        BY <3>1, <3>2, <3>3
      <3> QED
        BY <3>4 DEF ErrorsAreLocal
    <2>3. CASE OpenPR \/ ClosePR
      <3>1. UNCHANGED <<pc, groups, opts, failures, allKEPs, warned>>
        BY <2>3 DEF OpenPR, ClosePR, client
      <3>2. Chosen' = Chosen /\ PrepareError(opts)' = PrepareError(opts)
        BY <3>1 DEF Chosen, PrepareError
      <3> QED
        BY <1>2, <3>1, <3>2 DEF ErrorsAreLocal
    <2>4. ~(NewRepo \/ FetchGroups \/ FetchPRRApprovers \/ getProposalTemplate)
      BY DEF NewRepo, FetchGroups, FetchPRRApprovers, getProposalTemplate
    <2>5. ~(BeginSearch \/ ListPage \/ SelectPRs \/ Clone \/ ListFiles \/ CheckoutPullRequest)
      BY DEF BeginSearch, ListPage, SelectPRs, Clone, ListFiles, CheckoutPullRequest, Abort, Finish
    <2>6. ~(ReadKEP \/ Return \/ PrintProposals)
      BY DEF ReadKEP, Return, PrintProposals
    <2> QED
      BY <1>2, <2>1, <2>2, <2>3, <2>4, <2>5, <2>6 DEF Next, Step
  <1>3. ASSUME ErrorsAreLocal, UNCHANGED vars PROVE ErrorsAreLocal'
    <2>1. Chosen' = Chosen /\ PrepareError(opts)' = PrepareError(opts)
      BY <1>3 DEF vars, Chosen, PrepareError
    <2> QED
      BY <1>3, <2>1 DEF vars, ErrorsAreLocal
  <1> QED
    BY <1>1, <1>2, <1>3, LocalHolds, PTL DEF Spec

\* A printed link is dead only for a KEP that lies in the directory of another group
\* than its owning-sig, or nested in the directory of its group (output.go:227-232).
THEOREM LinksLead == Spec => []LinksLeadSomewhere
  <1>1. SetupInv /\ LocalInv => LinksLeadSomewhere
    <2> SUFFICES ASSUME SetupInv, LocalInv, printed # Nil, NEW k \in results
                 PROVE  Link(k) \in Targets \/ (k.pr = 0 /\ <<k.doc.owningSIG, k.dir>> # <<k.sig, << >>>>)
      BY DEF LinksLeadSomewhere
    <2>1. k \in allKEPs
      BY DEF SetupInv, LocalInv, Ended
    <2>2. CASE k.pr = 0
      <3>1. PICK g \in Chosen : k \in LocalKEPs(g)
        BY <2>1, <2>2 DEF LocalInv
      <3>2. k.sig = g
        BY <3>1, LocalHasNoPR
      <3>3. Link(k) = <<"keps", k.doc.owningSIG, << >>, k.name>>
        BY <2>2 DEF Link
      <3>4. <<"keps", k.sig, k.dir, k.name>> \in Targets
        BY <3>1 DEF Targets
      <3> QED
        BY <2>2, <3>3, <3>4
    <2>3. CASE k.pr # 0
      <3>1. allPRs \in Seq(Numbers) /\ k.pr \in Elems(allPRs)
        BY <2>1, <2>3 DEF LocalInv
      <3>2. allPRs # Nil
        BY <3>1, QueryConstants
      <3>3. Link(k) = <<"pull", k.pr>>
        BY <2>3 DEF Link
      <3> QED
        BY <3>1, <3>2, <3>3 DEF Targets
    <2> QED
      BY <2>2, <2>3
  <1> QED
    BY <1>1, LocalHolds, PTL

----------------------------------------------------------------------------
(* The KEPs of pull requests *)

\* Of the KEPs of a pull request each is one that it names, with the content of its
\* branch.
LEMMA WhatKEPsOfAre ==
  ASSUME NEW n, NEW g
  PROVE  \A k \in KEPsOf(n, g) :
           /\ k.sig = g /\ k.pr = n /\ k.name \in KepNames(n, g)
           /\ ~loadError(PullRequests[n].tree[<<g, << >>, k.name>>])
           /\ k = [sig |-> g, dir |-> << >>, name |-> k.name, pr |-> n, doc |-> PullRequests[n].tree[<<g, << >>, k.name>>]]
  <1> TAKE k \in KEPsOf(n, g)
  <1>1. PICK m \in KepNames(n, g) :
          /\ ~loadError(PullRequests[n].tree[<<g, << >>, m>>])
          /\ k = [sig |-> g, dir |-> << >>, name |-> m, pr |-> n, doc |-> PullRequests[n].tree[<<g, << >>, m>>]]
    BY DEF KEPsOf
  <1>2. k.name = m /\ k.sig = g /\ k.pr = n
    BY <1>1
  <1> QED
    BY <1>1, <1>2

\* A KEP of a pull request is attributed to it and to its group.
LEMMA Attributed == \A n, g : \A k \in KEPsOf(n, g) : k.sig = g /\ k.pr = n
  <1> SUFFICES ASSUME NEW n, NEW g, NEW k \in KEPsOf(n, g) PROVE k.sig = g /\ k.pr = n
    OBVIOUS
  <1>1. PICK m, doc : k = [sig |-> g, dir |-> << >>, name |-> m, pr |-> n, doc |-> doc]
    BY Zenon DEF KEPsOf
  <1> QED
    BY <1>1

\* The KEPs of a list of pull requests are those of each that has the labels.
LEMMA WhatPullRequestKEPsAre ==
  ASSUME NEW P, NEW g, NEW k
  PROVE  k \in PullRequestKEPs(g, P) <=> \E n \in P : Labelled(n, g) /\ k \in KEPsOf(n, g)
  BY DEF PullRequestKEPs, KEPsOf

\* Every step keeps ReadInv: what is read is from the branch that is checked out, and
\* nothing is passed over.
LEMMA ReadStays == TypeOK /\ SetupInv /\ LocalInv /\ ReadInv /\ Next => ReadInv'
  <1> SUFFICES ASSUME TypeOK, SetupInv, LocalInv, ReadInv, Next, pc' \in Reading \cup {"clone"}
               PROVE  ReadInv'
    BY DEF ReadInv, Reading
  <1> USE DEF Reading, Searching
  <1>1. CASE SelectPRs
    <2> DEFINE S == {n \in Elems(allPRs) : Labelled(n, Head(sigs))}
               found == Keep(allPRs, S)
    <2>1. allPRs \in Seq(Numbers) /\ prKEPs = {}
      BY <1>1 DEF SelectPRs, SetupInv, LocalInv
    <2>2. Elems(found) = Elems(allPRs) \cap S
      BY <2>1, KeepElems
    <2> HIDE DEF found
    <2>3. kepPRs' = found /\ pc' \in {"clone", "files"} /\ UNCHANGED <<sigs, prKEPs, allPRs>>
      BY <1>1 DEF SelectPRs, Finish, found
    <2> QED
      BY <2>1, <2>2, <2>3 DEF ReadInv
  <1>2. CASE Clone
    BY <1>2 DEF Clone, Abort, ReadInv
  <1>3. CASE ListFiles
    <2> DEFINE g == Head(sigs)
               n == Head(kepPRs)
    <2>1. /\ kepPRs # << >> /\ pc = "files" /\ UNCHANGED <<sigs, prKEPs, allPRs>> /\ kepNames' = KepNames(n, g)
          /\ \/ kepNames' = {} /\ kepPRs' = Tail(kepPRs) /\ pc' = "files"
             \/ kepPRs' = kepPRs /\ pc' = "checkout"
      BY <1>3 DEF ListFiles, Abort, Finish
    <2>2. kepPRs \in Seq(Numbers)
      BY DEF TypeOK
    <2>3. Elems(kepPRs) = {n} \cup Elems(Tail(kepPRs))
      BY <2>1, <2>2, HeadAndTail
    <2>4. CASE kepNames' = {} /\ kepPRs' = Tail(kepPRs) /\ pc' = "files"
      <3>1. KEPsOf(n, g) = {}
        BY <2>1, <2>4 DEF KEPsOf
      <3> QED
        BY <2>1, <2>3, <2>4, <3>1 DEF ReadInv
    <2>5. CASE kepPRs' = kepPRs /\ pc' = "checkout"
      <3>1. \A k \in KEPsOf(n, g) : k.name \in kepNames'
        BY <2>1, WhatKEPsOfAre
      <3> QED
        BY <2>1, <2>5, <3>1 DEF ReadInv
    <2> QED
      BY <2>1, <2>4, <2>5
  <1>4. CASE CheckoutPullRequest
    BY <1>4 DEF CheckoutPullRequest, Abort, ReadInv
  <1>5. CASE ReadKEP
    <2> DEFINE g == Head(sigs)
               n == Head(kepPRs)
    <2>1. /\ kepPRs # << >> /\ pc = "read" /\ UNCHANGED <<sigs, allPRs, gitRepo>> /\ gitRepo = n
          /\ kepPRs \in Seq(Numbers)
      BY <1>5 DEF ReadKEP, SetupInv, ReadInv, TypeOK
    <2>2. PICK name \in kepNames :
            /\ prKEPs' = IF loadError(InClone(g, name)) THEN prKEPs
                         ELSE prKEPs \cup {[sig |-> g, dir |-> << >>, name |-> name, pr |-> n, doc |-> InClone(g, name)]}
            /\ kepNames' = kepNames \ {name}
      BY <1>5 DEF ReadKEP
    <2> DEFINE doc == PullRequests[n].tree[<<g, << >>, name>>]
               k == [sig |-> g, dir |-> << >>, name |-> name, pr |-> n, doc |-> doc]
    <2>3. prKEPs' = IF loadError(doc) THEN prKEPs ELSE prKEPs \cup {k}
      BY <2>1, <2>2 DEF InClone
    <2>4. IF kepNames' = {} THEN kepPRs' = Tail(kepPRs) /\ pc' = "files" ELSE UNCHANGED <<kepPRs, pc>>
      BY <1>5 DEF ReadKEP
    <2>5. Elems(kepPRs) = {n} \cup Elems(Tail(kepPRs))
      BY <2>1, HeadAndTail
    <2>6. n \in Elems(allPRs) /\ Labelled(n, g) /\ name \in KepNames(n, g)
      BY <2>1, <2>2, <2>5 DEF LocalInv, ReadInv
    <2>7. prKEPs' \subseteq PullRequestKEPs(g, Elems(allPRs))
      <3>1. ~loadError(doc) => k \in KEPsOf(n, g)
        BY <2>6 DEF KEPsOf
      <3>2. ~loadError(doc) => k \in PullRequestKEPs(g, Elems(allPRs))
        BY <2>6, <3>1, WhatPullRequestKEPsAre
      <3> QED
        BY <2>1, <2>3, <3>2 DEF ReadInv
    <2>8. \A l \in KEPsOf(n, g) : l \in prKEPs' \/ l.name \in kepNames'
      <3> TAKE l \in KEPsOf(n, g)
      <3>1. l \in prKEPs \/ l.name \in kepNames
        BY <2>1 DEF ReadInv
      <3>2. l.name = name => l = k /\ ~loadError(doc)
        BY WhatKEPsOfAre
      <3> QED
        BY <2>2, <2>3, <3>1, <3>2
    <2>9. prKEPs \subseteq prKEPs' /\ kepNames' \subseteq kepNames
      BY <2>2, <2>3
    <2> HIDE DEF doc, k
    <2>10. CASE kepNames' = {}
      <3>1. KEPsOf(n, g) \subseteq prKEPs'
        BY <2>8, <2>10
      <3> QED
        BY <2>1, <2>4, <2>5, <2>7, <2>9, <2>10, <3>1 DEF ReadInv
    <2>11. CASE kepNames' # {}
      BY <2>1, <2>4, <2>7, <2>8, <2>9, <2>11 DEF ReadInv
    <2> QED
      BY <2>10, <2>11
  <1>6. CASE OpenPR \/ ClosePR
    BY <1>6 DEF OpenPR, ClosePR, search, ReadInv
  <1>7. ~(NewRepo \/ FetchGroups \/ FetchPRRApprovers \/ getProposalTemplate \/ Query)
    BY DEF NewRepo, FetchGroups, FetchPRRApprovers, getProposalTemplate, Query
  <1>8. ~(LoadLocalKEPs \/ BeginSearch \/ ListPage \/ Return \/ PrintProposals)
    BY DEF LoadLocalKEPs, BeginSearch, ListPage, Abort, Return, PrintProposals
  <1> QED
    BY <1>1, <1>2, <1>3, <1>4, <1>5, <1>6, <1>7, <1>8 DEF Next, Step

\* The search of a group ends, with all of its KEPs or with a warning and none.
LEMMA EndKeepsSearch ==
  ASSUME TypeOK, SetupInv, LocalInv, SearchInv, pc \in Searching, Ending, Chosen' = Chosen,
         UNCHANGED <<opts, allPRs>>, NEW keps, allKEPs' = allKEPs \cup keps,
         \/ warned' = warned \cup {Head(sigs)} /\ keps = {}
         \/ /\ warned' = warned /\ allPRs \in Seq(Numbers)
            /\ keps = PullRequestKEPs(Head(sigs), Elems(allPRs))
  PROVE  SearchInv'
  <1>0. PICK g : g = Head(sigs)
    OBVIOUS
  <1>1. sigs \in Seq(Groups) /\ sigs # << >> /\ pc' = "local" /\ sigs' = Tail(sigs) /\ opts.includePRs
    BY DEF TypeOK, SetupInv, Ending
  <1>2. /\ \A i, j \in DOMAIN sigs : sigs[i] = sigs[j] => i = j
        /\ \A h \in Chosen \ Elems(sigs) :
             IF h \in warned THEN Found(h) = {}
             ELSE /\ Found(h) = PullRequestKEPs(h, Elems(allPRs))
                  /\ allPRs \in Seq(Numbers)
        /\ \A h \in Elems(sigs) : h \notin warned /\ Found(h) = {}
    BY <1>1 DEF SearchInv, Working
  <1>3. /\ Elems(sigs) = {g} \cup Elems(sigs') /\ g \notin Elems(sigs')
        /\ \A i, j \in DOMAIN sigs' : sigs'[i] = sigs'[j] => i = j
    <2>1. PICK s : s = sigs /\ s \in Seq(Groups) /\ s # << >> /\ Tail(s) = sigs' /\ Head(s) = g
      BY <1>0, <1>1
    <2>2. \A i, j \in DOMAIN s : s[i] = s[j] => i = j
      BY <1>2, <2>1
    <2>3. /\ Elems(s) = {Head(s)} \cup Elems(Tail(s))
          /\ Head(s) \notin Elems(Tail(s))
          /\ \A i, j \in DOMAIN Tail(s) : Tail(s)[i] = Tail(s)[j] => i = j
      <3>1. s \in Seq(Groups) /\ s # << >>
        BY <2>1
      <3>2. /\ Elems(s) = {Head(s)} \cup Elems(Tail(s))
            /\ (\A i, j \in DOMAIN s : s[i] = s[j] => i = j) =>
                 /\ Head(s) \notin Elems(Tail(s))
                 /\ \A i, j \in DOMAIN Tail(s) : Tail(s)[i] = Tail(s)[j] => i = j
        BY <3>1, HeadAndTail, Zenon
      <3> QED
        BY <2>2, <3>2, Zenon
    <2> QED
      BY <2>1, <2>3, Zenon
  <1>4. \A k \in keps : k.sig = g /\ (allPRs \in Seq(Numbers) => k.pr # 0)
    <2> TAKE k \in keps
    <2>1. PICK n \in Elems(allPRs) : k \in KEPsOf(n, g)
      BY <1>0, WhatPullRequestKEPsAre
    <2>2. k.sig = g /\ k.pr = n
      BY <2>1, Attributed, Zenon
    <2>3. allPRs \in Seq(Numbers) => n \in Numbers
      BY <2>1 DEF Elems
    <2> QED
      BY <2>2, <2>3, NumbersArePositive
  <1>5. \A h : h # g => Found(h)' = Found(h)
    BY <1>4 DEF Found
  <1>6. Found(g) = {} /\ g \notin warned
    BY <1>2, <1>3
  <1>7. Found(g)' = keps
    <2>1. Found(g)' = Found(g) \cup {k \in keps : k.sig = g /\ k.pr # 0}
      BY DEF Found
    <2>2. keps = {} \/ allPRs \in Seq(Numbers)
      OBVIOUS
    <2> QED
      BY <1>4, <1>6, <2>1, <2>2
  <1>8. ASSUME NEW h \in Chosen \ Elems(sigs')
        PROVE  IF h \in warned' THEN Found(h)' = {}
               ELSE Found(h)' = PullRequestKEPs(h, Elems(allPRs)) /\ allPRs \in Seq(Numbers)
    <2>1. CASE h = g
      BY <1>0, <1>6, <1>7, <2>1
    <2>2. CASE h # g
      <3>1. h \in Chosen \ Elems(sigs) /\ (h \in warned' <=> h \in warned)
        BY <1>0, <1>3, <2>2
      <3> QED
        BY <1>2, <1>5, <2>2, <3>1
    <2> QED
      BY <2>1, <2>2
  <1>9. \A h \in Elems(sigs') : h \notin warned' /\ Found(h)' = {}
    BY <1>0, <1>2, <1>3, <1>5
  <1> QED
    BY <1>1, <1>3, <1>8, <1>9 DEF SearchInv

\* Every step keeps SearchInv.
LEMMA SearchStays == TypeOK /\ SetupInv /\ LocalInv /\ SearchInv /\ ReadInv /\ Next => SearchInv'
  <1> SUFFICES ASSUME TypeOK, SetupInv, LocalInv, SearchInv, ReadInv, Next PROVE SearchInv'
    OBVIOUS
  <1> USE DEF client, github, query, search, Working, Ended, Searching, Reading
  <1>1. CASE NewRepo \/ FetchGroups \/ FetchPRRApprovers \/ getProposalTemplate
    BY <1>1 DEF NewRepo, FetchGroups, FetchPRRApprovers, getProposalTemplate, SearchInv
  <1>2. CASE Query
    <2>1. allKEPs' = {} /\ warned' = {} /\ pc' \in {"local", "error"}
      BY <1>2 DEF Query
    <2>2. CASE pc' = "local"
      <3>1. PICK o \in Requests : opts' = o /\ sigs' = SelectedGroups(o) /\ UNCHANGED groups
        BY <1>2, <2>2 DEF Query
      <3>2. groups \in GroupLists
        BY <1>2 DEF Query, SetupInv
      <3>3. Elems(sigs') = Chosen' /\ \A i, j \in DOMAIN sigs' : sigs'[i] = sigs'[j] => i = j
        BY <3>1, <3>2, SelectedAreGroups DEF Chosen
      <3>4. \A g : Found(g)' = {}
        BY <2>1 DEF Found
      <3> QED
        BY <2>1, <2>2, <3>3, <3>4 DEF SearchInv
    <2> QED
      BY <2>1, <2>2 DEF SearchInv
  <1>3. SUFFICES ASSUME ~Query, ~FetchGroups, UNCHANGED <<groups, opts>>, Chosen' = Chosen
                 PROVE  SearchInv'
    BY <1>1, <1>2, ChosenStays
  <1>4. ASSUME Abort, pc \in Searching, UNCHANGED allPRs PROVE SearchInv'
    <2>1. Ending /\ allKEPs' = allKEPs \cup {} /\ warned' = warned \cup {Head(sigs)}
      BY <1>4 DEF Abort, Ending
    <2> QED
      BY <1>3, <1>4, <2>1, EndKeepsSearch, Zenon
  <1>5. ASSUME NEW keps, Finish(keps), pc \in Searching \ {"search"}, UNCHANGED allPRs,
               keps = PullRequestKEPs(Head(sigs), Elems(allPRs))
        PROVE  SearchInv'
    <2>1. Ending /\ allKEPs' = allKEPs \cup keps /\ warned' = warned
      BY <1>5 DEF Finish, Ending
    <2>2. allPRs \in Seq(Numbers) /\ pc \in Searching
      BY <1>5 DEF SetupInv
    <2> QED
      BY <1>3, <1>5, <2>1, <2>2, EndKeepsSearch, Zenon
  <1>6. ASSUME UNCHANGED <<allKEPs, sigs, warned, allPRs>>, pc \in Working \cup Ended,
               pc' # "list" \/ pc = "list"
        PROVE  SearchInv'
    <2>1. \A g : Found(g)' = Found(g)
      BY <1>6 DEF Found
    <2> QED
      BY <1>3, <1>6, <2>1 DEF SearchInv
  <1>7. CASE LoadLocalKEPs
    <2>1. CASE pc' = "search"
      <3>1. allKEPs' = allKEPs \cup LocalKEPs(Head(sigs)) /\ UNCHANGED <<sigs, warned, allPRs>> /\ pc = "local"
        BY <1>7, <2>1 DEF LoadLocalKEPs
      <3>2. \A g : Found(g)' = Found(g)
        BY <3>1, LocalHasNoPR DEF Found
      <3> QED
        BY <1>3, <2>1, <3>1, <3>2 DEF SearchInv
    <2>2. CASE pc' = "error"
      BY <2>2 DEF SearchInv
    <2>3. CASE pc' = "local" /\ ~opts.includePRs
      BY <1>3, <2>3 DEF SearchInv
    <2> QED
      BY <1>7, <2>1, <2>2, <2>3 DEF LoadLocalKEPs
  <1>8. CASE BeginSearch
    <2>1. CASE Abort
      BY <1>4, <1>8, <2>1 DEF BeginSearch, Abort
    <2>2. CASE allPRs = Nil /\ pc' = "list"
      <3>1. allPRs \notin Seq(Numbers) /\ pc = "search" /\ UNCHANGED <<allKEPs, sigs, warned>>
        BY <1>8, <2>2, QueryConstants DEF BeginSearch, Abort
      <3>2. \A g : Found(g)' = Found(g)
        BY <3>1 DEF Found
      <3> QED
        BY <1>3, <2>2, <3>1, <3>2 DEF SearchInv
    <2>3. CASE pc' = "select"
      <3>1. UNCHANGED <<allKEPs, sigs, warned, allPRs>> /\ pc = "search"
        BY <1>8, <2>3 DEF BeginSearch, Abort
      <3> QED
        BY <1>6, <2>3, <3>1
    <2> QED
      BY <1>8, <2>1, <2>2, <2>3 DEF BeginSearch
  <1>9. CASE ListPage
    <2>1. CASE Abort
      BY <1>4, <1>9, <2>1 DEF ListPage, Abort
    <2>2. CASE ~Abort
      <3>1. pc = "list" /\ UNCHANGED <<allKEPs, sigs, warned>>
        BY <1>9, <2>2 DEF ListPage
      <3>2. \A g : Found(g)' = Found(g)
        BY <3>1 DEF Found
      <3> QED
        BY <1>3, <3>1, <3>2 DEF SearchInv
    <2> QED
      BY <2>1, <2>2
  <1>10. CASE SelectPRs
    <2> DEFINE S == {n \in Elems(allPRs) : Labelled(n, Head(sigs))}
    <2>1. allPRs \in Seq(Numbers) /\ pc = "select" /\ UNCHANGED allPRs
      BY <1>10 DEF SelectPRs, SetupInv
    <2>2. Elems(Keep(allPRs, S)) = Elems(allPRs) \cap S
      BY <2>1, KeepElems
    <2>3. \/ Keep(allPRs, S) = << >> /\ Finish({})
          \/ pc' # "list" /\ UNCHANGED <<allKEPs, sigs, warned>>
      BY <1>10 DEF SelectPRs
    <2>4. CASE Keep(allPRs, S) = << >> /\ Finish({})
      <3>1. \A n \in Elems(allPRs) : ~Labelled(n, Head(sigs))
        BY <2>2, <2>4, NoElems
      <3>2. {} = PullRequestKEPs(Head(sigs), Elems(allPRs))
        BY <3>1, WhatPullRequestKEPsAre
      <3> QED
        BY <1>5, <2>1, <2>4, <3>2
    <2>5. CASE pc' # "list" /\ UNCHANGED <<allKEPs, sigs, warned>>
      BY <1>6, <2>1, <2>5
    <2> QED
      BY <2>3, <2>4, <2>5
  <1>11. CASE Clone
    <2>1. CASE Abort
      BY <1>4, <1>11, <2>1 DEF Clone
    <2>2. CASE ~Abort
      BY <1>6, <1>11, <2>2 DEF Clone
    <2> QED
      BY <2>1, <2>2
  <1>12. CASE ListFiles
    <2>1. UNCHANGED allPRs /\ pc = "files"
      BY <1>12 DEF ListFiles
    <2>2. CASE Abort
      BY <1>4, <2>1, <2>2
    <2>3. CASE kepPRs = << >> /\ Finish(prKEPs)
      <3>1. prKEPs = PullRequestKEPs(Head(sigs), Elems(allPRs))
        <4>1. prKEPs \subseteq PullRequestKEPs(Head(sigs), Elems(allPRs))
          BY <2>1 DEF ReadInv
        <4>2. \A n \in Elems(allPRs) : Labelled(n, Head(sigs)) => KEPsOf(n, Head(sigs)) \subseteq prKEPs
          BY <2>1, <2>3, NoElems DEF ReadInv
        <4> QED
          BY <4>1, <4>2, WhatPullRequestKEPsAre
      <3> QED
        BY <1>5, <2>1, <2>3, <3>1
    <2>4. CASE ~Abort /\ ~Finish(prKEPs)
      <3>1. UNCHANGED <<allKEPs, sigs, warned>> /\ pc' # "list"
        BY <1>12, <2>4 DEF ListFiles
      <3> QED
        BY <1>6, <2>1, <3>1
    <2>5. Abort \/ (kepPRs = << >> /\ Finish(prKEPs)) \/ ~Finish(prKEPs)
      BY <1>12 DEF ListFiles, Finish
    <2> QED
      BY <2>2, <2>3, <2>4, <2>5
  <1>13. CASE CheckoutPullRequest
    <2>1. CASE Abort
      BY <1>4, <1>13, <2>1 DEF CheckoutPullRequest
    <2>2. CASE ~Abort
      BY <1>6, <1>13, <2>2 DEF CheckoutPullRequest
    <2> QED
      BY <2>1, <2>2
  <1>14. CASE ReadKEP
    BY <1>6, <1>14 DEF ReadKEP
  <1>15. CASE Return \/ PrintProposals
    BY <1>6, <1>15 DEF Return, PrintProposals
  <1>16. CASE OpenPR \/ ClosePR
    <2>1. UNCHANGED <<pc, allKEPs, sigs, warned, allPRs>>
      BY <1>16 DEF OpenPR, ClosePR
    <2>2. \A g : Found(g)' = Found(g)
      BY <2>1 DEF Found
    <2> QED
      BY <1>3, <2>1, <2>2 DEF SearchInv
  <1> QED
    BY <1>1, <1>2, <1>7, <1>8, <1>9, <1>10, <1>11, <1>12, <1>13, <1>14, <1>15, <1>16 DEF Next, Step

\* SearchInv and ReadInv hold, with what they rest on.
LEMMA SearchHolds == Spec => [](TypeOK /\ SetupInv /\ LocalInv /\ SearchInv /\ ReadInv)
  <1>1. Init => SearchInv /\ ReadInv
    BY DEF Init, SearchInv, ReadInv, Working, Ended, Searching, Reading
  <1>2. TypeOK /\ SetupInv /\ LocalInv /\ SearchInv /\ ReadInv /\ [Next]_vars => SearchInv' /\ ReadInv'
    <2> SUFFICES ASSUME SearchInv, ReadInv, UNCHANGED vars PROVE SearchInv' /\ ReadInv'
      BY SearchStays, ReadStays
    <2>1. (\A g : Found(g)' = Found(g)) /\ Chosen' = Chosen
      BY DEF vars, Found, Chosen
    <2>2. SearchInv'
      BY <2>1 DEF vars, SearchInv
    <2>3. ReadInv'
      BY DEF vars, ReadInv
    <2> QED
      BY <2>2, <2>3
  <1> QED
    BY <1>1, <1>2, LocalHolds, PTL DEF Spec

\* A search of pull requests is all or nothing for a group (repo.go:302-459,
\* query.go:111-127), and each KEP is read from the branch of the pull request it is
\* attributed to.
THEOREM SearchesAreAllOrNothing == Spec => []SearchIsAllOrNothing
  <1>1. LocalInv /\ SearchInv => SearchIsAllOrNothing
    BY NoElems DEF LocalInv, SearchInv, SearchIsAllOrNothing, Answered, Ended, Found
  <1> QED
    BY <1>1, SearchHolds, PTL

\* "existing KEPs with open PRs will be shown twice" (query.go:113): the output tells
\* the KEP of the clone from each version of it on the branch of a pull request.
THEOREM KEPsAreShownTwice == Spec => []ShownTwice
  <1>1. LocalInv /\ SearchInv => ShownTwice
    <2> SUFFICES ASSUME LocalInv, SearchInv, pc = "printed", opts.includePRs,
                        NEW g \in Chosen \ warned, NEW k \in LocalKEPs(g),
                        NEW p \in PullRequestKEPs(g, Elems(allPRs)),
                        Allowed(opts, k.doc), Allowed(opts, p.doc)
                 PROVE  {Row(k), Row(p)} \subseteq printed /\ Row(k) # Row(p)
      BY DEF ShownTwice
    <2>1. sigs = << >> /\ Elems(sigs) = {}
      BY NoElems DEF LocalInv, Ended
    <2>2. Found(g) = PullRequestKEPs(g, Elems(allPRs)) /\ LocalKEPs(g) \subseteq allKEPs
      BY <2>1 DEF LocalInv, SearchInv, Ended
    <2>3. p \in allKEPs /\ p.pr # 0 /\ k \in allKEPs /\ k.pr = 0
      BY <2>2, LocalHasNoPR DEF Found
    <2>4. k \in results /\ p \in results
      BY <2>3 DEF LocalInv, Ended
    <2>5. Row(k) \in printed /\ Row(p) \in printed
      BY <2>4 DEF LocalInv
    <2>6. Row(k) # Row(p)
      <3>1. CASE opts.output \in ColumnFormats
        <4>1. Link(k) = <<"keps", k.doc.owningSIG, << >>, k.name>> /\ Link(p) = <<"pull", p.pr>>
          BY <2>3 DEF Link
        <4>2. Link(k)[1] # Link(p)[1]
          BY <4>1
        <4>3. Row(k).link = Link(k) /\ Row(p).link = Link(p)
          BY <3>1 DEF Row
        <4> QED
          BY <4>2, <4>3
      <3>2. CASE opts.output \notin ColumnFormats
        BY <2>3, <3>2 DEF Row
      <3> QED
        BY <3>1, <3>2
    <2> QED
      BY <2>5, <2>6
  <1> QED
    BY <1>1, SearchHolds, PTL

----------------------------------------------------------------------------
(* The list of pull requests *)

\* Nothing is listed twice by a page of other pull requests.
LEMMA JoinedOnce ==
  ASSUME NEW s \in Seq(Numbers), NEW t \in Seq(Numbers),
         \A i, j \in DOMAIN s : s[i] = s[j] => i = j,
         \A i, j \in DOMAIN t : t[i] = t[j] => i = j,
         Elems(s) \cap Elems(t) = {}
  PROVE  \A i, j \in DOMAIN (s \o t) : (s \o t)[i] = (s \o t)[j] => i = j
  <1> DEFINE u == s \o t
  <1>1. /\ Len(s) \in Nat /\ Len(t) \in Nat /\ DOMAIN s = 1 .. Len(s) /\ DOMAIN t = 1 .. Len(t)
        /\ DOMAIN u = 1 .. Len(s) + Len(t)
        /\ \A i \in 1 .. Len(s) + Len(t) : u[i] = IF i <= Len(s) THEN s[i] ELSE t[i - Len(s)]
    OBVIOUS
  <1> HIDE DEF u
  <1>2. \A i \in DOMAIN u : \/ i \in DOMAIN s /\ u[i] = s[i]
                            \/ i - Len(s) \in DOMAIN t /\ u[i] = t[i - Len(s)] /\ i \in Nat
    BY <1>1
  <1>3. ASSUME NEW i \in DOMAIN u, NEW j \in DOMAIN u, u[i] = u[j] PROVE i = j
    <2>1. CASE i \in DOMAIN s /\ u[i] = s[i] /\ j \in DOMAIN s /\ u[j] = s[j]
      BY <1>3, <2>1
    <2>2. CASE i \in DOMAIN s /\ u[i] = s[i] /\ j - Len(s) \in DOMAIN t /\ u[j] = t[j - Len(s)]
      BY <1>3, <2>2 DEF Elems
    <2>3. CASE j \in DOMAIN s /\ u[j] = s[j] /\ i - Len(s) \in DOMAIN t /\ u[i] = t[i - Len(s)]
      BY <1>3, <2>3 DEF Elems
    <2>4. CASE i - Len(s) \in DOMAIN t /\ u[i] = t[i - Len(s)] /\ j - Len(s) \in DOMAIN t /\ u[j] = t[j - Len(s)]
      <3>1. t[i - Len(s)] = t[j - Len(s)]
        BY <1>3, <2>4
      <3>2. i - Len(s) = j - Len(s)
        BY <2>4, <3>1
      <3>3. i \in Nat /\ j \in Nat
        BY <1>1
      <3> QED
        BY <1>1, <3>2, <3>3
    <2> QED
      BY <1>2, <2>1, <2>2, <2>3, <2>4
  <1> QED
    BY <1>3 DEF u

\* A step outside of the listing leaves it alone.
LEMMA ListingIsLeft ==
  ASSUME ListInv, pc # "list", pc' # "list", UNCHANGED <<open, allPRs, held, grew, shrank>>
  PROVE  ListInv'
  BY DEF ListInv, ListingSurvivesChanges

\* The page that comes next is added: what is open is listed or lies on a later page.
LEMMA PageKeepsList ==
  ASSUME TypeOK, SetupInv, ListInv, pc = "list", allPRs' = allPRs \o PageOf(page),
         page' = NextPage(page), pc' = IF page' = 0 THEN "select" ELSE "list",
         UNCHANGED <<open, held, grew, shrank>>
  PROVE  ListInv'
  <1> DEFINE from == (page - 1) * PerPage
             new == PageOf(page)
  <1>1. page \in Nat /\ page >= 1 /\ allPRs \in Seq(Numbers) /\ open \in Seq(Numbers)
    BY DEF TypeOK, SetupInv, Searching
  <1>2. /\ from \in Nat /\ new \in Seq(Numbers)
        /\ \A i \in DOMAIN new : from + i \in DOMAIN open /\ new[i] = open[from + i]
        /\ NextPage(page) = 0 => \A i \in DOMAIN open : i > from => i - from \in DOMAIN new
        /\ NextPage(page) # 0 => /\ NextPage(page) = page + 1 /\ page * PerPage = from + PerPage
                                 /\ DOMAIN new = 1 .. PerPage
    BY <1>1, PagesFollow
  <1>3. From = from
    BY DEF From
  <1>4. NextPage(page) # 0 => From' = from + PerPage
    <2> SUFFICES ASSUME NextPage(page) # 0 PROVE From' = from + PerPage
      OBVIOUS
    <2>1. page' - 1 = page
      BY <1>1, <1>2
    <2> QED
      BY <1>2, <2>1 DEF From
  <1>5. PerPage \in Nat /\ DOMAIN open \subseteq Nat /\ DOMAIN new \subseteq Nat
    <2>1. PerPage \in Nat
      BY QueryConstants
    <2>2. \A t \in Seq(Numbers) : DOMAIN t \subseteq Nat
      OBVIOUS
    <2> HIDE DEF new
    <2> QED
      BY <1>1, <1>2, <2>1, <2>2
  <1> HIDE DEF from, new
  <1>6. allPRs' \in Seq(Numbers) /\ Elems(allPRs') = Elems(allPRs) \cup Elems(new)
    BY <1>1, <1>2, ListGrows DEF new
  <1>7. \A i, j \in DOMAIN open : i < j => open[i] > open[j]
    BY DEF ListInv
  <1>8. \A i \in DOMAIN open : open[i] \in Nat
    <2>1. \A i \in DOMAIN open : open[i] \in Numbers
      BY <1>1
    <2> QED
      BY <2>1, NumbersArePositive
  <1>9. \A i \in DOMAIN open : i > from => open[i] \in Elems(new) \/ (NextPage(page) # 0 /\ i > From')
    <2> SUFFICES ASSUME NEW i \in DOMAIN open, i > from, NextPage(page) = 0 \/ ~(i > From')
                 PROVE  open[i] \in Elems(new)
      OBVIOUS
    <2>1. i - from \in DOMAIN new
      <3>1. CASE NextPage(page) = 0
        BY <1>2, <3>1
      <3>2. CASE NextPage(page) # 0
        BY <1>2, <1>4, <1>5, <3>2
      <3> QED
        BY <3>1, <3>2
    <2>2. new[i - from] = open[from + (i - from)] /\ from + (i - from) = i
      BY <1>2, <1>5, <2>1
    <2> QED
      BY <2>1, <2>2 DEF Elems
  <1>10. shrank \/ \A n \in held : n \in Elems(allPRs') \/ (NextPage(page) # 0 /\ \E i \in DOMAIN open : i > From' /\ open[i] = n)
    BY <1>3, <1>6, <1>9 DEF ListInv
  <1>11. ASSUME ~grew PROVE \A i, j \in DOMAIN allPRs' : allPRs'[i] = allPRs'[j] => i = j
    <2>1. \A i, j \in DOMAIN new : new[i] = new[j] => i = j
      <3> SUFFICES ASSUME NEW i \in DOMAIN new, NEW j \in DOMAIN new, new[i] = new[j], i # j PROVE FALSE
        OBVIOUS
      <3>1. open[from + i] = open[from + j] /\ from + i \in DOMAIN open /\ from + j \in DOMAIN open
        BY <1>2
      <3>2. from + i < from + j \/ from + j < from + i
        BY <1>2, <1>5
      <3>3. open[from + i] > open[from + j] \/ open[from + j] > open[from + i]
        BY <1>7, <3>1, <3>2
      <3> QED
        BY <1>8, <3>1, <3>3
    <2>2. Elems(allPRs) \cap Elems(new) = {}
      <3> SUFFICES ASSUME NEW i \in DOMAIN new, new[i] \in Elems(allPRs) PROVE FALSE
        BY DEF Elems
      <3>1. from + i \in DOMAIN open /\ new[i] = open[from + i]
        BY <1>2
      <3>2. from + i > from
        <4>1. i \in 1 .. Len(new) /\ Len(new) \in Nat
          BY <1>2
        <4> QED
          BY <1>2, <4>1
      <3> QED
        BY <1>3, <1>11, <3>1, <3>2 DEF ListInv
    <2>3. \A i, j \in DOMAIN allPRs : allPRs[i] = allPRs[j] => i = j
      BY <1>11 DEF ListInv
    <2> QED
      BY <1>1, <1>2, <2>1, <2>2, <2>3, JoinedOnce DEF new
  <1>12. ASSUME ~grew, NextPage(page) # 0, NEW i \in DOMAIN open, i > From' PROVE open[i] \notin Elems(allPRs')
    <2>1. i > from /\ open[i] \notin Elems(allPRs)
      <3>1. i > from
        BY <1>2, <1>4, <1>5, <1>12
      <3> QED
        BY <1>3, <1>12, <3>1 DEF ListInv
    <2>2. open[i] \notin Elems(new)
      <3> SUFFICES ASSUME NEW j \in DOMAIN new, new[j] = open[i] PROVE FALSE
        BY DEF Elems
      <3>1. from + j \in DOMAIN open /\ open[from + j] = open[i] /\ from + j < i
        BY <1>2, <1>4, <1>5, <1>12
      <3>2. open[from + j] > open[i]
        BY <1>7, <3>1
      <3> QED
        BY <1>8, <3>1, <3>2
    <2> QED
      BY <1>6, <2>1, <2>2
  <1>13. CASE NextPage(page) = 0
    BY <1>7, <1>10, <1>11, <1>13 DEF ListInv, ListingSurvivesChanges
  <1>14. CASE NextPage(page) # 0
    BY <1>7, <1>10, <1>11, <1>12, <1>14 DEF ListInv, ListingSurvivesChanges
  <1> QED
    BY <1>13, <1>14

\* Every step keeps ListInv: the list stays in order on GitHub's side, and what is
\* opened or closed while it is read shows in grew and shrank.
LEMMA ListStays == TypeOK /\ SetupInv /\ ListInv /\ Next => ListInv'
  <1> SUFFICES ASSUME TypeOK, SetupInv, ListInv, Next PROVE ListInv'
    OBVIOUS
  <1> USE DEF client, github, query, search, history
  <1>1. CASE NewRepo \/ FetchGroups \/ FetchPRRApprovers \/ getProposalTemplate \/ Query \/ PrintProposals
    BY <1>1, ListingIsLeft DEF NewRepo, FetchGroups, FetchPRRApprovers, getProposalTemplate, Query, PrintProposals
  <1>2. CASE LoadLocalKEPs \/ SelectPRs \/ Return
    BY <1>2, ListingIsLeft DEF LoadLocalKEPs, SelectPRs, Finish, Return
  <1>3. CASE Clone \/ ListFiles \/ CheckoutPullRequest \/ ReadKEP
    BY <1>3, ListingIsLeft DEF Clone, ListFiles, CheckoutPullRequest, ReadKEP, Abort, Finish
  <1>4. CASE BeginSearch
    <2>1. CASE pc' # "list"
      BY <1>4, <2>1, ListingIsLeft DEF BeginSearch, Abort
    <2>2. CASE pc' = "list"
      <3>1. allPRs' = << >> /\ page' = 1 /\ held' = Elems(open) /\ open' = open
        BY <1>4, <2>2 DEF BeginSearch, Abort
      <3>2. From' = 0
        <4>1. PerPage \in Nat
          BY QueryConstants
        <4> QED
          BY <3>1, <4>1 DEF From
      <3>3. \A i \in DOMAIN open : i > 0
        <4>1. open \in Seq(Numbers)
          BY DEF TypeOK
        <4> QED
          BY <4>1
      <3>4. \A n \in held' : \E i \in DOMAIN open : i > From' /\ open[i] = n
        BY <3>1, <3>2, <3>3 DEF Elems
      <3>5. Elems(allPRs') = {} /\ DOMAIN allPRs' = {}
        BY <3>1, NoElems
      <3> QED
        BY <2>2, <3>1, <3>4, <3>5 DEF ListInv, ListingSurvivesChanges
    <2> QED
      BY <2>1, <2>2
  <1>5. CASE ListPage
    <2>1. CASE Abort /\ shrank' = TRUE /\ UNCHANGED <<allPRs, page, held, grew>>
      BY <1>5, <2>1 DEF ListPage, Abort, ListInv, ListingSurvivesChanges
    <2>2. CASE /\ allPRs' = allPRs \o PageOf(page) /\ page' = NextPage(page)
               /\ pc' = (IF page' = 0 THEN "select" ELSE "list") /\ UNCHANGED history
      BY <1>5, <2>2, PageKeepsList DEF ListPage
    <2> QED
      BY <1>5, <2>1, <2>2 DEF ListPage
  <1>6. CASE OpenPR
    <2>1. PICK n \in Numbers : (\A i \in DOMAIN open : n > open[i]) /\ open' = <<n>> \o open
      BY <1>6 DEF OpenPR
    <2>2. /\ UNCHANGED <<pc, allPRs, page, held, shrank>>
          /\ grew => grew'
          /\ pc = "list" => grew'
          /\ pc # "list" => (grew' <=> grew)
      BY <1>6 DEF OpenPR
    <2>3. open \in Seq(Numbers)
      BY DEF TypeOK
    <2>4. /\ Len(open) \in Nat /\ DOMAIN open = 1 .. Len(open) /\ DOMAIN open' = 1 .. Len(open) + 1
          /\ open'[1] = n /\ \A i \in 1 .. Len(open) : open'[i + 1] = open[i]
      BY <2>1, <2>3
    <2>5. \A i \in DOMAIN open' : i = 1 \/ (i - 1 \in DOMAIN open /\ open'[i] = open[i - 1])
      <3> TAKE i \in DOMAIN open'
      <3>1. i = 1 \/ (i - 1 \in 1 .. Len(open) /\ (i - 1) + 1 = i)
        BY <2>4
      <3> QED
        BY <2>4, <3>1
    <2>6. \A i, j \in DOMAIN open' : i < j => open'[i] > open'[j]
      <3> SUFFICES ASSUME NEW i \in DOMAIN open', NEW j \in DOMAIN open', i < j PROVE open'[i] > open'[j]
        OBVIOUS
      <3>1. j # 1 /\ j - 1 \in DOMAIN open /\ open'[j] = open[j - 1]
        BY <2>4, <2>5
      <3>2. CASE i = 1
        BY <2>1, <2>4, <3>1, <3>2
      <3>3. CASE i # 1
        <4>1. i - 1 \in DOMAIN open /\ open'[i] = open[i - 1] /\ i - 1 < j - 1
          BY <2>4, <2>5, <3>3
        <4> QED
          BY <3>1, <4>1 DEF ListInv
      <3> QED
        BY <3>2, <3>3
    <2>7. CASE pc = "list"
      <3>1. page \in Nat /\ page >= 1 /\ From' = From /\ From \in Int
        <4>1. page \in Nat /\ page >= 1
          BY <2>7 DEF TypeOK, SetupInv
        <4>2. PerPage \in Nat
          BY QueryConstants
        <4>3. \A a, b \in Int : (a - 1) * b \in Int
          OBVIOUS
        <4> QED
          BY <2>2, <4>1, <4>2, <4>3 DEF From
      <3>2. \A m : (\E i \in DOMAIN open : i > From /\ open[i] = m) => \E i \in DOMAIN open' : i > From' /\ open'[i] = m
        <4> SUFFICES ASSUME NEW i \in DOMAIN open, i > From PROVE \E j \in DOMAIN open' : j > From /\ open'[j] = open[i]
          BY <3>1
        <4>1. i + 1 \in DOMAIN open' /\ i + 1 > From /\ open'[i + 1] = open[i]
          BY <2>4, <3>1
        <4> QED
          BY <4>1
      <3>3. shrank \/ \A m \in held : m \in Elems(allPRs) \/ \E i \in DOMAIN open' : i > From' /\ open'[i] = m
        BY <2>7, <3>2 DEF ListInv
      <3> QED
        BY <2>2, <2>6, <2>7, <3>3 DEF ListInv, ListingSurvivesChanges
    <2>8. CASE pc # "list"
      BY <2>2, <2>6, <2>8 DEF ListInv, ListingSurvivesChanges
    <2> QED
      BY <2>7, <2>8
  <1>7. CASE ClosePR
    <2>1. PICK n \in Elems(open) : open' = Keep(open, Elems(open) \ {n}) /\ (pc # "list" => held' = held)
      BY <1>7 DEF ClosePR
    <2>2. /\ UNCHANGED <<pc, allPRs, page, grew>>
          /\ pc = "list" => shrank'
          /\ pc # "list" => (shrank' <=> shrank)
      BY <1>7 DEF ClosePR
    <2>3. open \in Seq(Numbers)
      BY DEF TypeOK
    <2>4. open' \in Seq(Numbers)
      BY <2>1, <2>3, KeepKeeps
    <2>5. PICK p : Embeds(open', open, Len(open), Elems(open) \ {n}, p)
      BY <2>1, <2>3, KeepKeeps
    <2>6. /\ DOMAIN open = 1 .. Len(open) /\ Len(open) \in Nat /\ DOMAIN open' = 1 .. Len(open') /\ Len(open') \in Nat
      BY <2>3, <2>4
    <2>7. \A i \in DOMAIN open' : p[i] \in DOMAIN open /\ i <= p[i] /\ open'[i] = open[p[i]] /\ i \in Nat
      BY <2>5, <2>6 DEF Embeds
    <2>8. \A i, j \in DOMAIN open' : i < j => open'[i] > open'[j]
      <3>1. \A i, j \in DOMAIN open' : i < j => p[i] < p[j]
        BY <2>5, <2>6 DEF Embeds
      <3> QED
        BY <2>7, <3>1 DEF ListInv
    <2>9. CASE pc = "list"
      <3>1. From' = From /\ From \in Int
        <4>1. page \in Nat
          BY <2>9 DEF TypeOK
        <4>2. PerPage \in Nat
          BY QueryConstants
        <4>3. \A a, b \in Int : (a - 1) * b \in Int
          OBVIOUS
        <4> QED
          BY <2>2, <4>1, <4>2, <4>3 DEF From
      <3>2. ASSUME ~grew, NEW i \in DOMAIN open', i > From' PROVE open'[i] \notin Elems(allPRs)
        <4>1. p[i] > From /\ p[i] \in DOMAIN open
          BY <2>6, <2>7, <3>1, <3>2
        <4> QED
          BY <2>7, <2>9, <3>2, <4>1 DEF ListInv
      <3> QED
        BY <2>2, <2>8, <2>9, <3>2 DEF ListInv, ListingSurvivesChanges
    <2>10. CASE pc # "list"
      BY <2>1, <2>2, <2>8, <2>10 DEF ListInv, ListingSurvivesChanges
    <2> QED
      BY <2>9, <2>10
  <1> QED
    BY <1>1, <1>2, <1>3, <1>4, <1>5, <1>6, <1>7 DEF Next, Step

\* The list of pull requests is read page by page while it changes (repo.go:318-345):
\* one that was open all the while is missing only if a page failed or another was
\* closed meanwhile, and one is listed twice only if another was opened.
THEOREM ListingIsSound == Spec => []ListingSurvivesChanges
  <1>1. Init => ListInv
    BY DEF Init, ListInv, ListingSurvivesChanges
  <1>2. ListInv /\ UNCHANGED vars => ListInv'
    BY DEF vars, ListInv, ListingSurvivesChanges, From
  <1>3. ListInv => ListingSurvivesChanges
    BY DEF ListInv
  <1> QED
    BY <1>1, <1>2, <1>3, ListStays, TypesHold, PTL DEF Spec
=============================================================================
