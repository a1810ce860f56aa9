--------------------------- MODULE MCTreeReaders ---------------------------
(* Instances of TreeReaders for TLC. *)
EXTENDS TreeReaders

Path(n, dir, in, above) == [name |-> n, dir |-> dir, parent |-> in, within |-> above]

\* A KEP with a nested one before and behind its kep.yaml, a kep.yaml that is a
\* symbolic link, and KEPs in Markdown files in and beside the directory of the SIG.
MCTree == <<
    Path("keps", TRUE, 0, {}),
    Path("0-old.md", FALSE, 1, {1}),
    Path("sig-a", TRUE, 1, {1}),
    Path("1-kep", TRUE, 3, {1, 3}),
    Path("early", TRUE, 4, {1, 3, 4}),
    Path("kep.yaml", FALSE, 5, {1, 3, 4, 5}),
    Path("kep.yaml", FALSE, 4, {1, 3, 4}),
    Path("late", TRUE, 4, {1, 3, 4}),
    Path("kep.yaml", FALSE, 8, {1, 3, 4, 8}),
    Path("2-kep", TRUE, 3, {1, 3}),
    Path("kep.yaml", FALSE, 10, {1, 3, 10}),
    Path("README.md", FALSE, 3, {1, 3}),
    Path("old.md", FALSE, 3, {1, 3}),
    Path("z-old.md", FALSE, 1, {1}) >>

MCMarkdownNames == {"0-old.md", "README.md", "old.md", "z-old.md"}
MCSymlinks == {11}

KEP == [title |-> "t", number |-> "1", authors |-> {}, owningSIG |-> "sig-a",
        participatingSIGs |-> Nil, approvers |-> {}, status |-> "provisional",
        stage |-> "alpha", latestMilestone |-> NoMilestone]
Untitled == [KEP EXCEPT !.title = ""]

\* Metadata alone, between "---" lines and with a text before them, and a text.
Plain == <<KEP>>
FrontMatter == <<Blank, [KEP EXCEPT !.title = "u"], Malformed>>
Preceded == <<Malformed, KEP, Malformed>>
Text == <<Malformed>>
MCContents == {Plain, FrontMatter, Text}

TreeWith(gone, denied_, c) ==
    LET there == Paths \ gone
    IN  [disk |-> there, denied |-> denied_,
         content |-> [f \in Files |-> IF f \notin there THEN NotExist
                                      ELSE IF f \in DOMAIN c THEN c[f]
                                      ELSE IF f \in Metadata THEN Plain ELSE FrontMatter]]

\* All there, with three, two, one or no KEP in Markdown files; no directory of the
\* SIG; one that cannot be listed; files that cannot be read or do not parse.
MCTrees ==
    {TreeWith({}, {}, << >>),
     TreeWith({2, 14}, {}, [f \in {12} |-> Text]),
     TreeWith({2, 7, 13, 14}, {}, << >>),
     TreeWith(3 .. 14, {}, << >>),
     TreeWith({2, 5, 6, 14}, {8}, << >>),
     TreeWith({2, 5, 6, 7, 14}, {8}, << >>),
     TreeWith(4 .. 11 \cup {14}, {}, [f \in {2, 13} |-> Preceded]),
     TreeWith({2, 8, 9, 10, 11, 14}, {}, [f \in {6, 13} |-> Unreadable]),
     TreeWith({2, 8, 9, 10, 11, 14}, {}, [f \in {6, 13} |-> <<Untitled>>]),
     TreeWith({5, 6, 10, 11, 14}, {}, [f \in {9, 13} |-> Text])}
=============================================================================
