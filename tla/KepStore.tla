------------------------------ MODULE KepStore ------------------------------
(***************************************************************************)
(* The commands that write KEPs: Create (pkg/proposal/create.go), Promote  *)
(* (pkg/proposal/promote.go) and the WriteKEP they share (pkg/repo/write.  *)
(* go), run by processes that may overlap, fail at any call of the file    *)
(* system, or be killed between two of them.                               *)
(*                                                                         *)
(* keps/<sig>/<name> is the pair <<sig, name>>; a KEP that is nested deeper *)
(* is promoted like one of another group, as its Name is the base of its   *)
(* directory and WriteKEP does not go below it.  os.WriteFile is two steps:*)
(* open with O_TRUNC, then write.  Dates, Reviewers and the other fields   *)
(* that no check looks at are left out.                                    *)
(***************************************************************************)
EXTENDS KepMetadata, Sequences

CONSTANTS
    Procs,          \* processes running kepctl
    Dirs,           \* the KEP directories <<sig, name>>
    Truncated,      \* an empty file
    InitialKEPs,    \* the choices of [Dirs -> content of kep.yaml] to start from
    Creates,        \* CreateOpts that callers pass
    Promotes,       \* PromoteOpts that callers pass
    MaxRuns,        \* bound: commands started
    MaxCrashes,     \* bound: processes killed
    MaxFailures     \* bound: calls of the file system that fail

Contents == Proposals \cup {Truncated, Malformed, NotExist}

ASSUME StoreContents ==
    /\ Truncated \notin Proposals \cup {NotExist}
    /\ InitialKEPs \subseteq [Dirs -> Contents \ {Truncated, Malformed}]

\* Dirs has every directory that MkdirAll may be asked for: a KEP is written
\* below its owning group.
ASSUME StoreOwners ==
    \A kep \in InitialKEPs, d \in Dirs :
        kep[d] # NotExist => kep[d].owningSIG = "" \/ <<kep[d].owningSIG, d[2]>> \in Dirs

ASSUME StoreOptions ==
    /\ \A o \in Creates :
         /\ {o.sig, o.name, o.number, o.title, o.state, o.stage} \subseteq STRING
         /\ o.authors \subseteq Handles /\ o.approvers \subseteq Handles
         /\ o.participatingSIGs \subseteq STRING
         /\ o.sig \in Groups /\ o.name # "" => <<o.sig, o.name>> \in Dirs
    /\ \A o \in Promotes :
         /\ {o.sig, o.name, o.stage} \subseteq STRING
         /\ o.release \in Nat \cup {BadMilestone}
         /\ o.cwd \in BOOLEAN

ASSUME StoreBounds == {MaxRuns, MaxCrashes, MaxFailures} \subseteq Nat

VARIABLES
    yaml,       \* Dirs -> content of kep.yaml, NotExist without one
    readme,     \* Dirs -> content of README.md
    pc,         \* Procs -> where the command is
    op,         \* Procs -> the options of the command
    buf,        \* Procs -> the Proposal that it writes
    overlap,    \* history: Procs -> another command ran at the same time
    damage,     \* history: a command was killed, failed or overlapped another
    runs, crashes, failures

vars == <<yaml, readme, pc, op, buf, overlap, damage, runs, crashes, failures>>

Idle == {"idle", "done", "failed"}
Active(p) == pc[p] \notin Idle

NoOp == [kind |-> "none", sig |-> Nil, name |-> Nil]

Init ==
    /\ yaml \in InitialKEPs
    /\ readme = [d \in Dirs |-> IF yaml[d] = NotExist THEN NotExist ELSE "text"]
    /\ pc = [p \in Procs |-> "idle"]
    /\ op = [p \in Procs |-> NoOp]
    /\ buf = [p \in Procs |-> Nil]
    /\ overlap = [p \in Procs |-> FALSE]
    /\ damage = FALSE
    /\ runs = 0 /\ crashes = 0 /\ failures = 0

\* Bookkeeping of a command p that starts.
Begin(p) ==
    LET others == {q \in Procs \ {p} : Active(q)}
    IN  /\ ~Active(p) /\ runs < MaxRuns
        /\ runs' = runs + 1
        /\ overlap' = [q \in Procs |-> IF q = p THEN others # {}
                                       ELSE overlap[q] \/ q \in others]
        /\ damage' = (damage \/ others # {})

Goto(p, label) == pc' = [pc EXCEPT ![p] = label]

----------------------------------------------------------------------------
(* Create *)

\* A handle gets its "@".
updatePersonReference(names) == {[at |-> TRUE, name |-> n.name] : n \in names}

populateProposal(o) ==
    [title             |-> o.title,
     number            |-> o.number,
     authors           |-> IF o.authors = {} THEN Nil ELSE updatePersonReference(o.authors),
     owningSIG         |-> o.sig,
     participatingSIGs |-> o.participatingSIGs \cup {o.sig},
     approvers         |-> IF o.approvers = {} THEN Nil ELSE updatePersonReference(o.approvers),
     status            |-> o.state,
     stage             |-> o.stage,
     latestMilestone   |-> NoMilestone]

\* Mutant of Marshal: every empty list is left out.
MarshalOmitsEmpty(kep) ==
    LET written(slice) == IF slice = {} THEN Nil ELSE slice
    IN  [kep EXCEPT !.authors = written(@), !.approvers = written(@),
                    !.participatingSIGs = written(@)]

\* yaml.Marshal: a nil slice is written as [], except that an empty list of
\* participating SIGs is left out.
Marshal(kep) ==
    LET written(slice) == IF slice = Nil THEN {} ELSE slice
    IN  [kep EXCEPT !.authors = written(@), !.approvers = written(@),
                    !.participatingSIGs = IF @ = {} THEN Nil ELSE @]

\* The proposal is populated and validated; nothing is written if it is invalid.
CreateWith(p, o) ==
    LET kep == populateProposal(o)
    IN  /\ Begin(p)
        /\ op' = [op EXCEPT ![p] = [kind |-> "create", sig |-> o.sig, name |-> o.name]]
        /\ buf' = [buf EXCEPT ![p] = kep]
        /\ Goto(p, IF Validate(kep) # {} THEN "failed" ELSE "mkdir")
        /\ UNCHANGED <<yaml, readme, crashes, failures>>

Create(p) == \E o \in Creates : CreateWith(p, o)

----------------------------------------------------------------------------
(* Promote *)

\* LoadLocalKEP: the path is looked up from the working directory of the process
\* (cwd: it is the root of the repository) and then read below BasePath.
Loads(o) ==
    /\ o.cwd
    /\ <<o.sig, o.name>> \in Dirs
    /\ yaml[<<o.sig, o.name>>] \notin {NotExist, Truncated, Malformed}

Promoted(o) == [yaml[<<o.sig, o.name>>] EXCEPT !.stage = o.stage, !.latestMilestone = o.release]

\* Mutant of PromoteWith: the error of LoadLocalKEP is ignored.
PromoteUnloaded(p, o) ==
    /\ Begin(p)
    /\ IF Loads(o)
       THEN /\ op' = [op EXCEPT ![p] = [kind |-> "promote", sig |-> o.sig, name |-> o.name]]
            /\ buf' = [buf EXCEPT ![p] = Promoted(o)]
       ELSE UNCHANGED <<op, buf>>
    /\ Goto(p, "mkdir")
    /\ UNCHANGED <<yaml, readme, crashes, failures>>

\* The KEP is loaded, and its stage and release are set; nothing is validated.
PromoteWith(p, o) ==
    /\ Begin(p)
    /\ IF Loads(o)
       THEN /\ op' = [op EXCEPT ![p] = [kind |-> "promote", sig |-> o.sig, name |-> o.name]]
            /\ buf' = [buf EXCEPT ![p] = Promoted(o)]
            /\ Goto(p, "mkdir")
       ELSE Goto(p, "failed") /\ UNCHANGED <<op, buf>>
    /\ UNCHANGED <<yaml, readme, crashes, failures>>

Promote(p) == \E o \in Promotes : PromoteWith(p, o)

----------------------------------------------------------------------------
(* WriteKEP, and the template that Create adds. *)

\* WriteKEP goes by the OwningSIG of the Proposal, the README.md by opts.SIG.
KepPath(p) == <<buf[p].owningSIG, op[p].name>>
ReadmePath(p) == <<op[p].sig, op[p].name>>

\* A call of the file system fails: the command returns its error.
FailCall(p) ==
    /\ failures < MaxFailures
    /\ failures' = failures + 1
    /\ damage' = TRUE
    /\ Goto(p, "failed")

\* Mutant of MakeDir: Create writes the README.md first.
MakeDirReadmeFirst(p) ==
    /\ pc[p] = "mkdir"
    /\ "" \notin {buf[p].owningSIG, op[p].name}
    /\ Goto(p, IF op[p].kind = "create" THEN "readme" ELSE "truncate")
    /\ UNCHANGED <<yaml, readme, op, buf, overlap, damage, runs, crashes, failures>>

\* The owning SIG and the name must be populated; then MkdirAll.
MakeDir(p) ==
    /\ pc[p] = "mkdir"
    /\ \/ /\ "" \in {buf[p].owningSIG, op[p].name}
          /\ Goto(p, "failed")
          /\ UNCHANGED <<damage, failures>>
       \/ /\ "" \notin {buf[p].owningSIG, op[p].name}
          /\ Goto(p, "truncate")
          /\ UNCHANGED <<damage, failures>>
       \/ /\ "" \notin {buf[p].owningSIG, op[p].name}
          /\ FailCall(p)
    /\ UNCHANGED <<yaml, readme, op, buf, overlap, runs, crashes>>

\* Mutant of TruncateYaml: the file is created and never written.
TruncateYamlOnly(p) ==
    /\ pc[p] = "truncate"
    /\ yaml' = [yaml EXCEPT ![KepPath(p)] = Truncated]
    /\ Goto(p, "done")
    /\ UNCHANGED <<readme, op, buf, overlap, damage, runs, crashes, failures>>

TruncateYaml(p) ==
    /\ pc[p] = "truncate"
    /\ \/ FailCall(p) /\ UNCHANGED yaml
       \/ /\ yaml' = [yaml EXCEPT ![KepPath(p)] = Truncated]
          /\ Goto(p, "write")
          /\ UNCHANGED <<damage, failures>>
    /\ UNCHANGED <<readme, op, buf, overlap, runs, crashes>>

\* The write starts at offset 0 of whatever the file holds by now: over a longer
\* content of another process it leaves that content's tail behind.
WriteYaml(p) ==
    LET new == Marshal(buf[p])
    IN  /\ pc[p] = "write"
        /\ \/ FailCall(p) /\ UNCHANGED yaml
           \/ /\ \E c \in IF yaml[KepPath(p)] \in {Truncated, new} THEN {new} ELSE {new, Malformed} :
                   yaml' = [yaml EXCEPT ![KepPath(p)] = c]
              /\ Goto(p, IF op[p].kind = "create" THEN "readme" ELSE "done")
              /\ UNCHANGED <<damage, failures>>
        /\ UNCHANGED <<readme, op, buf, overlap, runs, crashes>>

\* Mutant of TruncateReadme: it waits until there is no README.md.
TruncateReadmeWaits(p) ==
    /\ pc[p] = "readme" /\ readme[ReadmePath(p)] = NotExist
    /\ readme' = [readme EXCEPT ![ReadmePath(p)] = Truncated]
    /\ Goto(p, "template")
    /\ UNCHANGED <<yaml, op, buf, overlap, damage, runs, crashes, failures>>

TruncateReadme(p) ==
    /\ pc[p] = "readme"
    /\ \/ FailCall(p) /\ UNCHANGED readme
       \/ /\ readme' = [readme EXCEPT ![ReadmePath(p)] = Truncated]
          /\ Goto(p, "template")
          /\ UNCHANGED <<damage, failures>>
    /\ UNCHANGED <<yaml, op, buf, overlap, runs, crashes>>

WriteReadme(p) ==
    /\ pc[p] = "template"
    /\ \/ FailCall(p) /\ UNCHANGED readme
       \/ /\ readme' = [readme EXCEPT ![ReadmePath(p)] = "template"]
          /\ Goto(p, "done")
          /\ UNCHANGED <<damage, failures>>
    /\ UNCHANGED <<yaml, op, buf, overlap, runs, crashes>>

\* The process is killed.
Crash(p) ==
    /\ Active(p) /\ crashes < MaxCrashes
    /\ crashes' = crashes + 1
    /\ damage' = TRUE
    /\ Goto(p, "idle")
    /\ UNCHANGED <<yaml, readme, op, buf, overlap, runs, failures>>

----------------------------------------------------------------------------
Step(p) == MakeDir(p) \/ TruncateYaml(p) \/ WriteYaml(p) \/ TruncateReadme(p) \/ WriteReadme(p)

Next == \E p \in Procs : Create(p) \/ Promote(p) \/ Step(p) \/ Crash(p)

\* A command that is running goes on until it returns or is killed.
Spec == Init /\ [][Next]_vars /\ \A p \in Procs : WF_vars(Step(p))

----------------------------------------------------------------------------
(* Properties *)

\* The variables have their types.
TypeOK ==
    /\ yaml \in [Dirs -> Contents]
    /\ readme \in [Dirs -> {NotExist, Truncated, "text", "template"}]
    /\ pc \in [Procs -> Idle \cup {"mkdir", "truncate", "write", "readme", "template"}]
    /\ op \in [Procs -> [kind : {"none", "create", "promote"},
                       sig : STRING \cup {Nil}, name : STRING \cup {Nil}]]
    /\ buf \in [Procs -> Proposals \cup {Nil}]
    /\ \A p \in Procs : Active(p) => op[p].kind # "none" /\ buf[p] \in Proposals
    /\ overlap \in [Procs -> BOOLEAN]
    /\ damage \in BOOLEAN
    /\ <<runs, crashes, failures>> \in (0 .. MaxRuns) \X (0 .. MaxCrashes) \X (0 .. MaxFailures)

\* Whatever is killed, fails or overlaps, no command leaves a README.md without
\* a kep.yaml beside it: Repo.Validate never reports missing metadata for a KEP
\* that kepctl wrote.
ReadmeHasMetadata == \A d \in Dirs : readme[d] # NotExist => yaml[d] # NotExist

\* Only a command that was killed, failed or overlapped another leaves an empty
\* or mixed up kep.yaml behind.
OnlyDamageLeavesTornFiles ==
    ~damage /\ (\A p \in Procs : ~Active(p)) =>
        \A d \in Dirs : yaml[d] \notin {Truncated, Malformed}

Completes(p) == Active(p) /\ pc'[p] = "done"

\* A Create that no other command overlaps leaves a proposal template and a
\* kep.yaml that Repo.Validate parses, also where an earlier attempt was killed
\* half way; of a KEP that had the name nothing is left, not its milestone; if the
\* KEP needs no production readiness review, it passes.
CreatedKEPPassesTheGate ==
    [][\A p \in Procs : Completes(p) /\ op[p].kind = "create" /\ ~overlap[p] =>
          LET d == <<op[p].sig, op[p].name>>
          IN  /\ readme'[d] = "template"
              /\ yaml'[d] # Malformed /\ ParseKEP(yaml'[d]) = NoError
              /\ yaml'[d].owningSIG = op[p].sig /\ op[p].sig \in Groups
              /\ yaml'[d].latestMilestone = NoMilestone
              /\ yaml'[d].status \notin {"implementable", "implemented"} =>
                   ValidatePRR(yaml'[d], NotExist) = NoError]_vars

\* "Promote changes the stage and target release for a specified KEP"
\* (promote.go:48): when a Promote that no other command overlaps returns, the KEP
\* that it was given has the stage and the release of its options.
PromoteChangesTheKEP ==
    [][\A p \in {q \in Procs : Completes(q) /\ op[q].kind = "promote" /\ ~overlap[q]} :
          LET kep == yaml'[<<op[p].sig, op[p].name>>]
          IN  kep.stage = buf[p].stage /\ kep.latestMilestone = buf[p].latestMilestone]_vars

\* A Promote that no other command overlaps keeps a KEP of its own group valid
\* through the round trip: what parsed before it parses after it.
PromoteKeepsKEPValid ==
    [][\A p \in {q \in Procs : Completes(q) /\ op[q].kind = "promote" /\ ~overlap[q]} :
          LET kep == yaml'[<<op[p].sig, op[p].name>>]
          IN  buf[p].owningSIG = op[p].sig /\ ParseKEP(buf[p]) = NoError =>
                 /\ ParseKEP(kep) = NoError
                 /\ kep.stage = buf[p].stage /\ kep.latestMilestone = buf[p].latestMilestone
                 /\ validateGroups(kep) = validateGroups(buf[p])]_vars

\* Every command returns or is killed.
CommandsEnd == \A p \in Procs : Active(p) ~> ~Active(p)
=============================================================================
