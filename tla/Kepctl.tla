------------------------------- MODULE Kepctl -------------------------------
(***************************************************************************)
(* The command lines of `kepctl create` and `kepctl promote`               *)
(* (pkg/kepctl/commands) on top of KepStore: which options the flags and   *)
(* the arguments become.  A command line is a record of the flags given.   *)
(* runCreate and runPromote make a Repo first; what may go wrong there is  *)
(* in KepQuery, here it fails or does not.                                 *)
(***************************************************************************)
EXTENDS KepStore

CONSTANTS
    CreateLines,    \* the flags of `kepctl create`
    PromoteLines    \* the [kep, flags, cwd] of `kepctl promote`, kep its argument

VARIABLE
    asked           \* history: Procs -> the [kep, stage, release] that the last command
                    \* line asks to promote, Nil if another command ran since

flag(line, name, default) == IF name \in DOMAIN line THEN line[name] ELSE default

\* addCreate; CreateOpts.Validate does nothing.
createOpts(line) ==
    [sig |-> flag(line, "owningSig", ""), name |-> flag(line, "name", ""),
     number |-> flag(line, "number", ""), title |-> flag(line, "title", ""),
     authors |-> flag(line, "authors", {}), approvers |-> flag(line, "approvers", {}),
     participatingSIGs |-> flag(line, "participatingSigs", {}),
     state |-> flag(line, "state", "provisional"), stage |-> flag(line, "stage", "alpha")]

\* addPromote; PromoteOpts.Validate does nothing either, so the argument is in no
\* option.
promoteOpts(line) ==
    [sig |-> "", name |-> "", cwd |-> line.cwd,
     stage |-> flag(line.flags, "stage", ""), release |-> flag(line.flags, "release", NoMilestone)]

\* repo.New fails.
NoClient(p) ==
    /\ Begin(p)
    /\ failures < MaxFailures /\ failures' = failures + 1
    /\ Goto(p, "failed")
    /\ UNCHANGED <<yaml, readme, op, buf, crashes>>

runCreate(p) ==
    /\ NoClient(p) \/ \E line \in CreateLines : CreateWith(p, createOpts(line))
    /\ asked' = [q \in Procs |-> Nil]

\* What the line asks for is noted if the KEP is there to be promoted.
runPromote(p) ==
    \E line \in PromoteLines :
        LET o == promoteOpts(line)
            there == line.cwd /\ yaml[line.kep] \in Proposals
        IN  \/ NoClient(p) /\ asked' = [q \in Procs |-> Nil]
            \/ /\ PromoteWith(p, o)
               /\ asked' = [q \in Procs |-> IF q = p /\ there
                                            THEN [kep |-> line.kep, stage |-> o.stage, release |-> o.release]
                                            ELSE Nil]

KepctlInit == Init /\ asked = [p \in Procs |-> Nil]

KepctlNext ==
    \E p \in Procs :
        \/ runCreate(p) \/ runPromote(p)
        \/ (Step(p) \/ Crash(p)) /\ UNCHANGED asked

KepctlSpec == KepctlInit /\ [][KepctlNext]_<<vars, asked>>

----------------------------------------------------------------------------
(* Properties *)

\* `kepctl promote sig-architecture/000-mykep --stage beta --release v1.20` does
\* "Promote a KEP to a new stage for a target release" (promote.go:33): once the
\* command ended, with nothing killed, failed or overlapped, the KEP of the
\* argument has the stage and the release of the flags.
PromoteUpdatesSpecifiedKEP ==
    \A p \in Procs : asked[p] # Nil /\ ~Active(p) /\ ~damage =>
        /\ yaml[asked[p].kep].stage = asked[p].stage
        /\ yaml[asked[p].kep].latestMilestone = asked[p].release
=============================================================================
