---------------------------- MODULE TreeReaders ----------------------------
(***************************************************************************)
(* The programs that read the working tree besides Repo.Validate: the      *)
(* loader of `kepctl query` or kepify, one of them at a time, while the    *)
(* tree changes.                                                           *)
(***************************************************************************)
EXTENDS LocalLoader, Kepify

VARIABLE program    \* the one that runs

vars == <<treeVars, kepifyVars, program>>

Init == TreeInit /\ KepifyInit /\ program \in {"kepctl", "kepify"}

Step ==
    /\ \/ program = "kepctl" /\ LoaderStep /\ UNCHANGED kepifyVars
       \/ program = "kepify" /\ KepifyStep
    /\ UNCHANGED program

Next ==
    \/ Step
    \/ program = "kepify" /\ Kill /\ UNCHANGED program
    \/ (Remove \/ Write) /\ UNCHANGED <<kepifyVars, program>>

\* A program goes on until it ends or is killed.
Spec == Init /\ [][Next]_vars /\ WF_vars(Step)

----------------------------------------------------------------------------
(* Properties *)

\* The variables have their types, and only kepify opens and writes files of its own.
TypeOK ==
    /\ disk \in SUBSET Paths /\ Closed(disk) /\ denied \subseteq disk \ Files
    /\ \A f \in Files : content[f] = NotExist <=> f \notin disk
    /\ {touched, removed, pending, found} \subseteq SUBSET Paths
    /\ edits \in 0 .. MaxEdits
    /\ pc \in {"idle", "walk", "returned", "error", "panicked", "groups", "parse", "create", "write",
              "done", "exited", "crashed", "killed"}
    /\ files \in Seq(Files)
    /\ kept \subseteq Files \X Proposals
    /\ opened \in 0 .. MaxOpen /\ failures \in 0 .. MaxFailures
    /\ program = "kepctl" => opened = 0 /\ found = {} /\ output = OldOutput

\* Every program that was started ends.
ReadersEnd == Running ~> ~Running
=============================================================================
