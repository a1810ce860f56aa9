--------------------------- MODULE KepStoreProofs ---------------------------
(***************************************************************************)
(* Proofs about KepStore, for any number of processes, commands, kills and *)
(* failing calls.                                                          *)
(***************************************************************************)
EXTENDS KepStore, TLAPS

\* What holds of a command between its steps.
CommandInv ==
    \A p \in Procs :
        /\ Active(p) /\ op[p].kind = "create" => buf[p].owningSIG = op[p].sig
        /\ pc[p] \in {"readme", "template"} => op[p].kind = "create"
        /\ pc[p] \in {"write", "readme", "template"} /\ KepPath(p) \in Dirs =>
             yaml[KepPath(p)] # NotExist

\* What holds as long as nothing was killed, failed or overlapped: there is one
\* command at a time, and only it has an empty kep.yaml.
SoloInv ==
    ~damage =>
        /\ \A p, q \in Procs : Active(p) /\ Active(q) => p = q
        /\ \A p \in Procs : pc[p] = "write" /\ KepPath(p) \in Dirs => yaml[KepPath(p)] = Truncated
        /\ \A d \in Dirs : yaml[d] \in {Truncated, Malformed} =>
              \E p \in Procs : pc[p] = "write" /\ KepPath(p) = d

Labels == Idle \cup {"mkdir", "truncate", "write", "readme", "template"}
Ops == [kind : {"none", "create", "promote"}, sig : STRING \cup {Nil}, name : STRING \cup {Nil}]

\* What yaml.Marshal is given and returns is a Proposal.
LEMMA MarshalType == ASSUME NEW kep \in Proposals PROVE Marshal(kep) \in Proposals
  BY DEF Marshal, Proposals

\* populateProposal (create.go:123) returns a Proposal for all options that a
\* caller may pass.
LEMMA PopulateType == ASSUME NEW o \in Creates PROVE populateProposal(o) \in Proposals
  <1>1. /\ o.sig \in STRING /\ o.number \in STRING /\ o.title \in STRING
        /\ o.state \in STRING /\ o.stage \in STRING
        /\ o.authors \subseteq Handles /\ o.approvers \subseteq Handles
        /\ o.participatingSIGs \subseteq STRING
    BY StoreOptions
  <1>2. ASSUME NEW names \in SUBSET Handles
        PROVE  updatePersonReference(names) \in SUBSET Handles
    <2>1. \A n \in names : [at |-> TRUE, name |-> n.name] \in Handles
      BY DEF Handles
    <2> QED
      BY <2>1 DEF updatePersonReference
  <1>3. NoMilestone \in Nat
    BY DEF NoMilestone
  <1> QED
    BY <1>1, <1>2, <1>3 DEF populateProposal, Proposals

\* A Proposal is none of the markers for other contents.
LEMMA NotMarkers == Proposals \cap {Truncated, Malformed, NotExist} = {}
  BY StoreContents, NoProposals DEF Contents

\* The bookkeeping of a command that starts keeps its type.
LEMMA BeginType ==
  ASSUME TypeOK, NEW p \in Procs, Begin(p)
  PROVE  overlap' \in [Procs -> BOOLEAN] /\ damage' \in BOOLEAN /\ runs' \in 0 .. MaxRuns
  <1> DEFINE others == {q \in Procs \ {p} : Active(q)}
  <1>1. \A q \in Procs : (IF q = p THEN others # {} ELSE overlap[q] \/ q \in others) \in BOOLEAN
    OBVIOUS
  <1>2. overlap' = [q \in Procs |-> IF q = p THEN others # {} ELSE overlap[q] \/ q \in others]
    BY DEF Begin
  <1>3. overlap' \in [Procs -> BOOLEAN]
    BY <1>1, <1>2, Zenon
  <1>4. damage' \in BOOLEAN
    BY Zenon DEF Begin
  <1>5. runs' \in 0 .. MaxRuns
    BY StoreBounds DEF Begin, TypeOK
  <1> QED
    BY <1>3, <1>4, <1>5

\* The files and the processes keep their types through Create, Promote and
\* WriteKEP, in particular: a command that writes has a Proposal to write.
THEOREM TypeCorrect == Spec => []TypeOK
  <1>1. Init => TypeOK
    <2> SUFFICES ASSUME Init PROVE TypeOK
      OBVIOUS
    <2>1. yaml \in [Dirs -> Contents]
      BY StoreContents DEF Init
    <2>2. readme \in [Dirs -> {NotExist, Truncated, "text", "template"}]
      BY DEF Init
    <2>3. /\ pc \in [Procs -> Labels] /\ op \in [Procs -> Ops]
          /\ buf \in [Procs -> Proposals \cup {Nil}]
          /\ \A p \in Procs : ~Active(p)
      <3>1. NoOp \in Ops
        BY DEF NoOp, Ops
      <3>2. pc \in [Procs -> Labels] /\ \A p \in Procs : ~Active(p)
        BY DEF Init, Labels, Idle, Active
      <3> QED
        BY <3>1, <3>2 DEF Init
    <2>4. <<runs, crashes, failures>> \in (0 .. MaxRuns) \X (0 .. MaxCrashes) \X (0 .. MaxFailures)
      BY StoreBounds DEF Init
    <2>5. overlap \in [Procs -> BOOLEAN] /\ damage \in BOOLEAN
      BY DEF Init
    <2> QED
      BY <2>1, <2>2, <2>3, <2>4, <2>5 DEF TypeOK, Labels, Ops
  <1>2. TypeOK /\ [Next]_vars => TypeOK'
    <2> SUFFICES ASSUME TypeOK, [Next]_vars PROVE TypeOK'
      OBVIOUS
    <2> USE DEF Labels, Ops
    <2>1. ASSUME NEW p \in Procs, Create(p) PROVE TypeOK'
      <3>1. PICK o \in Creates :
              /\ op' = [op EXCEPT ![p] = [kind |-> "create", sig |-> o.sig, name |-> o.name]]
              /\ buf' = [buf EXCEPT ![p] = populateProposal(o)]
              /\ pc' = [pc EXCEPT ![p] = IF Validate(populateProposal(o)) # {} THEN "failed" ELSE "mkdir"]
        BY <2>1 DEF Create, CreateWith, Goto
      <3>2. o.sig \in STRING /\ o.name \in STRING
        BY StoreOptions
      <3>3. populateProposal(o) \in Proposals
        BY PopulateType
      <3>4. /\ pc' \in [Procs -> Labels] /\ op' \in [Procs -> Ops]
            /\ buf' \in [Procs -> Proposals \cup {Nil}]
            /\ \A q \in Procs : Active(q)' => op'[q].kind # "none" /\ buf'[q] \in Proposals
        BY <3>1, <3>2, <3>3 DEF TypeOK, Active, Idle
      <3>5. Begin(p) /\ UNCHANGED <<yaml, readme, crashes, failures>>
        BY <2>1 DEF Create, CreateWith
      <3>6. overlap' \in [Procs -> BOOLEAN] /\ damage' \in BOOLEAN /\ runs' \in 0 .. MaxRuns
        BY <3>5, BeginType
      <3> QED
        BY <3>4, <3>5, <3>6 DEF TypeOK
    <2>2. ASSUME NEW p \in Procs, Promote(p) PROVE TypeOK'
      <3>1. PICK o \in Promotes :
              IF Loads(o)
              THEN /\ op' = [op EXCEPT ![p] = [kind |-> "promote", sig |-> o.sig, name |-> o.name]]
                   /\ buf' = [buf EXCEPT ![p] = [yaml[<<o.sig, o.name>>] EXCEPT !.stage = o.stage,
                                                                !.latestMilestone = o.release]]
                   /\ pc' = [pc EXCEPT ![p] = "mkdir"]
              ELSE pc' = [pc EXCEPT ![p] = "failed"] /\ UNCHANGED <<op, buf>>
        BY <2>2 DEF Promote, PromoteWith, Promoted, Goto
      <3>2. /\ o.sig \in STRING /\ o.name \in STRING /\ o.stage \in STRING
            /\ o.release \in Nat \cup {BadMilestone}
        BY StoreOptions
      <3>3. /\ pc' \in [Procs -> Labels] /\ op' \in [Procs -> Ops]
            /\ buf' \in [Procs -> Proposals \cup {Nil}]
            /\ \A q \in Procs : Active(q)' => op'[q].kind # "none" /\ buf'[q] \in Proposals
        <4>1. CASE Loads(o)
          <5>1. yaml[<<o.sig, o.name>>] \in Proposals
            BY <4>1 DEF TypeOK, Loads, Contents
          <5>2. [yaml[<<o.sig, o.name>>] EXCEPT !.stage = o.stage, !.latestMilestone = o.release]
                  \in Proposals
            BY <5>1, <3>2 DEF Proposals
          <5> QED
            <6>1. pc' \in [Procs -> Labels] /\ op' \in [Procs -> Ops]
              <7>1. [kind |-> "promote", sig |-> o.sig, name |-> o.name] \in Ops
                BY <3>2
              <7>2. op \in [Procs -> Ops] /\ pc \in [Procs -> Labels]
                BY DEF TypeOK, Idle
              <7>3. /\ op' = [op EXCEPT ![p] = [kind |-> "promote", sig |-> o.sig, name |-> o.name]]
                    /\ pc' = [pc EXCEPT ![p] = "mkdir"]
                BY <4>1, <3>1
              <7> HIDE DEF Ops
              <7> QED
                BY <7>1, <7>2, <7>3
            <6>2. buf' \in [Procs -> Proposals \cup {Nil}]
              BY <4>1, <5>2, <3>1 DEF TypeOK
            <6>3. ASSUME NEW q \in Procs, Active(q)'
                  PROVE  op'[q].kind # "none" /\ buf'[q] \in Proposals
              BY <6>3, <4>1, <5>2, <3>1 DEF TypeOK, Active, Idle
            <6> QED
              BY <6>1, <6>2, <6>3
        <4>2. CASE ~Loads(o)
          BY <4>2, <3>1 DEF TypeOK, Active, Idle
        <4> QED
          BY <4>1, <4>2
      <3>4. Begin(p) /\ UNCHANGED <<yaml, readme, crashes, failures>>
        BY <2>2 DEF Promote, PromoteWith
      <3>5. overlap' \in [Procs -> BOOLEAN] /\ damage' \in BOOLEAN /\ runs' \in 0 .. MaxRuns
        BY <3>4, BeginType
      <3> QED
        BY <3>3, <3>4, <3>5 DEF TypeOK
    <2>3. ASSUME NEW p \in Procs, FailCall(p),
                 UNCHANGED <<yaml, readme, op, buf, overlap, runs, crashes>>,
                 pc[p] \notin Idle
          PROVE  TypeOK'
      <3>1. failures' \in 0 .. MaxFailures
        BY <2>3, StoreBounds DEF TypeOK, FailCall
      <3> QED
        BY <2>3, <3>1 DEF TypeOK, FailCall, Goto, Active, Idle
    <2>4. ASSUME NEW p \in Procs, MakeDir(p) PROVE TypeOK'
      <3>1. CASE FailCall(p)
        BY <2>4, <2>3, <3>1 DEF MakeDir, Idle
      <3>2. CASE ~FailCall(p)
        BY <2>4, <3>2 DEF MakeDir, TypeOK, Goto, Active, Idle
      <3> QED
        BY <3>1, <3>2
    <2>5. ASSUME NEW p \in Procs, TruncateYaml(p) PROVE TypeOK'
      <3>1. CASE FailCall(p) /\ UNCHANGED yaml
        BY <2>5, <2>3, <3>1 DEF TruncateYaml, Idle
      <3>2. CASE ~(FailCall(p) /\ UNCHANGED yaml)
        <4>1. yaml' \in [Dirs -> Contents]
          BY <2>5, <3>2 DEF TruncateYaml, TypeOK, Contents
        <4> QED
          BY <2>5, <3>2, <4>1 DEF TruncateYaml, TypeOK, Goto, Active, Idle
      <3> QED
        BY <3>1, <3>2
    <2>6. ASSUME NEW p \in Procs, WriteYaml(p) PROVE TypeOK'
      <3>1. CASE FailCall(p) /\ UNCHANGED yaml
        BY <2>6, <2>3, <3>1 DEF WriteYaml, Idle
      <3>2. CASE ~(FailCall(p) /\ UNCHANGED yaml)
        <4>1. Marshal(buf[p]) \in Proposals
          BY <2>6, MarshalType DEF WriteYaml, TypeOK, Active, Idle
        <4>2. PICK c \in {Marshal(buf[p]), Malformed} : yaml' = [yaml EXCEPT ![KepPath(p)] = c]
          BY <2>6, <3>2 DEF WriteYaml
        <4>3. yaml' \in [Dirs -> Contents]
          BY <4>1, <4>2 DEF TypeOK, Contents
        <4> QED
          BY <2>6, <3>2, <4>3 DEF WriteYaml, TypeOK, Goto, Active, Idle
      <3> QED
        BY <3>1, <3>2
    <2>7. ASSUME NEW p \in Procs, TruncateReadme(p) PROVE TypeOK'
      <3>1. CASE FailCall(p) /\ UNCHANGED readme
        BY <2>7, <2>3, <3>1 DEF TruncateReadme, Idle
      <3>2. CASE ~(FailCall(p) /\ UNCHANGED readme)
        <4>1. /\ readme' \in [Dirs -> {NotExist, Truncated, "text", "template"}]
              /\ UNCHANGED <<yaml, op, buf, overlap, damage, runs, crashes, failures>>
          BY <2>7, <3>2 DEF TruncateReadme, TypeOK
        <4>2. /\ pc' \in [Procs -> Idle \cup {"mkdir", "truncate", "write", "readme", "template"}]
              /\ \A r \in Procs : Active(r)' => Active(r)
          BY <2>7, <3>2 DEF TruncateReadme, TypeOK, Goto, Active, Idle
        <4> QED
          BY <4>1, <4>2 DEF TypeOK
      <3> QED
        BY <3>1, <3>2
    <2>8. ASSUME NEW p \in Procs, WriteReadme(p) PROVE TypeOK'
      <3>1. CASE FailCall(p) /\ UNCHANGED readme
        BY <2>8, <2>3, <3>1 DEF WriteReadme, Idle
      <3>2. CASE ~(FailCall(p) /\ UNCHANGED readme)
        <4>1. /\ readme' \in [Dirs -> {NotExist, Truncated, "text", "template"}]
              /\ UNCHANGED <<yaml, op, buf, overlap, damage, runs, crashes, failures>>
          BY <2>8, <3>2 DEF WriteReadme, TypeOK
        <4>2. /\ pc' \in [Procs -> Idle \cup {"mkdir", "truncate", "write", "readme", "template"}]
              /\ \A r \in Procs : Active(r)' => Active(r)
          BY <2>8, <3>2 DEF WriteReadme, TypeOK, Goto, Active, Idle
        <4> QED
          BY <4>1, <4>2 DEF TypeOK
      <3> QED
        BY <3>1, <3>2
    <2>9. ASSUME NEW p \in Procs, Crash(p) PROVE TypeOK'
      <3>1. crashes' \in 0 .. MaxCrashes
        BY <2>9, StoreBounds DEF TypeOK, Crash
      <3> QED
        BY <2>9, <3>1 DEF TypeOK, Crash, Goto, Active, Idle
    <2>10. CASE UNCHANGED vars
      BY <2>10 DEF TypeOK, vars, Active
    <2> QED
      BY <2>1, <2>2, <2>4, <2>5, <2>6, <2>7, <2>8, <2>9, <2>10 DEF Next, Step
  <1> QED
    BY <1>1, <1>2, PTL DEF Spec

\* A command between its steps: CommandInv is inductive, given the types.
LEMMA CommandStep == TypeOK /\ CommandInv /\ [Next]_vars => CommandInv'
  <1> SUFFICES ASSUME TypeOK, CommandInv, [Next]_vars PROVE CommandInv'
    OBVIOUS
  <1> USE DEF Active, Idle, KepPath
  <1>1. ASSUME NEW p \in Procs, Create(p) PROVE CommandInv'
    <2>1. PICK o \in Creates :
            /\ op' = [op EXCEPT ![p] = [kind |-> "create", sig |-> o.sig, name |-> o.name]]
            /\ buf' = [buf EXCEPT ![p] = populateProposal(o)]
            /\ pc' = [pc EXCEPT ![p] = IF Validate(populateProposal(o)) # {} THEN "failed" ELSE "mkdir"]
      BY <1>1 DEF Create, CreateWith, Goto
    <2>2. populateProposal(o).owningSIG = o.sig
      BY DEF populateProposal
    <2>3. yaml' = yaml
      BY <1>1 DEF Create, CreateWith
    <2>4. /\ op'[p].kind = "create" /\ buf'[p].owningSIG = op'[p].sig
          /\ pc'[p] \in {"failed", "mkdir"}
      BY <2>1, <2>2 DEF TypeOK
    <2>5. \A r \in Procs \ {p} : op'[r] = op[r] /\ buf'[r] = buf[r] /\ pc'[r] = pc[r]
      BY <2>1 DEF TypeOK
    <2> SUFFICES ASSUME NEW r \in Procs
                 PROVE  /\ Active(r)' /\ op'[r].kind = "create" => buf'[r].owningSIG = op'[r].sig
                        /\ pc'[r] \in {"readme", "template"} => op'[r].kind = "create"
                        /\ pc'[r] \in {"write", "readme", "template"} /\ KepPath(r)' \in Dirs =>
                             yaml'[KepPath(r)'] # NotExist
      BY Zenon DEF CommandInv
    <2>6. CASE r = p
      BY <2>4, <2>6
    <2>7. CASE r # p
      BY <2>3, <2>5, <2>7 DEF CommandInv
    <2> QED
      BY <2>6, <2>7
  <1>2. ASSUME NEW p \in Procs, Promote(p) PROVE CommandInv'
    BY <1>2 DEF Promote, PromoteWith, Promoted, Goto, TypeOK, CommandInv
  <1>3. ASSUME NEW p \in Procs, FailCall(p), UNCHANGED <<yaml, op, buf>> PROVE CommandInv'
    BY <1>3 DEF FailCall, Goto, TypeOK, CommandInv
  <1>4. ASSUME NEW p \in Procs, MakeDir(p) PROVE CommandInv'
    <2>1. CASE FailCall(p)
      BY <1>3, <1>4, <2>1 DEF MakeDir
    <2>2. CASE ~FailCall(p)
      <3>1. pc[p] = "mkdir" /\ UNCHANGED <<yaml, op, buf>>
        BY <1>4 DEF MakeDir
      <3>2. /\ pc'[p] \in {"failed", "truncate"}
            /\ \A r \in Procs \ {p} : pc'[r] = pc[r]
        BY <1>4, <2>2 DEF MakeDir, Goto, TypeOK
      <3> QED
        BY <3>1, <3>2 DEF CommandInv
    <2> QED
      BY <2>1, <2>2
  <1>5. ASSUME NEW p \in Procs, TruncateYaml(p) PROVE CommandInv'
    <2>1. CASE FailCall(p) /\ UNCHANGED yaml
      BY <1>3, <1>5, <2>1 DEF TruncateYaml
    <2>2. CASE ~(FailCall(p) /\ UNCHANGED yaml)
      <3>1. Truncated # NotExist
        BY StoreContents
      <3>2. /\ pc' = [pc EXCEPT ![p] = "write"] /\ op' = op /\ buf' = buf
            /\ yaml' = [yaml EXCEPT ![KepPath(p)] = Truncated]
            /\ pc[p] = "truncate"
        BY <1>5, <2>2 DEF TruncateYaml, Goto
      <3>3. \A d \in Dirs : yaml'[d] = NotExist => yaml[d] = NotExist /\ d # KepPath(p)
        BY <3>1, <3>2 DEF TypeOK
      <3> QED
        BY <3>2, <3>3 DEF TypeOK, CommandInv
    <2> QED
      BY <2>1, <2>2
  <1>6. ASSUME NEW p \in Procs, WriteYaml(p) PROVE CommandInv'
    <2>1. CASE FailCall(p) /\ UNCHANGED yaml
      BY <1>3, <1>6, <2>1 DEF WriteYaml
    <2>2. CASE ~(FailCall(p) /\ UNCHANGED yaml)
      <3>1. Marshal(buf[p]) # NotExist /\ Malformed # NotExist
        BY <1>6, MarshalType, NotMarkers, NoProposals DEF WriteYaml, TypeOK
      <3>2. PICK c \in {Marshal(buf[p]), Malformed} : yaml' = [yaml EXCEPT ![KepPath(p)] = c]
        BY <1>6, <2>2 DEF WriteYaml
      <3>3. /\ pc' = [pc EXCEPT ![p] = IF op[p].kind = "create" THEN "readme" ELSE "done"]
            /\ op' = op /\ buf' = buf
        BY <1>6, <2>2 DEF WriteYaml, Goto
      <3> QED
        BY <1>6, <3>1, <3>2, <3>3 DEF WriteYaml, TypeOK, CommandInv
    <2> QED
      BY <2>1, <2>2
  <1>7. ASSUME NEW p \in Procs, TruncateReadme(p) PROVE CommandInv'
    BY <1>7 DEF TruncateReadme, FailCall, Goto, TypeOK, CommandInv
  <1>8. ASSUME NEW p \in Procs, WriteReadme(p) PROVE CommandInv'
    BY <1>8 DEF WriteReadme, FailCall, Goto, TypeOK, CommandInv
  <1>9. ASSUME NEW p \in Procs, Crash(p) PROVE CommandInv'
    BY <1>9 DEF Crash, Goto, TypeOK, CommandInv
  <1>10. CASE UNCHANGED vars
    BY <1>10 DEF vars, CommandInv
  <1> QED
    BY <1>1, <1>2, <1>4, <1>5, <1>6, <1>7, <1>8, <1>9, <1>10 DEF Next, Step

\* Repo.Validate never reports missing metadata for a KEP that kepctl wrote,
\* however many commands run, overlap, fail and are killed (create.go:97-121
\* writes kep.yaml before README.md, and nothing removes a kep.yaml).
THEOREM ReadmeNeverAlone == Spec => []ReadmeHasMetadata
  <1> DEFINE Inv == CommandInv /\ ReadmeHasMetadata
  <1>1. Init => Inv
    BY DEF Init, CommandInv, ReadmeHasMetadata, Active, Idle
  <1>2. TypeOK /\ Inv /\ [Next]_vars => Inv'
    <2> SUFFICES ASSUME TypeOK, Inv, [Next]_vars PROVE ReadmeHasMetadata'
      BY CommandStep
    <2> USE DEF ReadmeHasMetadata
    <2>1. ASSUME NEW p \in Procs, Create(p) \/ Promote(p) \/ MakeDir(p) \/ Crash(p)
          PROVE  ReadmeHasMetadata'
      BY <2>1 DEF Create, CreateWith, Promote, PromoteWith, MakeDir, Crash
    <2>2. ASSUME NEW p \in Procs, TruncateYaml(p) PROVE ReadmeHasMetadata'
      <3>1. Truncated # NotExist
        BY StoreContents
      <3> QED
        BY <2>2, <3>1 DEF TruncateYaml, TypeOK
    <2>3. ASSUME NEW p \in Procs, WriteYaml(p) PROVE ReadmeHasMetadata'
      <3>1. Marshal(buf[p]) # NotExist /\ Malformed # NotExist
        BY <2>3, MarshalType, NotMarkers, NoProposals DEF WriteYaml, TypeOK, Active, Idle
      <3> QED
        BY <2>3, <3>1 DEF WriteYaml, TypeOK
    <2>4. ASSUME NEW p \in Procs, TruncateReadme(p) \/ WriteReadme(p) PROVE ReadmeHasMetadata'
      <3>1. /\ pc[p] \in {"readme", "template"} /\ yaml' = yaml
            /\ \A d \in Dirs : d # ReadmePath(p) => readme'[d] = readme[d]
        BY <2>4 DEF TruncateReadme, WriteReadme, TypeOK
      <3>2. KepPath(p) = ReadmePath(p)
        BY <3>1 DEF CommandInv, KepPath, ReadmePath, Active, Idle
      <3>3. ReadmePath(p) \in Dirs => yaml[ReadmePath(p)] # NotExist
        BY <3>1, <3>2 DEF CommandInv
      <3> QED
        BY <3>1, <3>3
    <2>5. CASE UNCHANGED vars
      BY <2>5 DEF vars
    <2> QED
      BY <2>1, <2>2, <2>3, <2>4, <2>5 DEF Next, Step
  <1>3. Inv => ReadmeHasMetadata
    OBVIOUS
  <1> QED
    BY <1>1, <1>2, <1>3, TypeCorrect, PTL DEF Spec

\* A truncated or mixed up kep.yaml is always the work of a command that was
\* killed, failed or overlapped another (os.WriteFile in write.go:58).
THEOREM TornOnlyByDamage == Spec => []OnlyDamageLeavesTornFiles
  <1>1. Init => SoloInv
    BY StoreContents, NoProposals DEF Init, SoloInv, Active, Idle, Contents
  <1>2. TypeOK /\ SoloInv /\ [Next]_vars => SoloInv'
    <2> SUFFICES ASSUME TypeOK, SoloInv, [Next]_vars, ~damage' PROVE SoloInv'
      BY DEF SoloInv
    <2> USE DEF Active, Idle, KepPath
    <2>1. ASSUME NEW p \in Procs, Create(p) \/ Promote(p) PROVE SoloInv'
      <3>1. ~damage /\ \A q \in Procs \ {p} : ~Active(q)
        BY <2>1 DEF Create, CreateWith, Promote, PromoteWith, Begin
      <3>2. /\ yaml' = yaml /\ ~Active(p)
            /\ \A q \in Procs \ {p} : pc'[q] = pc[q] /\ op'[q] = op[q] /\ buf'[q] = buf[q]
            /\ pc'[p] # "write"
        <4>1. yaml' = yaml /\ ~Active(p)
          BY <2>1 DEF Create, CreateWith, Promote, PromoteWith, Begin
        <4>2. PICK s \in {"mkdir", "failed"} : pc' = [pc EXCEPT ![p] = s]
          <5>1. CASE Create(p)
            BY <5>1 DEF Create, CreateWith, Goto
          <5>2. CASE Promote(p)
            BY <5>2 DEF Promote, PromoteWith, Promoted, Goto
          <5> QED
            BY <2>1, <5>1, <5>2
        <4>3. /\ op' = op \/ \E o : op' = [op EXCEPT ![p] = o]
              /\ buf' = buf \/ \E b : buf' = [buf EXCEPT ![p] = b]
          <5>1. CASE Create(p)
            <6>1. PICK o \in Creates :
                    /\ op' = [op EXCEPT ![p] = [kind |-> "create", sig |-> o.sig, name |-> o.name]]
                    /\ buf' = [buf EXCEPT ![p] = populateProposal(o)]
              BY <5>1 DEF Create, CreateWith
            <6> QED
              BY <6>1
          <5>2. CASE Promote(p)
            BY <5>2 DEF Promote, PromoteWith
          <5> QED
            BY <2>1, <5>1, <5>2
        <4>4. \A q \in Procs \ {p} : pc'[q] = pc[q] /\ op'[q] = op[q] /\ buf'[q] = buf[q]
          BY <4>2, <4>3 DEF TypeOK
        <4>5. pc'[p] # "write"
          BY <4>2 DEF TypeOK
        <4> QED
          BY <4>1, <4>4, <4>5
      <3> QED
        BY <3>1, <3>2 DEF SoloInv
    <2>2. ASSUME NEW p \in Procs, FailCall(p) PROVE FALSE
      BY <2>2 DEF FailCall
    <2>3. ASSUME NEW p \in Procs, MakeDir(p) PROVE SoloInv'
      <3>1. /\ UNCHANGED <<yaml, op, buf, damage>> /\ pc[p] = "mkdir"
            /\ pc' = [pc EXCEPT ![p] = "failed"] \/ pc' = [pc EXCEPT ![p] = "truncate"]
        BY <2>2, <2>3 DEF MakeDir, Goto
      <3>2. \A q \in Procs : (Active(q)' => Active(q)) /\ (pc'[q] = "write" <=> pc[q] = "write")
        BY <3>1 DEF TypeOK
      <3> QED
        BY <3>1, <3>2 DEF SoloInv
    <2>4. ASSUME NEW p \in Procs, TruncateYaml(p) PROVE SoloInv'
      <3>1. /\ UNCHANGED <<op, buf, damage>> /\ pc[p] = "truncate"
            /\ pc' = [pc EXCEPT ![p] = "write"]
            /\ yaml' = [yaml EXCEPT ![KepPath(p)] = Truncated]
        BY <2>2, <2>4 DEF TruncateYaml, Goto
      <3>2. \A q \in Procs : q # p => ~Active(q) /\ pc'[q] = pc[q]
        BY <3>1 DEF SoloInv, TypeOK
      <3>3. \A q \in Procs : KepPath(q)' = KepPath(q)
        BY <3>1
      <3>4. \A d \in Dirs : yaml'[d] = IF d = KepPath(p) THEN Truncated ELSE yaml[d]
        BY <3>1 DEF TypeOK
      <3>5. pc'[p] = "write"
        BY <3>1 DEF TypeOK
      <3>6. \A d \in Dirs : yaml[d] \notin {Truncated, Malformed}
        BY <3>1, <3>2 DEF SoloInv
      <3> QED
        BY <3>2, <3>3, <3>4, <3>5, <3>6 DEF SoloInv
    <2>5. ASSUME NEW p \in Procs, WriteYaml(p) PROVE SoloInv'
      <3>1. /\ UNCHANGED <<op, buf, damage>> /\ pc[p] = "write"
            /\ pc' = [pc EXCEPT ![p] = IF op[p].kind = "create" THEN "readme" ELSE "done"]
            /\ \E c \in IF yaml[KepPath(p)] \in {Truncated, Marshal(buf[p])}
                        THEN {Marshal(buf[p])} ELSE {Marshal(buf[p]), Malformed} :
                 yaml' = [yaml EXCEPT ![KepPath(p)] = c]
        BY <2>2, <2>5 DEF WriteYaml, Goto
      <3>2. Marshal(buf[p]) \notin {Truncated, Malformed}
        BY <3>1, MarshalType, NotMarkers DEF TypeOK
      <3>3. KepPath(p) \in Dirs => yaml[KepPath(p)] = Truncated
        BY <3>1 DEF SoloInv
      <3>4. KepPath(p) \in Dirs => yaml'[KepPath(p)] = Marshal(buf[p])
        BY <3>1, <3>3 DEF TypeOK
      <3>5. \A d \in Dirs : d # KepPath(p) => yaml'[d] = yaml[d]
        BY <3>1 DEF TypeOK
      <3>6. \A q \in Procs : q # p => ~Active(q) /\ pc'[q] = pc[q]
        BY <3>1 DEF SoloInv, TypeOK
      <3>7. \A d \in Dirs : yaml'[d] \notin {Truncated, Malformed}
        BY <3>1, <3>2, <3>4, <3>5, <3>6 DEF SoloInv
      <3>8. pc'[p] # "write"
        BY <3>1 DEF TypeOK
      <3> QED
        BY <3>6, <3>7, <3>8 DEF SoloInv
    <2>6. ASSUME NEW p \in Procs, TruncateReadme(p) \/ WriteReadme(p) PROVE SoloInv'
      <3>1. /\ UNCHANGED <<yaml, op, buf, damage>> /\ pc[p] \in {"readme", "template"}
            /\ pc' = [pc EXCEPT ![p] = "template"] \/ pc' = [pc EXCEPT ![p] = "done"]
        BY <2>2, <2>6 DEF TruncateReadme, WriteReadme, Goto
      <3>2. \A q \in Procs : (Active(q)' => Active(q)) /\ (pc'[q] = "write" <=> pc[q] = "write")
        BY <3>1 DEF TypeOK
      <3> QED
        BY <3>1, <3>2 DEF SoloInv
    <2>7. ASSUME NEW p \in Procs, Crash(p) PROVE SoloInv'
      BY <2>7 DEF Crash
    <2>8. CASE UNCHANGED vars
      BY <2>8 DEF vars, SoloInv
    <2> QED
      BY <2>1, <2>3, <2>4, <2>5, <2>6, <2>7, <2>8 DEF Next, Step
  <1>3. SoloInv => OnlyDamageLeavesTornFiles
    BY DEF SoloInv, OnlyDamageLeavesTornFiles, Active, Idle
  <1> QED
    BY <1>1, <1>2, <1>3, TypeCorrect, PTL DEF Spec

----------------------------------------------------------------------------
(* The action properties: what a command that completes leaves behind. *)

\* Where a proposal called name is written.
HasHome(kep, name) == kep.owningSIG = "" \/ <<kep.owningSIG, name>> \in Dirs

\* Every KEP has a directory to be written to, also the one that a command is
\* about to write, and Create only writes what Validate let through.
HomeInv ==
    /\ \A d \in Dirs : yaml[d] \in Proposals => HasHome(yaml[d], d[2])
    /\ \A p \in Procs : Active(p) =>
         /\ op[p].name # "" => HasHome(buf[p], op[p].name)
         /\ pc[p] # "mkdir" => KepPath(p) \in Dirs
         /\ op[p].kind = "create" => Validate(buf[p]) = {} /\ buf[p].latestMilestone = NoMilestone

\* Commands that run at the same time know it, and a command that is alone finds
\* what it wrote.
AloneInv ==
    /\ \A p, q \in Procs : Active(p) /\ Active(q) /\ p # q => overlap[p]
    /\ \A p \in Procs : Active(p) /\ ~overlap[p] =>
         /\ pc[p] = "write" => yaml[KepPath(p)] = Truncated
         /\ pc[p] \in {"readme", "template"} => yaml[KepPath(p)] = Marshal(buf[p])

\* What a command that starts has to write: a valid proposal, or the KEP that
\* it loaded with another stage and release.
StartsCreate(p) ==
    \E o \in Creates :
        /\ op'[p] = [kind |-> "create", sig |-> o.sig, name |-> o.name]
        /\ buf'[p] = populateProposal(o)
        /\ Validate(populateProposal(o)) = {}

StartsPromote(p) ==
    \E o \in Promotes :
        /\ Loads(o)
        /\ op'[p] = [kind |-> "promote", sig |-> o.sig, name |-> o.name]
        /\ buf'[p] = Promoted(o)

\* A command that starts touches no file, and each command knows of the others.
LEMMA Starts ==
  ASSUME TypeOK, NEW p \in Procs, Create(p) \/ Promote(p)
  PROVE  /\ yaml' = yaml /\ ~Active(p)
         /\ \A q \in Procs \ {p} :
              /\ pc'[q] = pc[q] /\ op'[q] = op[q] /\ buf'[q] = buf[q]
              /\ Active(q) => overlap'[q] /\ overlap'[p]
         /\ pc'[p] \in {"mkdir", "failed"}
         /\ pc'[p] = "mkdir" => StartsCreate(p) \/ StartsPromote(p)
  <1>1. yaml' = yaml /\ ~Active(p) /\ Begin(p)
    BY DEF Create, CreateWith, Promote, PromoteWith, Begin
  <1>2. \A q \in Procs \ {p} : Active(q) => overlap'[q] /\ overlap'[p]
    BY <1>1 DEF Begin
  <1>3. CASE Create(p)
    <2>1. PICK o \in Creates :
            /\ op' = [op EXCEPT ![p] = [kind |-> "create", sig |-> o.sig, name |-> o.name]]
            /\ buf' = [buf EXCEPT ![p] = populateProposal(o)]
            /\ pc' = [pc EXCEPT ![p] = IF Validate(populateProposal(o)) # {} THEN "failed" ELSE "mkdir"]
      BY <1>3 DEF Create, CreateWith, Goto
    <2>2. \A q \in Procs \ {p} : pc'[q] = pc[q] /\ op'[q] = op[q] /\ buf'[q] = buf[q]
      BY <2>1 DEF TypeOK
    <2>3. /\ op'[p] = [kind |-> "create", sig |-> o.sig, name |-> o.name]
          /\ buf'[p] = populateProposal(o)
          /\ pc'[p] = IF Validate(populateProposal(o)) # {} THEN "failed" ELSE "mkdir"
      BY <2>1 DEF TypeOK
    <2>4. pc'[p] \in {"mkdir", "failed"} /\ (pc'[p] = "mkdir" => StartsCreate(p))
      BY <2>3 DEF StartsCreate
    <2> QED
      BY <1>1, <1>2, <2>2, <2>4
  <1>4. CASE Promote(p)
    <2>1. PICK o \in Promotes :
            IF Loads(o)
            THEN /\ op' = [op EXCEPT ![p] = [kind |-> "promote", sig |-> o.sig, name |-> o.name]]
                 /\ buf' = [buf EXCEPT ![p] = Promoted(o)]
                 /\ pc' = [pc EXCEPT ![p] = "mkdir"]
            ELSE pc' = [pc EXCEPT ![p] = "failed"] /\ UNCHANGED <<op, buf>>
      BY <1>4 DEF Promote, PromoteWith, Goto
    <2>2. \A q \in Procs \ {p} : pc'[q] = pc[q] /\ op'[q] = op[q] /\ buf'[q] = buf[q]
      BY <2>1 DEF TypeOK
    <2>3. CASE Loads(o)
      <3>1. /\ op'[p] = [kind |-> "promote", sig |-> o.sig, name |-> o.name]
            /\ buf'[p] = Promoted(o) /\ pc'[p] = "mkdir"
        BY <2>1, <2>3 DEF TypeOK
      <3> QED
        BY <1>1, <1>2, <2>2, <2>3, <3>1 DEF StartsPromote
    <2>4. CASE ~Loads(o)
      <3>1. pc'[p] = "failed"
        BY <2>1, <2>4 DEF TypeOK
      <3> QED
        BY <1>1, <1>2, <2>2, <3>1
    <2> QED
      BY <2>3, <2>4
  <1> QED
    BY <1>3, <1>4

\* What a step of a running command does, as far as the kep.yaml files go.
Stops(p) == ~Active(p)' /\ pc'[p] # "done" /\ yaml' = yaml
Makes(p) ==
    /\ pc[p] = "mkdir" /\ pc'[p] = "truncate" /\ yaml' = yaml
    /\ "" \notin {buf[p].owningSIG, op[p].name}
Truncates(p) ==
    /\ pc[p] = "truncate" /\ pc'[p] = "write"
    /\ yaml' = [yaml EXCEPT ![KepPath(p)] = Truncated]
Writes(p) ==
    /\ pc[p] = "write"
    /\ pc'[p] = IF op[p].kind = "create" THEN "readme" ELSE "done"
    /\ \E c \in {Marshal(buf[p]), Malformed} :
         /\ yaml' = [yaml EXCEPT ![KepPath(p)] = c]
         /\ yaml[KepPath(p)] = Truncated => c = Marshal(buf[p])
AddsTemplate(p) ==
    /\ yaml' = yaml
    /\ \/ pc[p] = "readme" /\ pc'[p] = "template"
       \/ /\ pc[p] = "template" /\ pc'[p] = "done"
          /\ readme' = [readme EXCEPT ![ReadmePath(p)] = "template"]

\* A running command stops or takes its next step, and changes no other command.
LEMMA Steps ==
  ASSUME TypeOK, NEW p \in Procs, Step(p) \/ Crash(p)
  PROVE  /\ UNCHANGED <<op, buf, overlap>> /\ Active(p)
         /\ \A q \in Procs \ {p} : pc'[q] = pc[q]
         /\ Stops(p) \/ Makes(p) \/ Truncates(p) \/ Writes(p) \/ AddsTemplate(p)
  <1> USE DEF Active, Idle
  <1>0. pc \in [Procs -> Labels]
    BY DEF TypeOK, Labels
  <1>1. ASSUME FailCall(p) PROVE pc'[p] = "failed" /\ \A q \in Procs \ {p} : pc'[q] = pc[q]
    BY <1>0, <1>1 DEF FailCall, Goto
  <1>2. CASE Crash(p)
    BY <1>0, <1>2 DEF Crash, Goto, Stops
  <1>3. CASE MakeDir(p)
    <2>1. CASE FailCall(p)
      BY <1>1, <1>3, <2>1 DEF MakeDir, Stops
    <2>2. CASE ~FailCall(p)
      BY <1>0, <1>3, <2>2 DEF MakeDir, Goto, Stops, Makes
    <2> QED
      BY <2>1, <2>2
  <1>4. CASE TruncateYaml(p)
    <2>1. CASE FailCall(p) /\ UNCHANGED yaml
      BY <1>1, <1>4, <2>1 DEF TruncateYaml, Stops
    <2>2. CASE ~(FailCall(p) /\ UNCHANGED yaml)
      BY <1>0, <1>4, <2>2 DEF TruncateYaml, Goto, Truncates
    <2> QED
      BY <2>1, <2>2
  <1>5. CASE WriteYaml(p)
    <2>1. CASE FailCall(p) /\ UNCHANGED yaml
      BY <1>1, <1>5, <2>1 DEF WriteYaml, Stops
    <2>2. CASE ~(FailCall(p) /\ UNCHANGED yaml)
      <3>1. PICK c \in {Marshal(buf[p]), Malformed} :
              /\ yaml' = [yaml EXCEPT ![KepPath(p)] = c]
              /\ yaml[KepPath(p)] = Truncated => c = Marshal(buf[p])
        BY <1>5, <2>2 DEF WriteYaml
      <3>2. /\ pc[p] = "write" /\ UNCHANGED <<op, buf, overlap>>
            /\ pc' = [pc EXCEPT ![p] = IF op[p].kind = "create" THEN "readme" ELSE "done"]
        BY <1>5, <2>2 DEF WriteYaml, Goto
      <3>3. Writes(p)
        BY <1>0, <3>1, <3>2 DEF Writes
      <3> QED
        BY <1>0, <3>2, <3>3
    <2> QED
      BY <2>1, <2>2
  <1>6. CASE TruncateReadme(p)
    <2>1. CASE FailCall(p) /\ UNCHANGED readme
      BY <1>1, <1>6, <2>1 DEF TruncateReadme, Stops
    <2>2. CASE ~(FailCall(p) /\ UNCHANGED readme)
      BY <1>0, <1>6, <2>2 DEF TruncateReadme, Goto, AddsTemplate
    <2> QED
      BY <2>1, <2>2
  <1>7. CASE WriteReadme(p)
    <2>1. CASE FailCall(p) /\ UNCHANGED readme
      BY <1>1, <1>7, <2>1 DEF WriteReadme, Stops
    <2>2. CASE ~(FailCall(p) /\ UNCHANGED readme)
      BY <1>0, <1>7, <2>2 DEF WriteReadme, Goto, AddsTemplate
    <2> QED
      BY <2>1, <2>2
  <1> QED
    BY <1>2, <1>3, <1>4, <1>5, <1>6, <1>7 DEF Step

\* Every KEP keeps a directory to be written to: HomeInv is inductive.
LEMMA HomeStep == TypeOK /\ HomeInv /\ [Next]_vars => HomeInv'
  <1> SUFFICES ASSUME TypeOK, HomeInv, [Next]_vars PROVE HomeInv'
    OBVIOUS
  <1>1. ASSUME NEW p \in Procs, Create(p) \/ Promote(p) PROVE HomeInv'
    <2>1. /\ yaml' = yaml
          /\ \A q \in Procs \ {p} : pc'[q] = pc[q] /\ op'[q] = op[q] /\ buf'[q] = buf[q]
          /\ pc'[p] \in {"mkdir", "failed"}
          /\ pc'[p] = "mkdir" => StartsCreate(p) \/ StartsPromote(p)
      BY <1>1, Starts
    <2>2. ASSUME StartsCreate(p)
          PROVE  /\ op'[p].name # "" => HasHome(buf'[p], op'[p].name)
                 /\ Validate(buf'[p]) = {} /\ buf'[p].latestMilestone = NoMilestone
      <3>1. PICK o \in Creates :
              /\ op'[p] = [kind |-> "create", sig |-> o.sig, name |-> o.name]
              /\ buf'[p] = populateProposal(o)
              /\ Validate(populateProposal(o)) = {}
        BY <2>2 DEF StartsCreate
      <3>2. /\ populateProposal(o).owningSIG = o.sig
            /\ populateProposal(o).latestMilestone = NoMilestone
        BY DEF populateProposal
      <3>3. o.sig \in Groups
        BY <3>1, <3>2 DEF Validate, validateGroups
      <3>4. o.name # "" => <<o.sig, o.name>> \in Dirs
        BY <3>3, StoreOptions
      <3>5. op'[p].name = o.name /\ buf'[p].owningSIG = o.sig
        BY <3>1, <3>2
      <3>6. op'[p].name # "" => HasHome(buf'[p], op'[p].name)
        BY <3>4, <3>5, Zenon DEF HasHome
      <3> QED
        BY <3>1, <3>2, <3>6
    <2>3. ASSUME StartsPromote(p)
          PROVE  op'[p].kind # "create" /\ HasHome(buf'[p], op'[p].name)
      <3>1. PICK o \in Promotes :
              /\ Loads(o)
              /\ op'[p] = [kind |-> "promote", sig |-> o.sig, name |-> o.name]
              /\ buf'[p] = Promoted(o)
        BY <2>3 DEF StartsPromote
      <3>2. <<o.sig, o.name>> \in Dirs /\ yaml[<<o.sig, o.name>>] \in Proposals
        BY <3>1 DEF Loads, TypeOK, Contents
      <3>3. HasHome(yaml[<<o.sig, o.name>>], o.name)
        BY <3>2 DEF HomeInv
      <3>4. Promoted(o).owningSIG = yaml[<<o.sig, o.name>>].owningSIG
        BY <3>2 DEF Promoted, Proposals
      <3>5. op'[p].name = o.name /\ op'[p].kind = "promote"
        BY <3>1
      <3>6. buf'[p].owningSIG = yaml[<<o.sig, o.name>>].owningSIG
        BY <3>1, <3>4, Zenon
      <3>7. HasHome(buf'[p], op'[p].name)
        BY <3>3, <3>5, <3>6, Zenon DEF HasHome
      <3> QED
        BY <3>5, <3>7
    <2>4. \A d \in Dirs : yaml'[d] \in Proposals => HasHome(yaml'[d], d[2])
      BY <2>1 DEF HomeInv
    <2>5. ASSUME NEW q \in Procs, Active(q)'
          PROVE  /\ op'[q].name # "" => HasHome(buf'[q], op'[q].name)
                 /\ pc'[q] # "mkdir" => KepPath(q)' \in Dirs
                 /\ op'[q].kind = "create" => Validate(buf'[q]) = {} /\ buf'[q].latestMilestone = NoMilestone
      <3>1. CASE q = p
        BY <2>1, <2>2, <2>3, <2>5, <3>1 DEF Active, Idle
      <3>2. CASE q # p
        <4>1. Active(q) /\ pc'[q] = pc[q] /\ op'[q] = op[q] /\ buf'[q] = buf[q]
          BY <2>1, <2>5, <3>2 DEF Active
        <4> QED
          BY <4>1 DEF HomeInv, KepPath
      <3> QED
        BY <3>1, <3>2
    <2> QED
      BY <2>4, <2>5 DEF HomeInv, HasHome
  <1>2. ASSUME NEW p \in Procs, Step(p) \/ Crash(p) PROVE HomeInv'
    <2>1. /\ UNCHANGED <<op, buf>> /\ Active(p)
          /\ \A q \in Procs \ {p} : pc'[q] = pc[q]
          /\ Stops(p) \/ Makes(p) \/ Truncates(p) \/ Writes(p) \/ AddsTemplate(p)
      BY <1>2, Steps
    <2>2. \A d \in Dirs : yaml'[d] \in Proposals => HasHome(yaml'[d], d[2])
      <3>1. CASE yaml' = yaml
        BY <3>1 DEF HomeInv
      <3>2. CASE Truncates(p)
        BY <3>2, NotMarkers DEF Truncates, HomeInv, TypeOK
      <3>3. CASE Writes(p)
        <4>1. PICK c \in {Marshal(buf[p]), Malformed} : yaml' = [yaml EXCEPT ![KepPath(p)] = c]
          BY <3>3 DEF Writes
        <4>2. KepPath(p) \in Dirs
          BY <2>1, <3>3 DEF HomeInv, Writes
        <4>3. buf[p] \in Proposals
          BY <2>1 DEF TypeOK
        <4>4. Marshal(buf[p]).owningSIG = buf[p].owningSIG
          BY <4>3 DEF Marshal, Proposals
        <4>5. HasHome(Marshal(buf[p]), KepPath(p)[2])
          BY <4>2, <4>4 DEF HasHome, KepPath
        <4>6. c \in Proposals => c = Marshal(buf[p])
          BY NotMarkers
        <4>7. \A d \in Dirs : yaml'[d] = IF d = KepPath(p) THEN c ELSE yaml[d]
          BY <4>1 DEF TypeOK
        <4> QED
          BY <4>5, <4>6, <4>7 DEF HomeInv
      <3> QED
        BY <2>1, <3>1, <3>2, <3>3 DEF Stops, Makes, AddsTemplate
    <2>3. ASSUME NEW q \in Procs, Active(q)'
          PROVE  Active(q) /\ (pc'[q] # "mkdir" => KepPath(q) \in Dirs)
      <3>1. CASE q # p
        BY <2>1, <2>3, <3>1 DEF HomeInv, Active
      <3>2. CASE q = p
        <4>1. CASE Makes(p)
          <5>1. op[p].name # "" /\ buf[p].owningSIG # ""
            BY <4>1 DEF Makes
          <5>2. HasHome(buf[p], op[p].name)
            BY <2>1, <5>1 DEF HomeInv
          <5> QED
            BY <2>1, <3>2, <5>1, <5>2 DEF HasHome, KepPath
        <4>2. CASE ~Makes(p)
          <5>1. pc[p] # "mkdir"
            BY <2>1, <2>3, <3>2, <4>2 DEF Stops, Truncates, Writes, AddsTemplate
          <5> QED
            BY <2>1, <3>2, <5>1 DEF HomeInv
        <4> QED
          BY <4>1, <4>2
      <3> QED
        BY <3>1, <3>2
    <2>4. ASSUME NEW q \in Procs, Active(q)'
          PROVE  /\ op'[q].name # "" => HasHome(buf'[q], op'[q].name)
                 /\ pc'[q] # "mkdir" => KepPath(q)' \in Dirs
                 /\ op'[q].kind = "create" => Validate(buf'[q]) = {} /\ buf'[q].latestMilestone = NoMilestone
      <3>1. Active(q) /\ (pc'[q] # "mkdir" => KepPath(q) \in Dirs)
        BY <2>3, <2>4
      <3>2. op'[q] = op[q] /\ buf'[q] = buf[q] /\ KepPath(q)' = KepPath(q)
        BY <2>1 DEF KepPath
      <3>3. /\ op[q].name # "" => HasHome(buf[q], op[q].name)
            /\ op[q].kind = "create" => Validate(buf[q]) = {} /\ buf[q].latestMilestone = NoMilestone
        BY <3>1 DEF HomeInv
      <3> QED
        BY <3>1, <3>2, <3>3
    <2> QED
      BY <2>2, <2>4 DEF HomeInv, HasHome
  <1>3. CASE UNCHANGED vars
    BY <1>3 DEF vars, HomeInv, HasHome, Active, KepPath
  <1> QED
    BY <1>1, <1>2, <1>3 DEF Next

\* What a command that is alone finds: AloneInv is inductive.
LEMMA AloneStep == TypeOK /\ HomeInv /\ AloneInv /\ [Next]_vars => AloneInv'
  <1> SUFFICES ASSUME TypeOK, HomeInv, AloneInv, [Next]_vars PROVE AloneInv'
    OBVIOUS
  <1>1. ASSUME NEW p \in Procs, Create(p) \/ Promote(p) PROVE AloneInv'
    <2>1. /\ yaml' = yaml
          /\ \A q \in Procs \ {p} :
               /\ pc'[q] = pc[q] /\ op'[q] = op[q] /\ buf'[q] = buf[q]
               /\ Active(q) => overlap'[q] /\ overlap'[p]
          /\ pc'[p] \in {"mkdir", "failed"}
          /\ pc'[p] = "mkdir" => StartsCreate(p) \/ StartsPromote(p)
      BY <1>1, Starts
    <2>2. \A q \in Procs \ {p} : Active(q)' => overlap'[q] /\ overlap'[p]
      BY <2>1 DEF Active
    <2>3. Active(p)' => pc'[p] = "mkdir"
      BY <2>1 DEF Active, Idle
    <2> QED
      BY <2>1, <2>2, <2>3 DEF AloneInv
  <1>2. ASSUME NEW p \in Procs, Step(p) \/ Crash(p) PROVE AloneInv'
    <2>1. /\ UNCHANGED <<op, buf, overlap>> /\ Active(p)
          /\ \A q \in Procs \ {p} : pc'[q] = pc[q]
          /\ Stops(p) \/ Makes(p) \/ Truncates(p) \/ Writes(p) \/ AddsTemplate(p)
      BY <1>2, Steps
    <2>2. \A q \in Procs : Active(q)' => Active(q)
      BY <2>1 DEF Active
    <2>3. \A q \in Procs \ {p} : Active(q)' => overlap[q] /\ overlap[p]
      BY <2>1, <2>2 DEF AloneInv
    <2>4. ASSUME Active(p)', ~overlap[p]
          PROVE  /\ pc'[p] = "write" => yaml'[KepPath(p)] = Truncated
                 /\ pc'[p] \in {"readme", "template"} => yaml'[KepPath(p)] = Marshal(buf[p])
      <3>1. ~Stops(p)
        BY <2>4 DEF Stops
      <3>2. CASE Makes(p)
        BY <3>2 DEF Makes
      <3>3. CASE Truncates(p)
        <4>1. KepPath(p) \in Dirs
          BY <2>1, <3>3 DEF HomeInv, Truncates
        <4> QED
          BY <3>3, <4>1 DEF Truncates, TypeOK
      <3>4. CASE Writes(p)
        <4>1. KepPath(p) \in Dirs
          BY <2>1, <3>4 DEF HomeInv, Writes
        <4>2. yaml[KepPath(p)] = Truncated
          BY <2>1, <2>4, <3>4 DEF AloneInv, Writes
        <4>3. yaml' = [yaml EXCEPT ![KepPath(p)] = Marshal(buf[p])] /\ pc'[p] # "write"
          BY <3>4, <4>2 DEF Writes
        <4> QED
          BY <4>1, <4>3 DEF TypeOK
      <3>5. CASE AddsTemplate(p)
        BY <2>1, <2>4, <3>5 DEF AddsTemplate, AloneInv
      <3> QED
        BY <2>1, <3>1, <3>2, <3>3, <3>4, <3>5
    <2>5. KepPath(p)' = KepPath(p)
      BY <2>1 DEF KepPath
    <2> QED
      BY <2>1, <2>2, <2>3, <2>4, <2>5 DEF AloneInv
  <1>3. CASE UNCHANGED vars
    BY <1>3 DEF vars, AloneInv, Active, KepPath
  <1> QED
    BY <1>1, <1>2, <1>3 DEF Next

\* The invariant behind the action properties.
StoreInv == TypeOK /\ CommandInv /\ HomeInv /\ AloneInv

\* Every command keeps to StoreInv, whatever overlaps, fails or is killed.
LEMMA StoreSafe == Spec => []StoreInv
  <1>1. Init => CommandInv /\ HomeInv /\ AloneInv
    <2> SUFFICES ASSUME Init PROVE CommandInv /\ HomeInv /\ AloneInv
      OBVIOUS
    <2>1. \A p \in Procs : pc[p] = "idle"
      BY DEF Init
    <2>2. ASSUME NEW d \in Dirs, yaml[d] \in Proposals PROVE HasHome(yaml[d], d[2])
      <3>1. yaml \in InitialKEPs /\ yaml[d] # NotExist
        BY <2>2, NotMarkers DEF Init
      <3> QED
        BY <3>1, StoreOwners DEF HasHome
    <2> QED
      BY <2>1, <2>2 DEF CommandInv, HomeInv, AloneInv, Active, Idle
  <1> QED
    BY <1>1, CommandStep, HomeStep, AloneStep, TypeCorrect, PTL DEF Spec, StoreInv

\* Of a step that completes a command: it wrote the last of its files.
LEMMA CompletesBy ==
  ASSUME StoreInv, [Next]_vars, NEW p \in Procs, Completes(p)
  PROVE  /\ UNCHANGED <<op, buf>>
         /\ op[p].kind = "create" =>
              /\ pc[p] = "template" /\ yaml' = yaml
              /\ readme' = [readme EXCEPT ![ReadmePath(p)] = "template"]
         /\ op[p].kind # "create" => Writes(p)
  <1>1. ASSUME NEW q \in Procs, Create(q) \/ Promote(q) PROVE FALSE
    <2>1. ~Active(q) /\ pc'[q] # "done" /\ (p # q => pc'[p] = pc[p])
      BY <1>1, Starts DEF StoreInv
    <2> QED
      BY <2>1 DEF Completes, Active, Idle
  <1>2. PICK q \in Procs : Step(q) \/ Crash(q)
    BY <1>1 DEF Next, Completes, Active, Idle, vars
  <1>3. /\ UNCHANGED <<op, buf>>
        /\ \A r \in Procs \ {q} : pc'[r] = pc[r]
        /\ Stops(q) \/ Makes(q) \/ Truncates(q) \/ Writes(q) \/ AddsTemplate(q)
    BY <1>2, Steps DEF StoreInv
  <1>4. q = p
    BY <1>3 DEF Completes, Active, Idle
  <1>5. \/ Writes(p) /\ op[p].kind # "create"
        \/ AddsTemplate(p) /\ pc[p] = "template"
    <2>1. pc'[p] = "done"
      BY DEF Completes
    <2>2. ~Stops(p) /\ ~Makes(p) /\ ~Truncates(p)
      BY <2>1 DEF Stops, Makes, Truncates
    <2>3. Writes(p) => op[p].kind # "create"
      BY <2>1 DEF Writes
    <2>4. AddsTemplate(p) => pc[p] = "template"
      BY <2>1 DEF AddsTemplate
    <2> QED
      BY <1>3, <1>4, <2>2, <2>3, <2>4
  <1>6. AddsTemplate(p) /\ pc[p] = "template" =>
          /\ op[p].kind = "create" /\ yaml' = yaml
          /\ readme' = [readme EXCEPT ![ReadmePath(p)] = "template"]
    BY DEF AddsTemplate, StoreInv, CommandInv
  <1> QED
    BY <1>3, <1>5, <1>6

\* What yaml.Marshal writes of a proposal that parses, parses again, with the
\* same groups, stage and milestone (write.go:32 and proposal.go:184).
LEMMA RoundTrip ==
  ASSUME NEW kep \in Proposals, validateStruct(kep)
  PROVE  /\ ParseKEP(Marshal(kep)) = NoError
         /\ validateGroups(Marshal(kep)) = validateGroups(kep)
  <1>1. /\ Marshal(kep).title = kep.title /\ Marshal(kep).number = kep.number
        /\ Marshal(kep).owningSIG = kep.owningSIG /\ Marshal(kep).status = kep.status
        /\ Marshal(kep).participatingSIGs =
             IF kep.participatingSIGs = {} THEN Nil ELSE kep.participatingSIGs
    BY DEF Marshal, Proposals
  <1>2. Marshal(kep).authors = kep.authors /\ Marshal(kep).approvers = kep.approvers
    BY DEF Marshal, Proposals, validateStruct
  <1>3. Marshal(kep) # Malformed
    BY MarshalType, NotMarkers
  <1>4. validateStruct(Marshal(kep))
    BY <1>1, <1>2 DEF validateStruct
  <1>5. ParseKEP(Marshal(kep)) = NoError
    BY <1>3, <1>4 DEF ParseKEP
  <1>6. validateGroups(Marshal(kep)) = validateGroups(kep)
    <2>1. CASE kep.participatingSIGs = {}
      BY <1>1, <2>1 DEF validateGroups
    <2>2. CASE kep.participatingSIGs # {}
      BY <1>1, <2>2, Zenon DEF validateGroups
    <2> QED
      BY <2>1, <2>2
  <1> QED
    BY <1>5, <1>6

\* Marshal keeps the fields that the writers set.
LEMMA MarshalKeeps ==
  ASSUME NEW kep \in Proposals
  PROVE  /\ Marshal(kep).owningSIG = kep.owningSIG /\ Marshal(kep).status = kep.status
         /\ Marshal(kep).stage = kep.stage /\ Marshal(kep).latestMilestone = kep.latestMilestone
  BY DEF Marshal, Proposals

\* A Create that completes alone leaves a template and a kep.yaml that parses,
\* whatever an earlier attempt that was killed or failed left (create.go:75-121).
THEOREM CreatedKEPsPass == Spec => CreatedKEPPassesTheGate
  <1> DEFINE Good(p) ==
        LET d == <<op[p].sig, op[p].name>>
        IN  /\ readme'[d] = "template"
            /\ yaml'[d] # Malformed /\ ParseKEP(yaml'[d]) = NoError
            /\ yaml'[d].owningSIG = op[p].sig /\ op[p].sig \in Groups
            /\ yaml'[d].latestMilestone = NoMilestone
            /\ yaml'[d].status \notin {"implementable", "implemented"} =>
                 ValidatePRR(yaml'[d], NotExist) = NoError
  <1>1. ASSUME StoreInv, [Next]_vars, NEW p \in Procs,
               Completes(p), op[p].kind = "create", ~overlap[p]
        PROVE  Good(p)
    <2>1. /\ pc[p] = "template" /\ yaml' = yaml
          /\ readme' = [readme EXCEPT ![ReadmePath(p)] = "template"]
      BY <1>1, CompletesBy
    <2>2. Active(p) /\ buf[p] \in Proposals
      BY <1>1 DEF Completes, StoreInv, TypeOK
    <2>3. KepPath(p) \in Dirs /\ Validate(buf[p]) = {} /\ buf[p].latestMilestone = NoMilestone
      BY <1>1, <2>1, <2>2 DEF StoreInv, HomeInv
    <2>4. yaml[KepPath(p)] = Marshal(buf[p])
      BY <1>1, <2>1, <2>2 DEF StoreInv, AloneInv
    <2>5. KepPath(p) = <<op[p].sig, op[p].name>> /\ buf[p].owningSIG = op[p].sig
      BY <1>1, <2>2 DEF StoreInv, CommandInv, KepPath
    <2>6. PICK d \in Dirs : d = <<op[p].sig, op[p].name>>
      BY <2>3, <2>5
    <2>7. yaml'[d] = Marshal(buf[p])
      BY <2>1, <2>4, <2>5, <2>6
    <2>8. readme'[d] = "template"
      BY <1>1, <2>1, <2>6 DEF ReadmePath, StoreInv, TypeOK
    <2>9. validateStruct(buf[p]) /\ buf[p].owningSIG \in Groups
      BY <2>3 DEF Validate, validateGroups
    <2>10. yaml'[d] # Malformed /\ ParseKEP(yaml'[d]) = NoError
      BY <2>2, <2>7, <2>9, RoundTrip, MarshalType, NotMarkers
    <2>11. yaml'[d].owningSIG = op[p].sig /\ yaml'[d].latestMilestone = NoMilestone
      BY <2>2, <2>3, <2>5, <2>7, MarshalKeeps
    <2>12. yaml'[d].status \notin {"implementable", "implemented"} =>
             ValidatePRR(yaml'[d], NotExist) = NoError
      BY DEF ValidatePRR, isPRRRequired
    <2> QED
      BY <2>5, <2>6, <2>8, <2>9, <2>10, <2>11, <2>12
  <1>2. StoreInv /\ [Next]_vars =>
          [\A p \in Procs : Completes(p) /\ op[p].kind = "create" /\ ~overlap[p] => Good(p)]_vars
    BY <1>1
  <1> QED
    BY <1>2, StoreSafe, PTL DEF Spec, CreatedKEPPassesTheGate

\* What a Promote that completes alone wrote.
LEMMA PromoteWrote ==
  ASSUME StoreInv, [Next]_vars, NEW p \in Procs,
         Completes(p), op[p].kind = "promote", ~overlap[p]
  PROVE  /\ Active(p) /\ buf[p] \in Proposals /\ KepPath(p) \in Dirs
         /\ yaml' = [yaml EXCEPT ![KepPath(p)] = Marshal(buf[p])]
  <1>1. Writes(p)
    BY CompletesBy
  <1>2. Active(p) /\ buf[p] \in Proposals
    BY DEF Completes, StoreInv, TypeOK
  <1>3. KepPath(p) \in Dirs
    BY <1>1, <1>2 DEF StoreInv, HomeInv, Writes
  <1>4. yaml[KepPath(p)] = Truncated
    BY <1>1, <1>2 DEF StoreInv, AloneInv, Writes
  <1> QED
    BY <1>1, <1>2, <1>3, <1>4 DEF Writes

\* A Promote that completes alone keeps a KEP of its own group valid
\* (promote.go:50-73 and write.go:31-58).
THEOREM PromotedKEPsStayValid == Spec => PromoteKeepsKEPValid
  <1> DEFINE Alone == {q \in Procs : Completes(q) /\ op[q].kind = "promote" /\ ~overlap[q]}
             Good(p) ==
        LET kep == yaml'[<<op[p].sig, op[p].name>>]
        IN  buf[p].owningSIG = op[p].sig /\ ParseKEP(buf[p]) = NoError =>
               /\ ParseKEP(kep) = NoError
               /\ kep.stage = buf[p].stage /\ kep.latestMilestone = buf[p].latestMilestone
               /\ validateGroups(kep) = validateGroups(buf[p])
  <1>1. ASSUME StoreInv, [Next]_vars, NEW p \in Procs,
               Completes(p), op[p].kind = "promote", ~overlap[p],
               buf[p].owningSIG = op[p].sig, ParseKEP(buf[p]) = NoError
        PROVE  Good(p)
    <2>1. /\ buf[p] \in Proposals /\ KepPath(p) \in Dirs
          /\ yaml' = [yaml EXCEPT ![KepPath(p)] = Marshal(buf[p])]
      BY <1>1, PromoteWrote
    <2>2. yaml'[<<op[p].sig, op[p].name>>] = Marshal(buf[p])
      BY <1>1, <2>1 DEF KepPath, StoreInv, TypeOK
    <2>3. validateStruct(buf[p])
      BY <1>1 DEF ParseKEP, Error, NoError
    <2> QED
      BY <2>1, <2>2, <2>3, RoundTrip, MarshalKeeps
  <1>2. StoreInv /\ [Next]_vars => [\A p \in Alone : Good(p)]_vars
    BY <1>1
  <1> QED
    BY <1>2, StoreSafe, PTL DEF Spec, PromoteKeepsKEPValid
=============================================================================
