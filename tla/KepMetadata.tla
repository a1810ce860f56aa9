---------------------------- MODULE KepMetadata ----------------------------
(***************************************************************************)
(* The documents of the enhancements repository and the checks on them:    *)
(* api/proposal.go, api/approval.go and pkg/kepval/approval.go.            *)
(*                                                                         *)
(* A string field is a member of a small set, "" when it is not populated. *)
(* A slice is a set of names (order and repetition are never looked at by  *)
(* these checks), or Nil when the YAML key is absent: the `required` tag   *)
(* tells nil from empty.  A milestone such as "v1.21" is its minor version *)
(* and the "0.0" of old KEPs the lowest one, 1: like any version before    *)
(* v1.21 it needs no approval.  A kep.yaml holds no "---" line: it is just *)
(* the KEP metadata (proposal.go:184).                                     *)
(***************************************************************************)
EXTENDS Naturals

CONSTANTS
    Groups,         \* KEPHandler.Groups: the community groups that exist
    PRRApprovers,   \* PRRHandler.PRRApprovers: handles without "@"
    Nil,            \* a nil slice, or a nil *PRRMilestone
    Malformed,      \* a document that yaml.UnmarshalStrict rejects
    NotExist,       \* os.Open finds no such file
    Unreadable,     \* os.Open fails for another reason
    BadMilestone    \* a latest-milestone that semver.ParseTolerant rejects

NoMilestone == 0    \* latest-milestone: ""

\* The minor version of prrRequiredAtSemVer, "v1.21".
PRRRequiredAt == 21

ASSUME BadMilestoneIsNoVersion == BadMilestone \notin Nat

\* A Go error: its dynamic type and what it is about.
NoError == [type |-> "nil", about |-> "nil"]
Error(about) == [type |-> "errors.withStack", about |-> about]

ValidStages == {"alpha", "beta", "stable", "deprecated", "disabled", "removed"}

ValidStatuses == {"provisional", "implementable", "implemented", "deferred",
                  "rejected", "withdrawn", "replaced"}

IsOneOf(check, slice) == check \in slice

\* A GitHub handle as it is written: with a leading "@" or without.
Handles == [at : BOOLEAN, name : STRING]

----------------------------------------------------------------------------
(* Enhancement proposals (kep.yaml). *)

Proposals ==
    [title : STRING, number : STRING, owningSIG : STRING, status : STRING, stage : STRING,
     authors : {Nil} \cup SUBSET Handles, approvers : {Nil} \cup SUBSET Handles,
     participatingSIGs : {Nil} \cup SUBSET STRING,
     latestMilestone : Nat \cup {BadMilestone}]

ASSUME NoProposals ==
    /\ \A x \in {Nil, Malformed, NotExist, Unreadable} : x \notin Proposals
    /\ Malformed # NotExist /\ Malformed # Unreadable /\ NotExist # Unreadable

\* Every field tagged `required` is populated.
validateStruct(p) ==
    /\ "" \notin {p.title, p.number, p.owningSIG, p.status}
    /\ Nil \notin {p.authors, p.approvers}

\* KEPHandler.Parse: the error it returns for the content of a kep.yaml.
ParseKEP(doc) ==
    IF doc = Malformed THEN Error("unmarshalling YAML")
    ELSE IF ~validateStruct(doc) THEN Error("validating KEP")
    ELSE NoError

\* One error for each group that does not exist.
validateGroups(p) ==
    (IF p.participatingSIGs = Nil
     THEN {}
     ELSE {<<"invalid participating-sig", g>> : g \in p.participatingSIGs \ Groups})
      \cup {<<"invalid owning-sig", g>> : g \in {p.owningSIG} \ Groups}

\* Mutant of Validate: the struct-based validation is forgotten.
ValidateNoStruct(p) ==
    validateGroups(p)
      \cup {<<"invalid status", s>> : s \in {p.status} \ ValidStatuses}
      \cup {<<"invalid stage", s>> : s \in {p.stage} \ ValidStages}
      \cup {r \in {<<"implemented implies stable", p.stage>>} :
              p.status = "implemented" /\ p.stage # "stable"}

\* KEPHandler.Validate: one error for each reason the proposal is invalid.
Validate(p) ==
    {r \in {<<"struct-based validation", p.title>>} : ~validateStruct(p)}
      \cup validateGroups(p)
      \cup {<<"invalid status", s>> : s \in {p.status} \ ValidStatuses}
      \cup {<<"invalid stage", s>> : s \in {p.stage} \ ValidStages}
      \cup {r \in {<<"implemented implies stable", p.stage>>} :
              p.status = "implemented" /\ p.stage # "stable"}

----------------------------------------------------------------------------
(* Production readiness approvals (prod-readiness/<sig>/<number>.yaml). An   *)
(* approval maps every stage to its *PRRMilestone: Nil, or the approver's    *)
(* handle with a leading "@" or without.                                     *)

EmptyHandle == [at |-> FALSE, name |-> ""]

Approvals == [number : STRING, milestone : [ValidStages -> Handles \cup {Nil}]]

ASSUME NoApprovals == \A x \in {Malformed, NotExist, Unreadable} : x \notin Approvals

\* PRRApproval.Validate: `required` of the number and, through each pointer
\* that is not nil, of the approver.
ValidApproval(prr) ==
    /\ prr.number # ""
    /\ \A s \in ValidStages : prr.milestone[s] # EmptyHandle

\* PRRHandler.Parse: the error it returns for the content of an approval file.
ParsePRR(doc) ==
    IF doc = Malformed THEN Error("unmarshalling PRR YAML")
    ELSE IF ~ValidApproval(doc) THEN Error("validating PRR")
    ELSE NoError

\* The error of PRRApproval.ApproverForStage.
ApproverError(prr, stage) ==
    IF stage \notin ValidStages THEN Error("invalid stage")
    ELSE IF \A s \in ValidStages : prr.milestone[s] = Nil THEN Error("ErrPRRMilestonesAllEmpty")
    ELSE IF prr.milestone[stage] = Nil THEN Error("ErrPRRMilestoneIsNil")
    ELSE NoError

ApproverForStage(prr, stage) == prr.milestone[stage]

\* Mutant of isPRRRequired: LTE instead of LT, so that v1.21 itself is let off.
isPRRRequiredLTE(kep) ==
    LET always == kep.status \in {"implementable", "implemented"}
    IN  IF ~always THEN [required |-> FALSE, err |-> NoError]
        ELSE IF kep.latestMilestone = NoMilestone
             THEN [required |-> TRUE, err |-> Error("missing the latest milestone field")]
        ELSE IF kep.stage = ""
             THEN [required |-> TRUE, err |-> Error("missing the stage field")]
        ELSE IF kep.latestMilestone = BadMilestone
             THEN [required |-> TRUE, err |-> Error("creating a SemVer object")]
        ELSE [required |-> kep.latestMilestone > PRRRequiredAt, err |-> NoError]

\* isPRRRequired: whether the KEP needs an approval, and the error.
isPRRRequired(kep) ==
    LET always == kep.status \in {"implementable", "implemented"}
    IN  IF ~always THEN [required |-> FALSE, err |-> NoError]
        ELSE IF kep.latestMilestone = NoMilestone
             THEN [required |-> TRUE, err |-> Error("missing the latest milestone field")]
        ELSE IF kep.stage = ""
             THEN [required |-> TRUE, err |-> Error("missing the stage field")]
        ELSE IF kep.latestMilestone = BadMilestone
             THEN [required |-> TRUE, err |-> Error("creating a SemVer object")]
        ELSE [required |-> kep.latestMilestone >= PRRRequiredAt, err |-> NoError]

\* ValidatePRR: file is what os.Open finds at prrDir/owning-sig/number.yaml.
ValidatePRR(kep, file) ==
    LET need == isPRRRequired(kep)
    IN  IF need.err # NoError THEN need.err
        ELSE IF ~need.required THEN NoError
        ELSE IF file = NotExist THEN Error("PRR file does not exist")
        ELSE IF file = Unreadable THEN Error("could not open PRR file")
        ELSE IF ParsePRR(file) # NoError THEN ParsePRR(file)
        ELSE IF ApproverError(file, kep.stage) # NoError THEN ApproverError(file, kep.stage)
        ELSE IF ApproverForStage(file, kep.stage) = EmptyHandle
             THEN Error("PRR approver cannot be empty")
        \* strings.TrimPrefix: the handle is compared without its "@"
        ELSE IF ~IsOneOf(ApproverForStage(file, kep.stage).name, PRRApprovers)
             THEN Error("not a PRR approver")
        ELSE NoError

\* Whether ValidatePRR reaches PRRHandler.Parse.
ParsesPRR(kep, file) ==
    /\ isPRRRequired(kep) = [required |-> TRUE, err |-> NoError]
    /\ file \notin {NotExist, Unreadable}
=============================================================================
