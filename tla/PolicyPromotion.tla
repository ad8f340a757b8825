---------------------------- MODULE PolicyPromotion ----------------------------
(***************************************************************************)
(* Human-only promotion of one kind of policy: application/learning/       *)
(* promotion.py on PostgreSQL, with the lesson decisions (approval.py) its *)
(* lineage check reads; the replays it reads too are written by the weekly *)
(* reviews (WeeklyReview), which complete this module to a specification.  *)
(*                                                                         *)
(* A promotion is one transaction that holds the row lock of               *)
(* policy_control, so two of them never overlap; but lessons are decided   *)
(* and replayed, and refused callers are written down, on connections of   *)
(* their own between the steps of the transaction `tx`.                    *)
(*                                                                         *)
(* A caller whose expected_revision is not the present one changes nothing.*)
(***************************************************************************)
EXTENDS Integers, Sequences, FiniteSets

CONSTANTS
  Candidates,   \* policy_candidate ids
  Versions,     \* policy versions
  Bootstrap,    \* the version policy_control is created with
  Lessons,      \* candidate_lesson ids
  Drafts,       \* the contents a candidate may be frozen with
  MaxDenials,   \* bounds the refused calls
  None          \* SQL NULL, and no transaction

ASSUME PromotionAssumption ==
  /\ IsFiniteSet(Candidates)
  /\ Bootstrap \in Versions
  /\ MaxDenials \in Nat
  /\ None \notin {"APPROVE", "REJECT"}

VARIABLES
  policy,     \* policy[c]: the frozen contents of candidate c
  candidate,  \* table policy_candidate
  active,     \* policy_control.active_version
  revision,   \* policy_control.revision
  audit,      \* table policy_promotion_audit: the COMPLETED rows
  refused,    \* and the number of FORBIDDEN ones
  lesson,     \* tables lesson_approval and replay_run, by lesson
  tx          \* the promotion in progress

control == <<active, revision>>
vars == <<policy, candidate, active, revision, audit, refused, lesson, tx>>

-----------------------------------------------------------------------------
Statuses == {"ABSENT", "CANDIDATE", "APPROVED", "ACTIVE", "REJECTED", "ROLLED_BACK"}
Actions == {"APPROVE", "REJECT", "ACTIVATE", "ROLLBACK"}
Verdicts == {"APPROVE", "REJECT"}

PolicyRow == [version : Versions, base : Versions, lessons : SUBSET Lessons \ {{}}]

ASSUME DraftAssumption == Drafts \subseteq PolicyRow

CandidateRow == [status : Statuses, revision : Nat]

\* verdict: the latest decision; approved: there ever was an APPROVE;
\* replays: the replay_run rows of the lesson that replayed a decision.
LessonRow == [verdict : Verdicts \cup {None}, approved : BOOLEAN, replays : Nat]

AuditRow == [candidate : Candidates, action : Actions, observed : Nat]

Tx == [candidate : Candidates, action : Actions]

ASSUME TxAssumption == None \notin Tx

NewLesson == [verdict |-> None, approved |-> FALSE, replays |-> 0]

Init == /\ policy \in [Candidates -> Drafts]
        /\ candidate = [c \in Candidates |-> [status |-> "ABSENT", revision |-> 0]]
        /\ active = Bootstrap
        /\ revision = 0
        /\ audit = <<>>
        /\ refused = 0
        /\ lesson = [l \in Lessons |-> NewLesson]
        /\ tx = None

-----------------------------------------------------------------------------
(* Lessons *)

\* record_lesson_decision: an authenticated human appends a decision.  The
\* latest is the one whose transaction began last, not the one appended last.
DecideLesson(l, verdict) ==
  /\ \E latest \in {verdict, lesson[l].verdict} \ {None} :
       lesson' = [lesson EXCEPT ![l].verdict = latest,
                                ![l].approved = @ \/ verdict = "APPROVE"]
  /\ UNCHANGED <<policy, candidate, control, audit, refused, tx>>

\* _validate_learning_lineage of one lesson.  The query for its replays accepts
\* one row at most: two raise MultipleResultsFound.
Validated(l) == lesson[l].verdict = "APPROVE" /\ lesson[l].replays = 1

-----------------------------------------------------------------------------
(* Promotion: PolicyPromotionService and PostgresPolicyRepository *)

\* The call of an authenticated human up to the lineage check: activate and
\* rollback take the candidate from its row, approve and reject may bring it.
Begin(c, action) ==
  /\ tx = None
  /\ action \in {"ACTIVATE", "ROLLBACK"} => candidate[c].status # "ABSENT"
  /\ action \in {"APPROVE", "ACTIVATE"} => \A l \in policy[c].lessons : Validated(l)
  /\ tx' = [candidate |-> c, action |-> action]
  /\ UNCHANGED <<policy, candidate, control, audit, refused, lesson>>

\* uq_policy_candidate_kind_version lets the row of c in.
VersionFree(c) ==
  \A d \in Candidates \ {c} : candidate[d].status # "ABSENT" => policy[d].version # policy[c].version

Status(c) == IF candidate[c].status = "ABSENT" THEN "CANDIDATE" ELSE candidate[c].status

\* Seeded fault: activation does not look at the base again.
AllowedOnAnyBase(c, action) ==
  CASE action = "APPROVE"  -> Status(c) = "CANDIDATE" /\ active = policy[c].base
    [] action = "REJECT"   -> Status(c) = "CANDIDATE"
    [] action = "ACTIVATE" -> Status(c) = "APPROVED"
    [] action = "ROLLBACK" -> Status(c) = "ACTIVE" /\ active = policy[c].version

\* Any other call raises VersionConflict or ValueError.
Allowed(c, action) ==
  CASE action = "APPROVE"  -> Status(c) = "CANDIDATE" /\ active = policy[c].base
    [] action = "REJECT"   -> Status(c) = "CANDIDATE"
    [] action = "ACTIVATE" -> Status(c) = "APPROVED" /\ active = policy[c].base
    [] action = "ROLLBACK" -> Status(c) = "ACTIVE" /\ active = policy[c].version

NextStatus(action) ==
  CASE action = "APPROVE"  -> "APPROVED"
    [] action = "REJECT"   -> "REJECTED"
    [] action = "ACTIVATE" -> "ACTIVE"
    [] action = "ROLLBACK" -> "ROLLED_BACK"

ActiveAfter(c, action) ==
  CASE action = "ACTIVATE" -> policy[c].version
    [] action = "ROLLBACK" -> policy[c].base
    [] OTHER               -> active

Written(c, action, observed) ==
  Append(audit, [candidate |-> c, action |-> action, observed |-> observed])

\* Seeded fault: the audit names the revision the caller expected.
CommitStaleAudit(c, action) ==
  /\ tx = [candidate |-> c, action |-> action]
  /\ Allowed(c, action) /\ VersionFree(c)
  /\ candidate' = [candidate EXCEPT ![c] = [status |-> NextStatus(action), revision |-> revision + 1]]
  /\ active' = ActiveAfter(c, action)
  /\ revision' = revision + 1
  /\ audit' = Written(c, action, revision)
  /\ tx' = None
  /\ UNCHANGED <<policy, refused, lesson>>

\* The rest of transact, and the commit.
Commit(c, action) ==
  /\ tx = [candidate |-> c, action |-> action]
  /\ Allowed(c, action) /\ VersionFree(c)
  /\ candidate' = [candidate EXCEPT ![c] = [status |-> NextStatus(action), revision |-> revision + 1]]
  /\ active' = ActiveAfter(c, action)
  /\ revision' = revision + 1
  /\ audit' = Written(c, action, revision + 1)
  /\ tx' = None
  /\ UNCHANGED <<policy, refused, lesson>>

\* transact raises, the connection is lost, or the caller rolls back.
Abort == /\ tx # None
         /\ tx' = None
         /\ UNCHANGED <<policy, candidate, control, audit, refused, lesson>>

\* A caller that is no authenticated human: the refusal is committed on a
\* connection of its own, with the candidate if it has no row yet.
Deny(c, action) ==
  /\ refused < MaxDenials
  /\ action \in {"ACTIVATE", "ROLLBACK"} => candidate[c].status # "ABSENT"
  /\ VersionFree(c)
  /\ candidate' = IF candidate[c].status = "ABSENT"
                  THEN [candidate EXCEPT ![c] = [status |-> "CANDIDATE", revision |-> revision]]
                  ELSE candidate
  /\ refused' = refused + 1
  /\ UNCHANGED <<policy, control, audit, lesson, tx>>

Promotes ==
  \/ \E c \in Candidates, action \in Actions :
       Begin(c, action) \/ Commit(c, action) \/ Deny(c, action)
  \/ Abort

-----------------------------------------------------------------------------
(* Properties *)

\* Every column keeps its type.
TypeOK == /\ policy \in [Candidates -> PolicyRow]
          /\ candidate \in [Candidates -> CandidateRow]
          /\ active \in Versions
          /\ revision \in Nat
          /\ audit \in Seq(AuditRow)
          /\ refused \in Nat
          /\ lesson \in [Lessons -> LessonRow]
          /\ tx \in Tx \cup {None}

InForce == {c \in Candidates : candidate[c].status = "ACTIVE"}

Below(c) == {d \in InForce : candidate[d].revision < candidate[c].revision}

\* v is the version of the newest candidate of S, the bootstrap version if none.
TopOf(S, v) == \/ S = {} /\ v = Bootstrap
               \/ \E c \in S : /\ v = policy[c].version
                               /\ \A d \in S : candidate[d].revision <= candidate[c].revision

\* The candidates in force form a chain: each builds on the version that was
\* active below it, and the pointer names the last one, whatever was activated
\* and rolled back in between.
ActiveVersionsChain ==
  /\ TopOf(InForce, active)
  /\ \A c \in InForce : TopOf(Below(c), policy[c].base)

LastOf(S) == CHOOSE i \in S : \A j \in S : j <= i

\* Nothing is lost: the completed entries of the audit number the revisions and
\* tell each candidate's status and the active version.
AuditTellsAll ==
  LET entries == DOMAIN audit
      of(c) == {i \in entries : audit[i].candidate = c}
      moves == {i \in entries : audit[i].action \in {"ACTIVATE", "ROLLBACK"}}
  IN /\ Len(audit) = revision
     /\ \A i \in entries : audit[i].observed = i
     /\ \A c \in Candidates :
          IF of(c) = {}
          THEN candidate[c].status \in {"ABSENT", "CANDIDATE"}
          ELSE /\ candidate[c].status = NextStatus(audit[LastOf(of(c))].action)
               /\ candidate[c].revision = LastOf(of(c))
     /\ active = IF moves = {}
                 THEN Bootstrap
                 ELSE LET last == audit[LastOf(moves)]
                      IN IF last.action = "ACTIVATE" THEN policy[last.candidate].version
                                                     ELSE policy[last.candidate].base

\* A candidate that went through rests on lessons a human once approved and a
\* review has replayed, whatever was decided on them meanwhile.
PromotedOnApprovedLessons ==
  \A c \in Candidates : candidate[c].status \in {"APPROVED", "ACTIVE", "ROLLED_BACK"} =>
    \A l \in policy[c].lessons : lesson[l].approved /\ lesson[l].replays > 0

\* Whatever was decided in whatever order, the candidates in force form a chain, the
\* audit retells every revision, and what went through rests on approved lessons.
PromotionSound == TypeOK /\ ActiveVersionsChain /\ AuditTellsAll /\ PromotedOnApprovedLessons

\* The stack of versions in force, by the revision of their activation.
Height(c) == Cardinality(Below(c))

StackOfVersions ==
  <<Bootstrap>> \o [i \in 1..Cardinality(InForce) |->
                      policy[CHOOSE c \in InForce : Height(c) = i - 1].version]

\* Promotion implements the stack of versions.
Stack == INSTANCE PolicyStack WITH stack <- StackOfVersions
StackSpec == Stack!Spec
=============================================================================
