------------------------ MODULE PolicyPromotionProofs ------------------------
(***************************************************************************)
(* Proofs about promotion between weekly reviews (WeeklyReview): the       *)
(* candidates in force form a chain, the audit tells the revisions, what   *)
(* went through rests on approved lessons, and the versions in force are   *)
(* the stack that PolicyStack specifies.  Reviews agree on what they       *)
(* judged, and only lessons brought from outside back a policy.            *)
(*                                                                         *)
(* And about the research runs that are made under the policies in force   *)
(* (ResearchRun): what a graph holds at each node carries over to what the *)
(* run stores, so that a decision can be trusted as it is stored, and no   *)
(* corrections leave a reader without one.                                 *)
(***************************************************************************)
EXTENDS WeeklyReview, ResearchRun, FiniteSetTheorems, WellFoundedInduction, TLAPS

Of(c) == {i \in DOMAIN audit : audit[i].candidate = c}
Moves == {i \in DOMAIN audit : audit[i].action \in {"ACTIVATE", "ROLLBACK"}}

IsLast(i, S) == i \in S /\ \A j \in S : j <= i

\* The audit tells the status and the revision of candidate c.
Told(c) ==
  IF Of(c) = {}
  THEN candidate[c].status \in {"ABSENT", "CANDIDATE"}
  ELSE \E i \in Nat : /\ IsLast(i, Of(c))
                      /\ candidate[c].status = NextStatus(audit[i].action)
                      /\ candidate[c].revision = i

ActiveAfterEntry(entry) ==
  IF entry.action = "ACTIVATE" THEN policy[entry.candidate].version ELSE policy[entry.candidate].base

\* And the active version.
ActiveTold ==
  IF Moves = {} THEN active = Bootstrap
  ELSE \E i \in Nat : IsLast(i, Moves) /\ active = ActiveAfterEntry(audit[i])

AuditInv ==
  /\ Len(audit) = revision
  /\ \A i \in DOMAIN audit : audit[i].observed = i
  /\ \A c \in Candidates : Told(c)
  /\ ActiveTold

\* The rows of candidates do not get in each other's way: their versions differ,
\* and those in force were activated at different revisions.
CandidatesDiffer ==
  \A c, d \in Candidates : c # d =>
    /\ candidate[c].status # "ABSENT" /\ candidate[d].status # "ABSENT" =>
         policy[c].version # policy[d].version
    /\ c \in InForce /\ d \in InForce => candidate[c].revision # candidate[d].revision

RevisionsPast == \A c \in Candidates : candidate[c].revision <= revision

Backed(c) == \A l \in policy[c].lessons : lesson[l].approved /\ lesson[l].replays > 0

\* A promotion under way was checked, and lessons never lose what it found.
LessonsBack ==
  /\ \A l \in Lessons : lesson[l].verdict = "APPROVE" => lesson[l].approved
  /\ tx # None /\ tx.action \in {"APPROVE", "ACTIVATE"} => Backed(tx.candidate)
  /\ PromotedOnApprovedLessons

IInv == /\ TypeOK
        /\ CandidatesDiffer
        /\ RevisionsPast
        /\ ActiveVersionsChain
        /\ AuditInv
        /\ LessonsBack

-----------------------------------------------------------------------------
\* The last of some entries is the one no entry comes after.
LEMMA LastIsLast ==
  ASSUME NEW S \in SUBSET Nat, NEW i \in Nat, IsLast(i, S)
  PROVE  LastOf(S) = i
<1>1. LastOf(S) \in S /\ \A j \in S : j <= LastOf(S)
  BY DEF LastOf, IsLast
<1>2. LastOf(S) \in Nat BY <1>1
<1>3. i <= LastOf(S) /\ LastOf(S) <= i BY <1>1 DEF IsLast
<1> QED BY <1>2, <1>3

\* The invariant is what is to be shown, with its witnesses named.
LEMMA IInvImplies == IInv => PromotionSound
<1> SUFFICES ASSUME IInv PROVE PromotionSound
  OBVIOUS
<1>1. TypeOK /\ ActiveVersionsChain /\ PromotedOnApprovedLessons
  BY DEF IInv, LessonsBack
<1>2. AuditTellsAll
  <2>a. AuditInv BY DEF IInv
  <2>b. DOMAIN audit \subseteq Nat BY <1>1 DEF TypeOK
  <2>1. ASSUME NEW c \in Candidates
        PROVE  IF Of(c) = {}
               THEN candidate[c].status \in {"ABSENT", "CANDIDATE"}
               ELSE /\ candidate[c].status = NextStatus(audit[LastOf(Of(c))].action)
                    /\ candidate[c].revision = LastOf(Of(c))
    <3>1. CASE Of(c) = {} BY <2>a, <3>1 DEF AuditInv, Told
    <3>2. CASE Of(c) # {}
      <4>1. PICK i \in Nat : /\ IsLast(i, Of(c))
                             /\ candidate[c].status = NextStatus(audit[i].action)
                             /\ candidate[c].revision = i
        BY <2>a, <3>2 DEF AuditInv, Told
      <4>2. Of(c) \in SUBSET Nat BY <2>b DEF Of
      <4>3. LastOf(Of(c)) = i BY <4>1, <4>2, LastIsLast
      <4> QED BY <3>2, <4>1, <4>3
    <3> QED BY <3>1, <3>2
  <2>2. active = IF Moves = {} THEN Bootstrap ELSE ActiveAfterEntry(audit[LastOf(Moves)])
    <3>1. CASE Moves = {} BY <2>a, <3>1 DEF AuditInv, ActiveTold
    <3>2. CASE Moves # {}
      <4>1. PICK i \in Nat : IsLast(i, Moves) /\ active = ActiveAfterEntry(audit[i])
        BY <2>a, <3>2 DEF AuditInv, ActiveTold
      <4>2. Moves \in SUBSET Nat BY <2>b DEF Moves
      <4>3. LastOf(Moves) = i BY <4>1, <4>2, LastIsLast
      <4> QED BY <3>2, <4>1, <4>3
    <3> QED BY <3>1, <3>2
  <2> QED BY <2>a, <2>1, <2>2 DEF AuditTellsAll, AuditInv, Of, Moves, ActiveAfterEntry
<1> QED BY <1>1, <1>2 DEF PromotionSound

\* At the start the bootstrap version is active and nothing is decided.
LEMMA InitIInv == ReviewInit => IInv
<1> SUFFICES ASSUME ReviewInit PROVE IInv
  OBVIOUS
<1> USE DEF ReviewInit, Init
<1>1. TypeOK
  <2>1. NewLesson \in LessonRow BY DEF NewLesson, LessonRow
  <2>2. [status |-> "ABSENT", revision |-> 0] \in CandidateRow BY DEF CandidateRow, Statuses
  <2> QED BY <2>1, <2>2, DraftAssumption, PromotionAssumption DEF TypeOK
<1>2. InForce = {} BY DEF InForce
<1>3. CandidatesDiffer BY <1>2 DEF CandidatesDiffer
<1>4. RevisionsPast BY DEF RevisionsPast
<1>5. ActiveVersionsChain BY <1>2 DEF ActiveVersionsChain, TopOf
<1>6. AuditInv
  <2>1. (\A c \in Candidates : Of(c) = {}) /\ Moves = {} BY DEF Of, Moves
  <2> QED BY <2>1 DEF AuditInv, Told, ActiveTold
<1>7. LessonsBack
  BY PromotionAssumption DEF LessonsBack, PromotedOnApprovedLessons, NewLesson
<1> QED BY <1>1, <1>3, <1>4, <1>5, <1>6, <1>7 DEF IInv

-----------------------------------------------------------------------------
(* What happens to the lessons. *)

LessonsGrow ==
  /\ UNCHANGED <<policy, candidate, active, revision, audit, refused, tx>>
  /\ lesson' \in [Lessons -> LessonRow]
  /\ \A l \in Lessons : /\ lesson[l].approved => lesson'[l].approved
                        /\ lesson'[l].replays >= lesson[l].replays
                        /\ lesson'[l].verdict = "APPROVE" => lesson'[l].approved

\* A replay is one row more.
LEMMA CountedGrows ==
  ASSUME IInv, NEW new, lesson' = Counted(new),
         UNCHANGED <<policy, candidate, active, revision, audit, refused, tx>>
  PROVE  LessonsGrow
<1>a. lesson \in [Lessons -> LessonRow] BY DEF IInv, TypeOK
<1>b. \A l \in Lessons : lesson[l].verdict = "APPROVE" => lesson[l].approved
  BY DEF IInv, LessonsBack
<1>1. ASSUME NEW l \in Lessons
      PROVE  /\ lesson'[l] \in LessonRow
             /\ lesson[l].approved => lesson'[l].approved
             /\ lesson'[l].replays >= lesson[l].replays
             /\ lesson'[l].verdict = lesson[l].verdict
  <2>1. lesson'[l] = lesson[l] \/ lesson'[l] = [lesson[l] EXCEPT !.replays = @ + 1]
    BY DEF Counted
  <2>2. lesson[l] \in LessonRow /\ lesson[l].replays \in Nat BY <1>a DEF LessonRow
  <2> QED BY <2>1, <2>2 DEF LessonRow
<1>2. lesson' \in [Lessons -> LessonRow] BY <1>1 DEF Counted
<1> QED BY <1>1, <1>2, <1>b DEF LessonsGrow

\* Whatever a human or a review does to the lessons leaves promotion alone.
LEMMA LessonSteps ==
  ASSUME IInv, [ReviewNext]_allVars
  PROVE  LessonsGrow \/ Promotes
<1>a. lesson \in [Lessons -> LessonRow] BY DEF IInv, TypeOK
<1>b. \A l \in Lessons : lesson[l].verdict = "APPROVE" => lesson[l].approved
  BY DEF IInv, LessonsBack
<1>1. CASE UNCHANGED <<policy, candidate, active, revision, audit, refused, lesson, tx>>
  <2>1. \A l \in Lessons : lesson[l].replays \in Nat BY <1>a DEF LessonRow
  <2> QED BY <1>a, <1>b, <1>1, <2>1 DEF LessonsGrow
<1>2. CASE UNCHANGED allVars \/ Tick
  BY <1>1, <1>2 DEF allVars, Tick, vars, control
<1>3. ASSUME NEW l \in Lessons, NEW verdict \in Verdicts, Decides(l, verdict) PROVE LessonsGrow
  <2>1. PICK latest \in {verdict, lesson[l].verdict} \ {None} :
          lesson' = [lesson EXCEPT ![l].verdict = latest,
                                   ![l].approved = @ \/ verdict = "APPROVE"]
    BY <1>3, Zenon DEF Decides, DecideLesson
  <2>2. latest \in Verdicts \cup {None} /\ lesson[l] \in LessonRow
    BY <1>a DEF LessonRow
  <2> DEFINE new == [lesson[l] EXCEPT !.verdict = latest,
                                      !.approved = lesson[l].approved \/ verdict = "APPROVE"]
  <2>3. /\ new.verdict = latest /\ new.replays = lesson[l].replays
        /\ new.approved = (lesson[l].approved \/ verdict = "APPROVE")
    BY <2>2 DEF LessonRow
  <2>4. new \in LessonRow
    <3>1. (lesson[l].approved \/ verdict = "APPROVE") \in BOOLEAN OBVIOUS
    <3> QED BY <2>2, <3>1 DEF LessonRow
  <2>5. lesson[l].replays \in Nat BY <1>a DEF LessonRow
  <2>6. new.verdict = "APPROVE" => new.approved BY <1>b, <2>3
  <2>7. \A i \in Lessons : lesson'[i] = IF i = l THEN new ELSE lesson[i]
    BY <1>a, <2>1
  <2>8. lesson' \in [Lessons -> LessonRow] BY <1>a, <2>1, <2>4
  <2>9. \A i \in Lessons : lesson[i].replays \in Nat BY <1>a DEF LessonRow
  <2>10. UNCHANGED <<policy, candidate, active, revision, audit, refused, tx>>
    BY <1>3 DEF Decides, DecideLesson, control
  <2>11. new.replays >= lesson[l].replays BY <2>3, <2>5
  <2>12. lesson[l].approved => new.approved BY <2>3
  <2> HIDE DEF new
  <2> QED BY <1>b, <2>6, <2>7, <2>8, <2>9, <2>10, <2>11, <2>12 DEF LessonsGrow
<1>4. ASSUME NEW l \in Lessons, Seeds(l, Decisions) PROVE LessonsGrow
  BY <1>4, CountedGrows DEF Seeds, control
<1>5. ASSUME NEW w \in Reviews, NEW c \in Cutoffs, ReviewRuns(w, c) PROVE LessonsGrow
  BY <1>5, CountedGrows DEF ReviewRuns, control
<1> QED BY <1>2, <1>3, <1>4, <1>5 DEF ReviewNext

\* Lessons that grow keep the invariant.
LEMMA LessonsGrowIInv ==
  ASSUME IInv, LessonsGrow
  PROVE  IInv'
<1> USE DEF IInv
<1>1. TypeOK' BY DEF LessonsGrow, TypeOK
<1>2. InForce' = InForce /\ (\A c \in Candidates : Below(c)' = Below(c))
  BY DEF LessonsGrow, InForce, Below
<1>3. CandidatesDiffer' BY <1>2 DEF LessonsGrow, CandidatesDiffer
<1>4. RevisionsPast' BY DEF LessonsGrow, RevisionsPast
<1>5. ActiveVersionsChain'
  <2>1. InForce \subseteq Candidates BY DEF InForce
  <2> QED BY <1>2, <2>1 DEF LessonsGrow, ActiveVersionsChain, TopOf
<1>6. AuditInv'
  <2>1. (\A c \in Candidates : Of(c)' = Of(c)) /\ Moves' = Moves
    BY DEF LessonsGrow, Of, Moves
  <2>2. (\A c \in Candidates : Told(c)') /\ ActiveTold'
    BY <2>1 DEF AuditInv, Told, ActiveTold, ActiveAfterEntry, LessonsGrow
  <2> QED BY <2>2 DEF AuditInv, LessonsGrow
<1>7. LessonsBack'
  <2>1. policy \in [Candidates -> PolicyRow] /\ tx \in Tx \cup {None} BY DEF TypeOK
  <2>2. \A c \in Candidates : policy[c].lessons \subseteq Lessons BY <2>1 DEF PolicyRow
  <2>3. lesson \in [Lessons -> LessonRow] /\ lesson' \in [Lessons -> LessonRow]
    BY DEF TypeOK, LessonsGrow
  <2>4. \A l \in Lessons : lesson[l].replays \in Nat /\ lesson'[l].replays \in Nat
    BY <2>3 DEF LessonRow
  <2>5. \A c \in Candidates : Backed(c) => Backed(c)'
    BY <2>2, <2>4 DEF Backed, LessonsGrow
  <2>6. tx # None => tx.candidate \in Candidates BY <2>1 DEF Tx
  <2>7. PromotedOnApprovedLessons'
    BY <2>5 DEF PromotedOnApprovedLessons, LessonsBack, Backed, LessonsGrow
  <2>8. (tx # None /\ tx.action \in {"APPROVE", "ACTIVATE"} => Backed(tx.candidate))'
    BY <2>5, <2>6 DEF LessonsBack, LessonsGrow, Backed
  <2> QED BY <2>7, <2>8 DEF LessonsBack, LessonsGrow
<1> QED BY <1>1, <1>3, <1>4, <1>5, <1>6, <1>7

-----------------------------------------------------------------------------
(* A promotion begins, ends without effect, or is refused. *)

\* A step that leaves the rows alone keeps the invariant, if what it begins was checked.
LEMMA SameRows ==
  ASSUME IInv, UNCHANGED <<policy, candidate, active, revision, audit, lesson>>,
         refused' \in Nat, tx' \in Tx \cup {None},
         tx' # None /\ tx'.action \in {"APPROVE", "ACTIVATE"} => Backed(tx'.candidate)
  PROVE  IInv'
<1> USE DEF IInv
<1>1. TypeOK' BY DEF TypeOK
<1>2. InForce' = InForce /\ (\A c \in Candidates : Below(c)' = Below(c)) BY DEF InForce, Below
<1>3. CandidatesDiffer' BY <1>2 DEF CandidatesDiffer
<1>4. RevisionsPast' BY DEF RevisionsPast
<1>5. ActiveVersionsChain'
  <2>1. InForce \subseteq Candidates BY DEF InForce
  <2> QED BY <1>2, <2>1 DEF ActiveVersionsChain, TopOf
<1>6. AuditInv'
  <2>1. (\A c \in Candidates : Of(c)' = Of(c)) /\ Moves' = Moves BY DEF Of, Moves
  <2>2. (\A c \in Candidates : Told(c)') /\ ActiveTold'
    BY <2>1 DEF AuditInv, Told, ActiveTold, ActiveAfterEntry
  <2> QED BY <2>2 DEF AuditInv
<1>7. LessonsBack'
  <2>1. PromotedOnApprovedLessons' BY DEF PromotedOnApprovedLessons, LessonsBack
  <2> QED BY <2>1 DEF LessonsBack, Backed
<1> QED BY <1>1, <1>3, <1>4, <1>5, <1>6, <1>7

\* What passes the lineage check is backed.
LEMMA BeginIInv ==
  ASSUME IInv, NEW c \in Candidates, NEW action \in Actions, Begin(c, action)
  PROVE  IInv'
<1>1. TypeOK /\ LessonsBack BY DEF IInv
<1>2. policy[c].lessons \subseteq Lessons BY <1>1 DEF TypeOK, PolicyRow
<1>3. action \in {"APPROVE", "ACTIVATE"} => Backed(c)
  BY <1>1, <1>2 DEF Begin, Validated, LessonsBack, Backed
<1>4. tx' = [candidate |-> c, action |-> action] /\ tx' \in Tx BY DEF Begin, Tx
<1>5. refused' \in Nat /\ UNCHANGED <<policy, candidate, active, revision, audit, lesson>>
  BY <1>1 DEF Begin, TypeOK, control
<1> QED BY <1>3, <1>4, <1>5, SameRows

\* A transaction that ends without effect.
LEMMA AbortIInv == ASSUME IInv, Abort PROVE IInv'
<1>1. refused' \in Nat /\ tx' = None /\ UNCHANGED <<policy, candidate, active, revision, audit, lesson>>
  BY DEF Abort, IInv, TypeOK, control
<1> QED BY <1>1, SameRows

\* A refused caller may bring a candidate, whose version is new.
LEMMA DenyIInv ==
  ASSUME IInv, NEW c \in Candidates, NEW action \in Actions, Deny(c, action)
  PROVE  IInv'
<1> USE DEF IInv
<1>a. /\ UNCHANGED <<policy, active, revision, audit, lesson, tx>>
      /\ refused' = refused + 1
      /\ VersionFree(c)
  BY DEF Deny, control
<1>b. refused' \in Nat BY <1>a DEF TypeOK
<1>1. CASE candidate[c].status # "ABSENT"
  <2>1. candidate' = candidate BY <1>1 DEF Deny
  <2>2. tx' \in Tx \cup {None} BY <1>a DEF TypeOK
  <2>3. tx' # None /\ tx'.action \in {"APPROVE", "ACTIVATE"} => Backed(tx'.candidate)
    BY <1>a DEF LessonsBack
  <2> QED BY <1>a, <1>b, <2>1, <2>2, <2>3, SameRows
<1>2. CASE candidate[c].status = "ABSENT"
  <2>1. candidate' = [candidate EXCEPT ![c] = [status |-> "CANDIDATE", revision |-> revision]]
    BY <1>2 DEF Deny
  <2>2. candidate \in [Candidates -> CandidateRow] /\ revision \in Nat BY DEF TypeOK
  <2>3. /\ candidate'[c] = [status |-> "CANDIDATE", revision |-> revision]
        /\ \A d \in Candidates \ {c} : candidate'[d] = candidate[d]
    BY <2>1, <2>2
  <2>4. candidate' \in [Candidates -> CandidateRow]
    <3>1. [status |-> "CANDIDATE", revision |-> revision] \in CandidateRow
      BY <2>2 DEF CandidateRow, Statuses
    <3> QED BY <2>1, <2>2, <3>1
  <2>5. TypeOK' BY <1>a, <1>b, <2>4 DEF TypeOK
  <2>6. InForce' = InForce BY <1>2, <2>3 DEF InForce
  <2>7. c \notin InForce /\ InForce \subseteq Candidates BY <1>2 DEF InForce
  <2>8. \A d \in InForce : Below(d)' = Below(d) BY <2>3, <2>6, <2>7 DEF Below
  <2>9. CandidatesDiffer'
    <3>1. ASSUME NEW d \in Candidates, NEW e \in Candidates, d # e,
                 candidate'[d].status # "ABSENT", candidate'[e].status # "ABSENT"
          PROVE  policy[d].version # policy[e].version
      BY <1>a, <2>3, <3>1 DEF VersionFree, CandidatesDiffer
    <3>2. ASSUME NEW d \in InForce, NEW e \in InForce, d # e
          PROVE  candidate'[d].revision # candidate'[e].revision
      BY <2>3, <2>7, <3>2 DEF CandidatesDiffer
    <3> QED BY <1>a, <2>6, <3>1, <3>2 DEF CandidatesDiffer
  <2>10. RevisionsPast' BY <1>a, <2>2, <2>3 DEF RevisionsPast
  <2>11. ActiveVersionsChain'
    <3>1. TopOf(InForce, active)' BY <1>a, <2>3, <2>6, <2>7 DEF ActiveVersionsChain, TopOf
    <3>2. ASSUME NEW d \in InForce PROVE TopOf(Below(d), policy[d].base)'
      <4>1. Below(d) \subseteq InForce BY DEF Below
      <4>2. \A e \in Below(d) : candidate'[e] = candidate[e] BY <2>3, <2>7, <4>1
      <4> QED BY <1>a, <2>8, <4>2 DEF ActiveVersionsChain, TopOf
    <3> QED BY <2>6, <3>1, <3>2 DEF ActiveVersionsChain
  <2>12. AuditInv'
    <3>1. (\A d \in Candidates : Of(d)' = Of(d)) /\ Moves' = Moves BY <1>a DEF Of, Moves
    <3>2. Of(c) = {}
      <4>1. SUFFICES ASSUME Of(c) # {} PROVE FALSE
        OBVIOUS
      <4>2. PICK i \in Nat : IsLast(i, Of(c)) /\ candidate[c].status = NextStatus(audit[i].action)
        BY <4>1 DEF AuditInv, Told
      <4>3. audit[i] \in AuditRow BY <4>2 DEF IsLast, Of, TypeOK
      <4>4. audit[i].action \in Actions BY <4>3 DEF AuditRow
      <4> QED BY <1>2, <4>2, <4>4 DEF NextStatus, Actions
    <3>3. Told(c)' BY <2>3, <3>1, <3>2 DEF Told
    <3>4. \A d \in Candidates \ {c} : Told(d)' BY <1>a, <2>3, <3>1 DEF AuditInv, Told
    <3>5. ActiveTold' BY <1>a, <3>1 DEF AuditInv, ActiveTold, ActiveAfterEntry
    <3> QED BY <1>a, <3>3, <3>4, <3>5 DEF AuditInv
  <2>13. LessonsBack'
    <3>1. PromotedOnApprovedLessons'
      BY <1>a, <2>3 DEF LessonsBack, PromotedOnApprovedLessons
    <3> QED BY <1>a, <3>1 DEF LessonsBack, Backed
  <2> QED BY <2>5, <2>9, <2>10, <2>11, <2>12, <2>13
<1> QED BY <1>1, <1>2

-----------------------------------------------------------------------------
(* A promotion commits. *)

\* What a commit does to the rows, whatever the action.
CommitFacts(c, action) ==
  /\ UNCHANGED <<policy, lesson, refused>>
  /\ tx' = None
  /\ candidate[c] \in CandidateRow
  /\ candidate'[c] = [status |-> NextStatus(action), revision |-> revision + 1]
  /\ \A d \in Candidates \ {c} : candidate'[d] = candidate[d]
  /\ \A d \in Candidates : candidate[d].revision \in Nat /\ candidate[d].revision <= revision
  /\ active' = ActiveAfter(c, action)
  /\ revision \in Nat /\ revision' = revision + 1
  /\ audit' = Append(audit, [candidate |-> c, action |-> action, observed |-> revision + 1])

\* They follow from the commit, and the columns keep their types.
LEMMA CommitDoes ==
  ASSUME IInv, NEW c \in Candidates, NEW action \in Actions, Commit(c, action)
  PROVE  CommitFacts(c, action) /\ TypeOK'
<1>1. TypeOK /\ RevisionsPast BY DEF IInv
<1>2. candidate \in [Candidates -> CandidateRow] /\ revision \in Nat BY <1>1 DEF TypeOK
<1>3. candidate' = [candidate EXCEPT ![c] = [status |-> NextStatus(action), revision |-> revision + 1]]
  BY DEF Commit
<1>4. CommitFacts(c, action)
  BY <1>1, <1>2, <1>3 DEF CommitFacts, Commit, Written, RevisionsPast, CandidateRow
<1>5. [status |-> NextStatus(action), revision |-> revision + 1] \in CandidateRow
  <2>1. revision + 1 \in Nat BY <1>2
  <2>2. NextStatus(action) \in Statuses BY DEF NextStatus, Actions, Statuses
  <2> QED BY <2>1, <2>2 DEF CandidateRow
<1>6. candidate' \in [Candidates -> CandidateRow] BY <1>2, <1>3, <1>5
<1>7. active' \in Versions
  <2>1. policy[c] \in PolicyRow BY <1>1 DEF TypeOK
  <2>2. policy[c].version \in Versions /\ policy[c].base \in Versions BY <2>1 DEF PolicyRow
  <2> QED BY <1>1, <2>2 DEF TypeOK, Commit, ActiveAfter, Actions
<1>8. audit' \in Seq(AuditRow)
  <2>1. revision + 1 \in Nat BY <1>2
  <2>2. [candidate |-> c, action |-> action, observed |-> revision + 1] \in AuditRow
    BY <2>1 DEF AuditRow
  <2> QED BY <1>1, <2>2 DEF TypeOK, Commit, Written
<1> QED BY <1>1, <1>4, <1>6, <1>7, <1>8 DEF TypeOK, CommitFacts

\* The entry a commit writes is the last there is, and the last of its candidate.
LEMMA CommitAudit ==
  ASSUME IInv, NEW c \in Candidates, NEW action \in Actions, CommitFacts(c, action)
  PROVE  AuditInv'
<1>a. TypeOK /\ AuditInv BY DEF IInv
<1>b. audit \in Seq(AuditRow) /\ Len(audit) = revision BY <1>a DEF TypeOK, AuditInv
<1>1. DOMAIN audit = 1..revision /\ DOMAIN audit' = 1..revision + 1 /\ Len(audit') = revision'
  BY <1>b DEF CommitFacts
<1>2. \A i \in 1..revision : audit'[i] = audit[i] BY <1>b DEF CommitFacts
<1>3. audit'[revision + 1] = [candidate |-> c, action |-> action, observed |-> revision + 1]
  BY <1>b DEF CommitFacts
<1>n. revision \in Nat /\ revision' = revision + 1 /\ revision + 1 \in Nat BY DEF CommitFacts
<1>4. \A i \in DOMAIN audit' : audit'[i].observed = i
  BY <1>a, <1>1, <1>2, <1>3, <1>n DEF AuditInv
<1>5. Of(c)' = Of(c) \cup {revision + 1} BY <1>1, <1>2, <1>3, <1>n DEF Of
<1>6. \A d \in Candidates \ {c} : Of(d)' = Of(d) BY <1>1, <1>2, <1>3, <1>n DEF Of
<1>7. Told(c)'
  <2>1. revision + 1 \in Of(c)' /\ \A j \in Of(c)' : j <= revision + 1
    BY <1>1, <1>5, <1>n DEF Of
  <2>2. IsLast(revision + 1, Of(c)') BY <2>1 DEF IsLast
  <2>3. /\ candidate'[c].status = NextStatus(audit'[revision + 1].action)
        /\ candidate'[c].revision = revision + 1
    <3>1. audit'[revision + 1].action = action BY <1>3
    <3>2. candidate'[c] = [status |-> NextStatus(action), revision |-> revision + 1]
      BY DEF CommitFacts
    <3> QED BY <3>1, <3>2
  <2>4. \E i \in Nat : /\ IsLast(i, Of(c)')
                       /\ candidate'[c].status = NextStatus(audit'[i].action)
                       /\ candidate'[c].revision = i
    BY <1>n, <2>2, <2>3
  <2> QED BY <2>1, <2>4 DEF Told, IsLast, NextStatus
<1>8. ASSUME NEW d \in Candidates \ {c} PROVE Told(d)'
  <2>1. candidate'[d] = candidate[d] /\ Of(d)' = Of(d) BY <1>6, <1>8 DEF CommitFacts
  <2>2. \A i \in Of(d) : audit'[i] = audit[i] BY <1>1, <1>2 DEF Of
  <2>3. Told(d) BY <1>a DEF AuditInv
  <2> QED BY <2>1, <2>2, <2>3 DEF Told, IsLast
<1>9. ActiveTold'
  <2>1. CASE action \in {"ACTIVATE", "ROLLBACK"}
    <3>1. revision + 1 \in Moves' /\ \A j \in Moves' : j <= revision + 1
      BY <1>1, <1>3, <1>n, <2>1 DEF Moves
    <3>2. PICK n \in Nat : n = revision + 1 BY <1>n
    <3>3. active' = (ActiveAfterEntry(audit[n]))'
      <4>1. audit'[n].candidate = c /\ audit'[n].action = action BY <1>3, <3>2
      <4>2. active' = ActiveAfter(c, action) /\ policy' = policy BY DEF CommitFacts
      <4> QED BY <2>1, <4>1, <4>2 DEF ActiveAfterEntry, ActiveAfter
    <3>4. IsLast(n, Moves') BY <3>1, <3>2 DEF IsLast
    <3> QED BY <3>1, <3>3, <3>4 DEF ActiveTold, IsLast
  <2>2. CASE action \notin {"ACTIVATE", "ROLLBACK"}
    <3>1. Moves' = Moves BY <1>1, <1>2, <1>3, <1>n, <2>2 DEF Moves
    <3>2. \A i \in Moves : audit'[i] = audit[i] BY <1>1, <1>2 DEF Moves
    <3>3. active' = active /\ policy' = policy BY <2>2 DEF CommitFacts, ActiveAfter, Actions
    <3>4. CASE Moves = {} BY <1>a, <3>1, <3>3, <3>4 DEF AuditInv, ActiveTold
    <3>5. CASE Moves # {}
      <4>1. PICK i \in Nat : IsLast(i, Moves) /\ active = ActiveAfterEntry(audit[i])
        BY <1>a, <3>5 DEF AuditInv, ActiveTold
      <4>2. i \in Moves /\ IsLast(i, Moves') BY <3>1, <4>1 DEF IsLast
      <4>3. active' = (ActiveAfterEntry(audit[i]))'
        BY <3>2, <3>3, <4>1, <4>2 DEF ActiveAfterEntry
      <4> QED BY <3>1, <3>5, <4>2, <4>3 DEF ActiveTold
    <3> QED BY <3>4, <3>5
  <2> QED BY <2>1, <2>2
<1> QED BY <1>1, <1>4, <1>7, <1>8, <1>9 DEF AuditInv

\* What is in force when a candidate is activated, or rolled back.
Activated(c) ==
  /\ c \notin InForce /\ InForce' = InForce \cup {c}
  /\ active = policy[c].base /\ active' = policy[c].version
  /\ Below(c)' = InForce /\ \A d \in InForce : Below(d)' = Below(d)

RolledBack(c) ==
  /\ c \in InForce /\ InForce' = InForce \ {c}
  /\ active = policy[c].version /\ active' = policy[c].base
  /\ Below(c) = InForce \ {c} /\ \A d \in InForce \ {c} : c \notin Below(d) /\ Below(d)' = Below(d)

Unmoved ==
  InForce' = InForce /\ active' = active /\ \A d \in InForce : Below(d)' = Below(d)

\* A commit activates, rolls back the version on top, or moves nothing.
LEMMA CommitMoves ==
  ASSUME IInv, NEW c \in Candidates, NEW action \in Actions,
         CommitFacts(c, action), Commit(c, action)
  PROVE  /\ action \in {"APPROVE", "REJECT"} => Unmoved /\ c \notin InForce
         /\ action = "ACTIVATE" => Activated(c)
         /\ action = "ROLLBACK" => RolledBack(c)
<1>a. CandidatesDiffer /\ ActiveVersionsChain BY DEF IInv
<1>b. Allowed(c, action) BY DEF Commit
<1>n. /\ revision \in Nat
      /\ candidate'[c].status = NextStatus(action) /\ candidate'[c].revision = revision + 1
      /\ \A d \in Candidates \ {c} : candidate'[d] = candidate[d]
      /\ \A d \in Candidates : candidate[d].revision \in Nat /\ candidate[d].revision <= revision
  BY DEF CommitFacts
<1>1. InForce \subseteq Candidates /\ \A d \in Candidates : Below(d) \subseteq InForce
  BY DEF InForce, Below
<1>2. CASE action \in {"APPROVE", "REJECT"}
  <2>1. c \notin InForce /\ InForce' = InForce /\ active' = active
    BY <1>b, <1>n, <1>2 DEF Allowed, Status, NextStatus, ActiveAfter, InForce, CommitFacts
  <2>2. \A d \in InForce : candidate'[d] = candidate[d] BY <1>1, <1>n, <2>1
  <2> QED BY <1>2, <2>1, <2>2 DEF Below, Unmoved
<1>3. CASE action = "ACTIVATE"
  <2>1. /\ c \notin InForce /\ InForce' = InForce \cup {c}
        /\ active = policy[c].base /\ active' = policy[c].version
    BY <1>b, <1>n, <1>3 DEF Allowed, Status, NextStatus, ActiveAfter, InForce, CommitFacts
  <2>2. \A d \in InForce : candidate'[d] = candidate[d] BY <1>1, <1>n, <2>1
  <2>3. \A d \in InForce : Below(d)' = Below(d) BY <1>1, <1>n, <2>1, <2>2 DEF Below
  <2>4. Below(c)' = InForce BY <1>1, <1>n, <2>1, <2>2 DEF Below
  <2> QED BY <1>3, <2>1, <2>3, <2>4 DEF Activated
<1>4. CASE action = "ROLLBACK"
  <2>1. /\ c \in InForce /\ InForce' = InForce \ {c}
        /\ active = policy[c].version /\ active' = policy[c].base
    BY <1>b, <1>n, <1>4 DEF Allowed, Status, NextStatus, ActiveAfter, InForce, CommitFacts
  <2>2. PICK top \in InForce : /\ active = policy[top].version
                               /\ \A d \in InForce : candidate[d].revision <= candidate[top].revision
    BY <1>a, <2>1 DEF ActiveVersionsChain, TopOf
  <2>3. top = c BY <1>a, <1>1, <2>1, <2>2 DEF CandidatesDiffer, InForce
  <2>4. \A d \in InForce \ {c} : candidate[d].revision < candidate[c].revision
    BY <1>a, <1>1, <1>n, <2>1, <2>2, <2>3 DEF CandidatesDiffer
  <2>5. Below(c) = InForce \ {c} BY <1>1, <1>n, <2>4 DEF Below
  <2>6. \A d \in InForce \ {c} : candidate'[d] = candidate[d] BY <1>1, <1>n
  <2>7. \A d \in InForce \ {c} : c \notin Below(d) BY <1>1, <1>n, <2>4 DEF Below
  <2>8. \A d \in InForce \ {c} : Below(d)' = Below(d) BY <2>1, <2>6, <2>7 DEF Below
  <2> QED BY <1>4, <2>1, <2>5, <2>7, <2>8 DEF RolledBack
<1> QED BY <1>2, <1>3, <1>4

\* What is in force stays a chain: activation adds the newest, rollback takes it away.
LEMMA CommitChain ==
  ASSUME IInv, NEW c \in Candidates, NEW action \in Actions,
         CommitFacts(c, action), Commit(c, action)
  PROVE  CandidatesDiffer' /\ RevisionsPast' /\ ActiveVersionsChain'
<1>a. CandidatesDiffer /\ ActiveVersionsChain BY DEF IInv
<1>b. Allowed(c, action) /\ VersionFree(c) BY DEF Commit
<1>n. /\ revision \in Nat /\ revision' = revision + 1
      /\ candidate'[c].status = NextStatus(action) /\ candidate'[c].revision = revision + 1
      /\ \A d \in Candidates \ {c} : candidate'[d] = candidate[d]
      /\ \A d \in Candidates : candidate[d].revision \in Nat /\ candidate[d].revision <= revision
      /\ policy' = policy
  BY DEF CommitFacts
<1>1. InForce \subseteq Candidates /\ \A d \in Candidates : Below(d) \subseteq InForce
  BY DEF InForce, Below
<1>2. RevisionsPast' BY <1>n DEF RevisionsPast
<1>3. c \in InForce' => c \notin InForce
  BY <1>b, <1>n DEF Allowed, Status, NextStatus, InForce, Actions
<1>4. CandidatesDiffer'
  <2>1. ASSUME NEW d \in Candidates, NEW e \in Candidates, d # e,
               candidate'[d].status # "ABSENT", candidate'[e].status # "ABSENT"
        PROVE  policy[d].version # policy[e].version
    BY <1>a, <1>b, <1>n, <2>1 DEF VersionFree, CandidatesDiffer
  <2>2. ASSUME NEW d \in InForce', NEW e \in InForce', d # e
        PROVE  candidate'[d].revision # candidate'[e].revision
    <3>1. d \in Candidates /\ e \in Candidates BY DEF InForce
    <3>2. CASE d # c /\ e # c
      <4>1. d \in InForce /\ e \in InForce BY <1>n, <3>1, <3>2 DEF InForce
      <4> QED BY <1>a, <1>n, <2>2, <3>1, <3>2, <4>1 DEF CandidatesDiffer
    <3>3. CASE d = c \/ e = c BY <1>n, <2>2, <3>1, <3>3
    <3> QED BY <3>2, <3>3
  <2> QED BY <1>n, <2>1, <2>2 DEF CandidatesDiffer
<1>5. ActiveVersionsChain'
  <2>1. CASE action \in {"APPROVE", "REJECT"}
    <3>1. Unmoved /\ \A d \in InForce : candidate'[d] = candidate[d]
      BY <1>1, <1>n, <2>1, CommitMoves
    <3>2. TopOf(InForce, active)' BY <1>a, <1>n, <3>1 DEF ActiveVersionsChain, TopOf, Unmoved
    <3>3. ASSUME NEW d \in InForce PROVE TopOf(Below(d), policy[d].base)'
      BY <1>a, <1>1, <1>n, <3>1 DEF ActiveVersionsChain, TopOf, Unmoved
    <3> QED BY <3>1, <3>2, <3>3 DEF ActiveVersionsChain, Unmoved
  <2>2. CASE action = "ACTIVATE"
    <3>1. Activated(c) BY <2>2, CommitMoves
    <3>2. \A d \in InForce : candidate'[d] = candidate[d] BY <1>1, <1>n, <3>1 DEF Activated
    <3>3. TopOf(InForce, active)' BY <1>1, <1>n, <3>1, <3>2 DEF TopOf, Activated
    <3>4. ASSUME NEW d \in InForce PROVE TopOf(Below(d), policy[d].base)'
      BY <1>a, <1>1, <1>n, <3>1, <3>2 DEF ActiveVersionsChain, TopOf, Activated
    <3>5. TopOf(Below(c), policy[c].base)'
      BY <1>a, <1>n, <3>1, <3>2 DEF ActiveVersionsChain, TopOf, Activated
    <3> QED BY <3>1, <3>3, <3>4, <3>5 DEF ActiveVersionsChain, Activated
  <2>3. CASE action = "ROLLBACK"
    <3>1. RolledBack(c) BY <2>3, CommitMoves
    <3>2. \A d \in InForce \ {c} : candidate'[d] = candidate[d] BY <1>1, <1>n
    <3>3. TopOf(InForce, active)'
      BY <1>a, <1>n, <3>1, <3>2 DEF ActiveVersionsChain, TopOf, RolledBack
    <3>4. ASSUME NEW d \in InForce \ {c} PROVE TopOf(Below(d), policy[d].base)'
      <4>1. Below(d) \subseteq InForce \ {c} BY <1>1, <3>1 DEF RolledBack
      <4> QED BY <1>a, <1>n, <3>1, <3>2, <4>1 DEF ActiveVersionsChain, TopOf, RolledBack
    <3> QED BY <3>1, <3>3, <3>4 DEF ActiveVersionsChain, RolledBack
  <2> QED BY <2>1, <2>2, <2>3 DEF Actions
<1> QED BY <1>2, <1>4, <1>5

\* The promotion that commits was checked when it began.
LEMMA CommitIInv ==
  ASSUME IInv, NEW c \in Candidates, NEW action \in Actions, Commit(c, action)
  PROVE  IInv'
<1>1. CommitFacts(c, action) /\ TypeOK' BY CommitDoes
<1>2. AuditInv' BY <1>1, CommitAudit
<1>3. CandidatesDiffer' /\ RevisionsPast' /\ ActiveVersionsChain' BY <1>1, CommitChain
<1>4. LessonsBack'
  <2>a. LessonsBack BY DEF IInv
  <2>1. tx = [candidate |-> c, action |-> action] /\ Allowed(c, action) BY DEF Commit
  <2>2. tx \in Tx BY <2>1 DEF Tx
  <2>3. tx # None BY <2>2, TxAssumption
  <2>4. action \in {"APPROVE", "ACTIVATE"} => Backed(c) BY <2>a, <2>1, <2>3 DEF LessonsBack
  <2>5. /\ policy' = policy /\ lesson' = lesson /\ tx' = None
        /\ candidate'[c].status = NextStatus(action)
        /\ \A d \in Candidates \ {c} : candidate'[d] = candidate[d]
    BY <1>1 DEF CommitFacts
  <2>6. action = "ROLLBACK" => candidate[c].status = "ACTIVE" BY <2>1 DEF Allowed, Status
  <2>7. action = "ROLLBACK" => Backed(c)
    BY <2>a, <2>6 DEF LessonsBack, PromotedOnApprovedLessons, Backed
  <2>8. candidate'[c].status \in {"APPROVED", "ACTIVE", "ROLLED_BACK"} => Backed(c)
    BY <2>4, <2>5, <2>7 DEF NextStatus, Actions
  <2>9. PromotedOnApprovedLessons'
    BY <2>a, <2>5, <2>8 DEF LessonsBack, PromotedOnApprovedLessons, Backed
  <2> QED BY <2>a, <2>5, <2>9 DEF LessonsBack
<1> QED BY <1>1, <1>2, <1>3, <1>4 DEF IInv

-----------------------------------------------------------------------------
\* Every step of a review, a human or a promotion keeps the invariant.
LEMMA NextIInv == ASSUME IInv, [ReviewNext]_allVars PROVE IInv'
<1>1. CASE LessonsGrow BY <1>1, LessonsGrowIInv
<1>2. ASSUME NEW c \in Candidates, NEW action \in Actions,
             Begin(c, action) \/ Commit(c, action) \/ Deny(c, action)
      PROVE  IInv'
  BY <1>2, BeginIInv, CommitIInv, DenyIInv
<1>3. CASE Abort BY <1>3, AbortIInv
<1> QED BY <1>1, <1>2, <1>3, LessonSteps DEF Promotes

\* Whatever is decided, replayed, promoted, refused and rolled back in whatever
\* order, the candidates in force form a chain, the audit retells every revision,
\* and what went through rests on lessons that were approved and replayed.
THEOREM PromotionIsSound == ReviewSpec => []PromotionSound
<1>1. ReviewInit => IInv BY InitIInv
<1>2. IInv /\ [ReviewNext]_allVars => IInv' BY NextIInv
<1>3. IInv => PromotionSound BY IInvImplies
<1> QED BY <1>1, <1>2, <1>3, PTL DEF ReviewSpec

-----------------------------------------------------------------------------
(* The stack of versions *)

\* Every height below that of the stack is taken.
HeightsFull ==
  \A i \in 1..Cardinality(InForce) : \E c \in InForce : Height(c) = i - 1

\* The heights of the candidates in force differ and stay below that of the stack.
LEMMA HeightFacts ==
  ASSUME IInv
  PROVE  /\ IsFiniteSet(InForce) /\ Cardinality(InForce) \in Nat
         /\ \A c \in InForce : Height(c) \in 0..Cardinality(InForce) - 1
         /\ \A c, d \in InForce : c # d => Height(c) # Height(d)
<1>a. CandidatesDiffer /\ RevisionsPast /\ TypeOK BY DEF IInv
<1>1. IsFiniteSet(InForce) /\ Cardinality(InForce) \in Nat
  <2>1. InForce \in SUBSET Candidates BY DEF InForce
  <2>2. IsFiniteSet(InForce) BY <2>1, PromotionAssumption, FS_Subset
  <2> QED BY <2>2, FS_CardinalityType
<1>2. \A c \in InForce : candidate[c].revision \in Nat
  BY <1>a DEF TypeOK, InForce, CandidateRow
<1>3. ASSUME NEW S \in SUBSET InForce, NEW c \in InForce, c \notin S
      PROVE  /\ IsFiniteSet(S) /\ Cardinality(S) \in Nat
             /\ Cardinality(S \cup {c}) = Cardinality(S) + 1
  <2>1. IsFiniteSet(S) BY <1>1, FS_Subset
  <2> QED BY <1>3, <2>1, FS_CardinalityType, FS_AddElement
<1>4. ASSUME NEW c \in InForce
      PROVE  Height(c) \in 0..Cardinality(InForce) - 1
  <2>1. Below(c) \in SUBSET InForce /\ c \notin Below(c) BY <1>2 DEF Below
  <2>2. Cardinality(Below(c)) \in Nat /\ Cardinality(Below(c) \cup {c}) = Cardinality(Below(c)) + 1
    BY <1>3, <2>1
  <2>3. Below(c) \cup {c} \in SUBSET InForce BY <2>1
  <2>4. Cardinality(Below(c) \cup {c}) <= Cardinality(InForce) BY <1>1, <2>3, FS_Subset
  <2> QED BY <1>1, <2>2, <2>4 DEF Height
<1>5. ASSUME NEW c \in InForce, NEW d \in InForce, candidate[c].revision < candidate[d].revision
      PROVE  Height(c) < Height(d)
  <2>1. Below(c) \in SUBSET InForce /\ c \notin Below(c) BY <1>2 DEF Below
  <2>2. Cardinality(Below(c)) \in Nat /\ Cardinality(Below(c) \cup {c}) = Cardinality(Below(c)) + 1
    BY <1>3, <2>1
  <2>3. Below(c) \cup {c} \in SUBSET Below(d) BY <1>2, <1>5 DEF Below
  <2>4. IsFiniteSet(Below(d)) /\ Cardinality(Below(d)) \in Nat
    <3>1. Below(d) \in SUBSET InForce BY DEF Below
    <3>2. IsFiniteSet(Below(d)) BY <1>1, <3>1, FS_Subset
    <3> QED BY <3>2, FS_CardinalityType
  <2>5. Cardinality(Below(c) \cup {c}) <= Cardinality(Below(d)) BY <2>3, <2>4, FS_Subset
  <2> QED BY <2>2, <2>4, <2>5 DEF Height
<1>6. ASSUME NEW c \in InForce, NEW d \in InForce, c # d
      PROVE  Height(c) # Height(d)
  <2>1. candidate[c].revision # candidate[d].revision BY <1>a, <1>6 DEF CandidatesDiffer, InForce
  <2>2. candidate[c].revision < candidate[d].revision \/ candidate[d].revision < candidate[c].revision
    BY <1>2, <2>1
  <2>3. Height(c) < Height(d) \/ Height(d) < Height(c) BY <1>5, <2>2
  <2>4. Height(c) \in Nat /\ Height(d) \in Nat BY <1>1, <1>4
  <2> QED BY <2>3, <2>4
<1> QED BY <1>1, <1>4, <1>6

InForceAt(i) == CHOOSE c \in InForce : Height(c) = i - 1

VersionAt == [i \in 1..Cardinality(InForce) |-> policy[InForceAt(i)].version]

\* The stack in the words of the proof.
LEMMA StackIs == /\ StackOfVersions = <<Bootstrap>> \o VersionAt
                 /\ StackOfVersions' = <<Bootstrap>> \o VersionAt'
BY DEF StackOfVersions, VersionAt, InForceAt

\* The version at a height is that of the candidate of that height.
LEMMA VersionAtHeight ==
  ASSUME IInv, NEW c \in InForce
  PROVE  Height(c) + 1 \in 1..Cardinality(InForce) /\ VersionAt[Height(c) + 1] = policy[c].version
<1>1. /\ Height(c) \in 0..Cardinality(InForce) - 1 /\ Cardinality(InForce) \in Nat
      /\ \A d \in InForce : c # d => Height(c) # Height(d)
  BY HeightFacts
<1>2. PICK h \in Nat : h = Height(c) + 1 BY <1>1
<1>3. h \in 1..Cardinality(InForce) /\ h - 1 = Height(c) BY <1>1, <1>2
<1>4. InForceAt(h) = c BY <1>1, <1>3 DEF InForceAt
<1>5. VersionAt[h] = policy[c].version BY <1>3, <1>4 DEF VersionAt
<1> QED BY <1>2, <1>3, <1>5

\* It is a version, if the heights are full.
LEMMA VersionAtType ==
  ASSUME IInv, HeightsFull
  PROVE  VersionAt \in [1..Cardinality(InForce) -> Versions]
<1>1. ASSUME NEW i \in 1..Cardinality(InForce) PROVE VersionAt[i] \in Versions
  <2>1. PICK c \in InForce : Height(c) = i - 1 BY DEF HeightsFull
  <2>2. Height(c) + 1 = i BY <2>1
  <2>3. VersionAt[i] = policy[c].version BY <2>2, VersionAtHeight
  <2>4. policy[c] \in PolicyRow BY DEF IInv, TypeOK, InForce
  <2> QED BY <2>3, <2>4 DEF PolicyRow
<1> QED BY <1>1 DEF VersionAt

\* Pushing a version on a stack.
LEMMA Push ==
  ASSUME NEW n \in Nat, NEW f \in [1..n -> Versions], NEW g \in [1..n + 1 -> Versions],
         \A i \in 1..n : g[i] = f[i]
  PROVE  <<Bootstrap>> \o g = Append(<<Bootstrap>> \o f, g[n + 1])
<1>1. f \in Seq(Versions) /\ Len(f) = n /\ g \in Seq(Versions) /\ Len(g) = n + 1 OBVIOUS
<1>2. <<Bootstrap>> \in Seq(Versions) /\ Len(<<Bootstrap>>) = 1 BY PromotionAssumption
<1> DEFINE F == <<Bootstrap>> \o f
           G == <<Bootstrap>> \o g
<1>3. F \in Seq(Versions) /\ Len(F) = n + 1 /\ F[1] = Bootstrap /\ \A i \in 2..n + 1 : F[i] = f[i - 1]
  BY <1>1, <1>2
<1>4. G \in Seq(Versions) /\ Len(G) = n + 2 /\ G[1] = Bootstrap /\ \A i \in 2..n + 2 : G[i] = g[i - 1]
  BY <1>1, <1>2
<1> HIDE DEF F, G
<1>5. g[n + 1] \in Versions BY <1>1
<1>6. Append(F, g[n + 1]) \in Seq(Versions) /\ Len(Append(F, g[n + 1])) = n + 2 BY <1>3, <1>5
<1>7. \A i \in 1..n + 2 : G[i] = Append(F, g[n + 1])[i] BY <1>3, <1>4, <1>5
<1>8. G = Append(F, g[n + 1]) BY <1>4, <1>6, <1>7
<1> QED BY <1>8 DEF F, G

\* Taking the top off.
LEMMA Pop ==
  ASSUME NEW n \in Nat \ {0}, NEW f \in [1..n -> Versions], NEW g \in [1..n - 1 -> Versions],
         \A i \in 1..n - 1 : g[i] = f[i]
  PROVE  LET F == <<Bootstrap>> \o f
         IN  /\ Len(F) = n + 1
             /\ <<Bootstrap>> \o g = SubSeq(F, 1, Len(F) - 1)
             /\ F[Len(F) - 1] = IF n = 1 THEN Bootstrap ELSE f[n - 1]
<1>1. f \in Seq(Versions) /\ Len(f) = n /\ g \in Seq(Versions) /\ Len(g) = n - 1 OBVIOUS
<1>2. <<Bootstrap>> \in Seq(Versions) /\ Len(<<Bootstrap>>) = 1 BY PromotionAssumption
<1> DEFINE F == <<Bootstrap>> \o f
           G == <<Bootstrap>> \o g
<1>3. F \in Seq(Versions) /\ Len(F) = n + 1 /\ F[1] = Bootstrap /\ \A i \in 2..n + 1 : F[i] = f[i - 1]
  BY <1>1, <1>2
<1>4. G \in Seq(Versions) /\ Len(G) = n /\ G[1] = Bootstrap /\ \A i \in 2..n : G[i] = g[i - 1]
  BY <1>1, <1>2
<1> HIDE DEF F, G
<1>5. SubSeq(F, 1, n) \in Seq(Versions) /\ Len(SubSeq(F, 1, n)) = n BY <1>3
<1>6. ASSUME NEW i \in 1..n PROVE G[i] = SubSeq(F, 1, n)[i]
  <2>1. SubSeq(F, 1, n)[i] = F[i] BY <1>3
  <2>2. G[i] = F[i]
    <3>1. CASE i = 1 BY <1>3, <1>4, <3>1
    <3>2. CASE i # 1
      <4>1. i \in 2..n /\ i \in 2..n + 1 /\ i - 1 \in 1..n - 1 BY <3>2
      <4> QED BY <1>3, <1>4, <4>1
    <3> QED BY <3>1, <3>2
  <2> QED BY <2>1, <2>2
<1>7. G = SubSeq(F, 1, n)
  <2>1. PICK s \in Seq(Versions) : s = SubSeq(F, 1, n) /\ Len(s) = n BY <1>5
  <2>2. DOMAIN s = 1..n /\ DOMAIN G = 1..n BY <1>4, <2>1
  <2>3. G = [i \in 1..n |-> G[i]] BY <1>4, <2>2
  <2>4. s = [i \in 1..n |-> s[i]] BY <2>1, <2>2
  <2>5. \A i \in 1..n : G[i] = s[i] BY <1>6, <2>1
  <2>6. G = s BY <2>3, <2>4, <2>5
  <2> QED BY <2>1, <2>6
<1>8. Len(F) - 1 = n BY <1>3
<1>9. F[n] = IF n = 1 THEN Bootstrap ELSE f[n - 1] BY <1>3
<1> QED BY <1>3, <1>7, <1>8, <1>9 DEF F, G

\* Where nothing moves, the stack stays.
LEMMA StackStays ==
  ASSUME IInv, HeightsFull, Unmoved, policy' = policy
  PROVE  HeightsFull' /\ UNCHANGED Stack!vars
<1>1. InForce' = InForce /\ active' = active BY DEF Unmoved
<1>2. \A c \in InForce : (Height(c))' = Height(c) BY DEF Unmoved, Height
<1>3. HeightsFull' BY <1>1, <1>2 DEF HeightsFull
<1>4. ASSUME NEW i \in 1..Cardinality(InForce)
      PROVE  InForceAt(i)' = InForceAt(i)
  <2>1. PICK c \in InForce : Height(c) = i - 1 BY DEF HeightsFull
  <2>2. \A d \in InForce : Height(d) = i - 1 => d = c BY <2>1, HeightFacts
  <2>3. InForceAt(i) = c BY <2>1, <2>2 DEF InForceAt
  <2>4. InForceAt(i)' = c BY <1>1, <1>2, <2>1, <2>2 DEF InForceAt
  <2> QED BY <2>3, <2>4
<1>5. VersionAt' = VersionAt BY <1>1, <1>4 DEF VersionAt
<1> QED BY <1>1, <1>3, <1>5, StackIs DEF Stack!vars

\* An activation pushes the version of the candidate.
LEMMA ActivationPushes ==
  ASSUME IInv, IInv', HeightsFull, policy' = policy, NEW c \in Candidates, Activated(c)
  PROVE  HeightsFull' /\ Stack!Activate(policy[c].version)
<1>1. /\ IsFiniteSet(InForce) /\ Cardinality(InForce) \in Nat
      /\ \A d \in InForce : Height(d) \in 0..Cardinality(InForce) - 1
      /\ \A d, e \in InForce : d # e => Height(d) # Height(e)
  BY HeightFacts
<1>2. Cardinality(InForce') = Cardinality(InForce) + 1 BY <1>1, FS_AddElement DEF Activated
<1>3. (Height(c))' = Cardinality(InForce) /\ \A d \in InForce : (Height(d))' = Height(d)
  BY DEF Activated, Height
<1>4. ASSUME NEW i \in 1..Cardinality(InForce) + 1
      PROVE  \E d \in InForce' : (Height(d))' = i - 1
  <2>1. CASE i = Cardinality(InForce) + 1 BY <1>1, <1>3, <2>1 DEF Activated
  <2>2. CASE i \in 1..Cardinality(InForce) BY <1>3, <2>2 DEF HeightsFull, Activated
  <2> QED BY <1>1, <2>1, <2>2
<1>5. HeightsFull' BY <1>2, <1>4 DEF HeightsFull
<1>6. VersionAt \in [1..Cardinality(InForce) -> Versions] BY VersionAtType
<1>7. \A i \in 1..Cardinality(InForce) + 1, d \in InForce' : (Height(d))' = i - 1 =>
        InForceAt(i)' = d
  <2>1. \A d, e \in InForce' : d # e => (Height(d))' # (Height(e))'
    BY <1>1, <1>3 DEF Activated
  <2> QED BY <2>1 DEF InForceAt
<1>8. ASSUME NEW i \in 1..Cardinality(InForce) PROVE VersionAt'[i] = VersionAt[i]
  <2>1. PICK d \in InForce : Height(d) = i - 1 BY DEF HeightsFull
  <2>2. InForceAt(i) = d BY <1>1, <2>1 DEF InForceAt
  <2>3. d \in InForce' /\ (Height(d))' = i - 1 BY <1>3, <2>1 DEF Activated
  <2>4. i \in 1..Cardinality(InForce) + 1 BY <1>1
  <2>5. InForceAt(i)' = d BY <1>7, <2>3, <2>4
  <2> QED BY <1>2, <2>2, <2>4, <2>5 DEF VersionAt
<1>9. VersionAt'[Cardinality(InForce) + 1] = policy[c].version
  <2>1. PICK i \in 1..Cardinality(InForce) + 1 : i = Cardinality(InForce) + 1 BY <1>1
  <2>2. c \in InForce' /\ (Height(c))' = i - 1 BY <1>1, <1>3, <2>1 DEF Activated
  <2>3. InForceAt(i)' = c BY <1>7, <2>2
  <2> QED BY <1>2, <2>1, <2>3 DEF VersionAt
<1>10. VersionAt' \in [1..Cardinality(InForce) + 1 -> Versions]
  <2>1. policy[c] \in PolicyRow BY DEF IInv, TypeOK
  <2>2. policy[c].version \in Versions BY <2>1 DEF PolicyRow
  <2>3. \A i \in 1..Cardinality(InForce) + 1 : VersionAt'[i] \in Versions
    BY <1>1, <1>6, <1>8, <1>9, <2>2
  <2>4. VersionAt' = [i \in 1..Cardinality(InForce) + 1 |-> VersionAt'[i]]
    BY <1>2 DEF VersionAt
  <2> QED BY <2>3, <2>4
<1>11. <<Bootstrap>> \o VersionAt' = Append(<<Bootstrap>> \o VersionAt, policy[c].version)
  BY <1>1, <1>6, <1>8, <1>9, <1>10, Push
<1> QED BY <1>5, <1>11, StackIs DEF Stack!Activate, Activated

\* A rollback takes the top off, and the version under it is active again.
LEMMA RollbackPops ==
  ASSUME IInv, IInv', HeightsFull, policy' = policy, NEW c \in Candidates, RolledBack(c)
  PROVE  HeightsFull' /\ Stack!Rollback
<1>1. /\ IsFiniteSet(InForce) /\ Cardinality(InForce) \in Nat
      /\ \A d \in InForce : Height(d) \in 0..Cardinality(InForce) - 1
      /\ \A d, e \in InForce : d # e => Height(d) # Height(e)
  BY HeightFacts
<1>2. PICK n \in Nat : n = Cardinality(InForce) BY <1>1
<1>3. /\ c \in InForce /\ InForce' = InForce \ {c}
      /\ active' = policy[c].base /\ Below(c) = InForce \ {c}
  BY DEF RolledBack
<1>4. Cardinality(InForce \ {c}) = n - 1 BY <1>1, <1>2, <1>3, FS_RemoveElement
<1>5. Height(c) = n - 1 /\ n \in Nat \ {0}
  <2>1. n - 1 \in 0..n - 1 BY <1>1, <1>2, <1>3, <1>4 DEF Height
  <2> QED BY <1>2, <1>3, <1>4, <2>1 DEF Height
<1>6. \A d \in InForce' : (Height(d))' = Height(d) BY <1>3 DEF RolledBack, Height
<1>7. ASSUME NEW i \in 1..n - 1 PROVE \E d \in InForce' : Height(d) = i - 1
  <2>1. PICK d \in InForce : Height(d) = i - 1 BY <1>2, <1>5 DEF HeightsFull
  <2>2. d # c BY <1>5, <2>1
  <2> QED BY <1>3, <2>1, <2>2
<1>8. HeightsFull'
  <2>1. Cardinality(InForce') = n - 1 BY <1>3, <1>4
  <2> QED BY <1>6, <1>7, <2>1 DEF HeightsFull
<1>9. VersionAt \in [1..n -> Versions] BY <1>2, VersionAtType
<1>10. ASSUME NEW i \in 1..n - 1 PROVE VersionAt'[i] = VersionAt[i]
  <2>1. PICK d \in InForce' : Height(d) = i - 1 BY <1>7
  <2>2. InForceAt(i) = d BY <1>1, <1>3, <2>1 DEF InForceAt
  <2>3. InForceAt(i)' = d
    <3>1. \A e \in InForce' : e # d => Height(e) # i - 1 BY <1>1, <1>3, <2>1
    <3>2. (Height(d))' = i - 1 /\ \A e \in InForce' : e # d => (Height(e))' # i - 1
      BY <1>6, <2>1, <3>1
    <3> QED BY <2>1, <3>2 DEF InForceAt
  <2>4. i \in 1..Cardinality(InForce') /\ i \in 1..Cardinality(InForce) BY <1>2, <1>3, <1>4, <1>5
  <2> QED BY <2>2, <2>3, <2>4 DEF VersionAt
<1>11. VersionAt' \in [1..n - 1 -> Versions]
  <2>1. \A i \in 1..n - 1 : VersionAt'[i] \in Versions BY <1>5, <1>9, <1>10
  <2>2. VersionAt' = [i \in 1..n - 1 |-> VersionAt'[i]] BY <1>3, <1>4 DEF VersionAt
  <2> QED BY <2>1, <2>2
<1>12. /\ Len(StackOfVersions) = n + 1
       /\ StackOfVersions' = SubSeq(StackOfVersions, 1, Len(StackOfVersions) - 1)
       /\ StackOfVersions[Len(StackOfVersions) - 1] = IF n = 1 THEN Bootstrap ELSE VersionAt[n - 1]
  BY <1>5, <1>9, <1>10, <1>11, Pop, StackIs
<1>13. policy[c].base = IF n = 1 THEN Bootstrap ELSE VersionAt[n - 1]
  <2>1. TopOf(Below(c), policy[c].base) BY <1>3 DEF IInv, ActiveVersionsChain
  <2>2. CASE n = 1
    <3>1. Below(c) = {} BY <1>1, <1>3, <1>4, <2>2, FS_EmptySet, FS_RemoveElement
    <3> QED BY <2>1, <2>2, <3>1 DEF TopOf
  <2>3. CASE n # 1
    <3>1. Below(c) # {} BY <1>3, <1>4, <1>5, <2>3, FS_EmptySet
    <3>2. PICK d \in Below(c) : /\ policy[c].base = policy[d].version
                                /\ \A e \in Below(c) : candidate[e].revision <= candidate[d].revision
      BY <2>1, <3>1 DEF TopOf
    <3>3. d \in InForce /\ d # c BY <1>3, <3>2
    <3>4. Below(d) = Below(c) \ {d}
      <4>1. \A e \in InForce : candidate[e].revision \in Nat
        BY DEF IInv, TypeOK, InForce, CandidateRow
      <4>2. \A e \in Below(c) \ {d} : candidate[e].revision # candidate[d].revision
        BY <1>3, <3>3 DEF IInv, CandidatesDiffer, InForce
      <4>3. \A e \in Below(c) \ {d} : candidate[e].revision < candidate[d].revision
        BY <1>3, <3>2, <3>3, <4>1, <4>2
      <4>4. c \notin Below(d) BY <3>3 DEF RolledBack
      <4>5. Below(d) \subseteq InForce \ {c} /\ d \notin Below(d)
        BY <3>3, <4>1, <4>4 DEF Below
      <4>6. Below(c) \ {d} \subseteq Below(d) BY <1>3, <4>3 DEF Below
      <4> QED BY <1>3, <4>5, <4>6
    <3>5. Height(d) = n - 2
      <4>1. IsFiniteSet(Below(c)) /\ Cardinality(Below(c)) = n - 1
        BY <1>1, <1>3, <1>4, FS_RemoveElement
      <4>2. Cardinality(Below(c) \ {d}) = n - 1 - 1 BY <3>2, <4>1, FS_RemoveElement
      <4> QED BY <1>5, <3>4, <4>2 DEF Height
    <3>6. Height(d) + 1 = n - 1 BY <1>5, <3>5
    <3>7. VersionAt[n - 1] = policy[d].version BY <3>3, <3>6, VersionAtHeight
    <3> QED BY <2>3, <3>2, <3>7
  <2> QED BY <2>2, <2>3
<1>14. Len(StackOfVersions) > 1 BY <1>5, <1>12
<1> QED BY <1>3, <1>8, <1>12, <1>13, <1>14 DEF Stack!Rollback

\* Every step is one of the stack, or leaves it alone.
LEMMA StackStep ==
  ASSUME IInv, HeightsFull, [ReviewNext]_allVars
  PROVE  HeightsFull' /\ [Stack!Next]_(Stack!vars)
<1>i. IInv' BY NextIInv
<1>1. CASE LessonsGrow
  <2>1. Unmoved /\ policy' = policy BY <1>1 DEF LessonsGrow, Unmoved, InForce, Below
  <2> QED BY <2>1, StackStays
<1>2. CASE Abort
  <2>1. Unmoved /\ policy' = policy BY <1>2 DEF Abort, Unmoved, InForce, Below, control
  <2> QED BY <2>1, StackStays
<1>3. ASSUME NEW c \in Candidates, NEW action \in Actions, Begin(c, action)
      PROVE  HeightsFull' /\ [Stack!Next]_(Stack!vars)
  <2>1. Unmoved /\ policy' = policy BY <1>3 DEF Begin, Unmoved, InForce, Below, control
  <2> QED BY <2>1, StackStays
<1>4. ASSUME NEW c \in Candidates, NEW action \in Actions, Deny(c, action)
      PROVE  HeightsFull' /\ [Stack!Next]_(Stack!vars)
  <2>1. candidate \in [Candidates -> CandidateRow] BY DEF IInv, TypeOK
  <2>2. InForce' = InForce /\ \A d \in InForce : candidate'[d] = candidate[d]
    BY <1>4, <2>1 DEF Deny, InForce
  <2>3. Unmoved /\ policy' = policy BY <1>4, <2>2 DEF Deny, Unmoved, Below, control
  <2> QED BY <2>3, StackStays
<1>5. ASSUME NEW c \in Candidates, NEW action \in Actions, Commit(c, action)
      PROVE  HeightsFull' /\ [Stack!Next]_(Stack!vars)
  <2>1. CommitFacts(c, action) /\ policy' = policy BY <1>5, CommitDoes DEF CommitFacts
  <2>2. CASE action \in {"APPROVE", "REJECT"} BY <1>5, <2>1, <2>2, CommitMoves, StackStays
  <2>3. CASE action = "ACTIVATE"
    <3>1. Activated(c) BY <1>5, <2>1, <2>3, CommitMoves
    <3>2. policy[c] \in PolicyRow BY DEF IInv, TypeOK
    <3>3. policy[c].version \in Versions BY <3>2 DEF PolicyRow
    <3> QED BY <1>i, <2>1, <3>1, <3>3, ActivationPushes DEF Stack!Next
  <2>4. CASE action = "ROLLBACK"
    <3>1. RolledBack(c) BY <1>5, <2>1, <2>4, CommitMoves
    <3> QED BY <1>i, <2>1, <3>1, RollbackPops DEF Stack!Next
  <2> QED BY <2>2, <2>3, <2>4 DEF Actions
<1> QED BY <1>1, <1>2, <1>3, <1>4, <1>5, LessonSteps DEF Promotes

\* At the start only the bootstrap version is on the stack.
LEMMA InitStack == ReviewInit => HeightsFull /\ Stack!Init
<1> SUFFICES ASSUME ReviewInit PROVE HeightsFull /\ Stack!Init
  OBVIOUS
<1>1. InForce = {} BY DEF ReviewInit, Init, InForce
<1>2. Cardinality(InForce) = 0 BY <1>1, FS_EmptySet
<1>3. VersionAt = <<>> BY <1>2 DEF VersionAt
<1>4. StackOfVersions = <<Bootstrap>>
  <2>1. <<Bootstrap>> \in Seq(Versions) BY PromotionAssumption
  <2> QED BY <1>3, <2>1, StackIs
<1> QED BY <1>2, <1>4 DEF HeightsFull, Stack!Init, ReviewInit, Init

\* Promotion implements the stack of versions: an activation puts a version on
\* top of those in force, and a rollback restores exactly the one it replaced.
THEOREM PromotionImplementsStack == ReviewSpec => StackSpec
<1>1. ReviewInit => IInv /\ HeightsFull /\ Stack!Init BY InitIInv, InitStack
<1>2. IInv /\ HeightsFull /\ [ReviewNext]_allVars =>
        IInv' /\ HeightsFull' /\ [Stack!Next]_(Stack!vars)
  BY NextIInv, StackStep
<1> QED BY <1>1, <1>2, PTL DEF ReviewSpec, StackSpec, Stack!Spec
-----------------------------------------------------------------------------
(* What reviews write *)

Seeded(l) == \E r \in replays : r.lesson = l /\ r.author = "outside"

\* No lesson was replayed before one was brought from outside, and the replays
\* counted for a lesson are on record.
SeedsFirst ==
  /\ \A r \in replays : Seeded(r.lesson)
  /\ \A l \in Lessons : lesson[l].replays > 0 => \E r \in replays : r.lesson = l

\* An outcome is what its review computed at its cutoff, from a decision that
\* had matured; its error is in the book, and so is every replayed lesson.
OutcomesComputed ==
  /\ review \in [Reviews -> Cutoffs \cup {None}]
  /\ book \in [Lessons -> Nat \cup {None}]
  /\ \A o \in outcomes : \E w \in Reviews, d \in Decisions :
       review[w] \in Cutoffs /\ o = Outcome(w, d, review[w])
  /\ \A o \in outcomes : o.category \in Lessons => book[o.category] # None
  /\ \A r \in replays : r.author = "review" =>
       /\ r.lesson \in Lessons /\ book[r.lesson] # None
       /\ \A d \in r.decisions : book[r.lesson] < Made[d]

ReviewInv == SeedsFirst /\ OutcomesComputed

\* A nonempty set of numbers has a least one: the segments below its members are
\* finite sets, and those are well founded by inclusion.
LEMMA LeastNatural ==
  ASSUME NEW S \in SUBSET Nat, S # {}
  PROVE  \E n \in S : \A m \in S : n <= m
<1> DEFINE T == {0..(n - 1) : n \in S}
<1>1. T \subseteq FiniteSubsetsOf(Nat) /\ T # {}
  <2>1. \A n \in S : 0..(n - 1) \subseteq Nat /\ IsFiniteSet(0..(n - 1))
    BY FS_Interval
  <2> QED BY <2>1 DEF FiniteSubsetsOf
<1>2. IsWellFoundedOn(StrictSubsetOrdering(Nat), FiniteSubsetsOf(Nat))
  BY FS_StrictSubsetOrderingWellFounded
<1>3. PICK x \in T : \A y \in T : ~ (<<y, x>> \in StrictSubsetOrdering(Nat))
  BY <1>1, <1>2, WFMin
<1>4. PICK n \in S : x = 0..(n - 1) BY <1>3
<1>5. ASSUME NEW m \in S, m < n PROVE FALSE
  <2>1. 0..(m - 1) \in T OBVIOUS
  <2>2. 0..(m - 1) \subseteq 0..(n - 1) /\ m \in 0..(n - 1) /\ m \notin 0..(m - 1)
    BY <1>5
  <2>3. 0..(m - 1) \in SUBSET Nat /\ x \in SUBSET Nat BY <1>4
  <2>4. <<0..(m - 1), x>> \in StrictSubsetOrdering(Nat)
    BY <1>4, <2>2, <2>3 DEF StrictSubsetOrdering
  <2> QED BY <1>3, <2>1, <2>4
<1> QED BY <1>5
\* Among some bars there are first ones.
LEMMA FirstExists ==
  ASSUME NEW S \in SUBSET Prices, S # {}
  PROVE  /\ FirstOf(S) # {}
         /\ Earliest(S) \in FirstOf(S)
<1> DEFINE E == {x.event : x \in S}
<1>1. E \in SUBSET Nat /\ E # {} BY ReviewAssumption
<1>2. PICK n \in E : \A m \in E : n <= m BY <1>1, LeastNatural
<1>3. FirstOf(S) # {} BY <1>2 DEF FirstOf
<1> QED BY <1>3 DEF Earliest

\* A horizon that had a bar at one cutoff has the same first bars at a later
\* one, unless a bar that counts became available in between.
LEMMA HorizonIsSettled ==
  ASSUME NEW d \in Decisions, NEW h \in Horizons, NEW b \in Nat, NEW c \in Nat,
         b <= c, From(d, h, b) # {}, ~ RevisedSince(d, h, b)
  PROVE  Return(d, h, b) = Return(d, h, c)
<1> DEFINE E == Earliest(From(d, h, b)).event
<1>0. Made[d] + h \in Nat BY ReviewAssumption
<1>a. \A x \in Prices : x.event \in Nat /\ x.available \in Nat BY ReviewAssumption
<1>b. From(d, h, b) \in SUBSET Prices /\ From(d, h, c) \in SUBSET Prices
  BY DEF From, Visible
<1>1. Earliest(From(d, h, b)) \in FirstOf(From(d, h, b)) /\ FirstOf(From(d, h, b)) # {}
  BY <1>b, FirstExists
<1>2. /\ Earliest(From(d, h, b)) \in From(d, h, b)
      /\ E \in Nat /\ \A y \in From(d, h, b) : E <= y.event
  BY <1>1, <1>a, <1>b DEF FirstOf
<1>3. \A x \in Prices : Made[d] + h <= x.event /\ x.event <= E => x.available <= b
  BY <1>0, <1>2, <1>a DEF RevisedSince
<1>4. E <= b BY <1>2 DEF From, Visible
<1> HIDE DEF E
<1>5. ASSUME NEW x \in Prices, x.event <= E
      PROVE  x \in From(d, h, b) <=> x \in From(d, h, c)
  <2>1. CASE x.event < Made[d] + h BY <1>0, <1>a, <2>1 DEF From
  <2>2. CASE x.event >= Made[d] + h
    <3>1. \A y \in Prices : y.event = x.event => y.available <= b /\ y.available <= c
      BY <1>0, <1>3, <1>5, <1>a, <2>2
    <3>2. x.event <= b /\ x.event <= c BY <1>2, <1>4, <1>5, <1>a
    <3>3. x \in Visible(b) <=> x \in Visible(c)
      BY <3>1, <3>2 DEF Visible
    <3> QED BY <2>2, <3>3 DEF From
  <2> QED BY <1>0, <1>a, <2>1, <2>2
<1>6. \E x \in From(d, h, c) : x.event = E
  BY <1>2, <1>5, <1>b DEF E
<1>7. \A x \in Prices : x.event > E \/ x.event <= E BY <1>a, <1>2
<1>8. \A y \in From(d, h, c) : E <= y.event
  BY <1>2, <1>5, <1>7, <1>a, <1>b
<1>9. ASSUME NEW x \in Prices
      PROVE  /\ x \in FirstOf(From(d, h, b)) <=> x \in From(d, h, b) /\ x.event = E
             /\ x \in FirstOf(From(d, h, c)) <=> x \in From(d, h, c) /\ x.event = E
  <2>1. \E y \in From(d, h, b) : y.event = E BY <1>2 DEF E
  <2> QED BY <1>2, <1>6, <1>8, <1>a, <1>b, <2>1 DEF FirstOf
<1>10. FirstOf(From(d, h, b)) \subseteq Prices /\ FirstOf(From(d, h, c)) \subseteq Prices
  BY <1>b DEF FirstOf
<1>11. \A x \in Prices : x.event = E => x.event <= E BY <1>a
<1>12. \A x \in Prices : x \in FirstOf(From(d, h, b)) <=> x \in FirstOf(From(d, h, c))
  BY <1>5, <1>9, <1>11
<1>13. FirstOf(From(d, h, b)) = FirstOf(From(d, h, c)) BY <1>10, <1>12
<1> QED BY <1>13 DEF Return, Earliest

\* Of two cutoffs the first is the smaller.
LEMMA MinOfTwo ==
  ASSUME NEW b \in Nat, NEW c \in Nat, b <= c
  PROVE  Min({b, c}) = b /\ Min({c, b}) = b
<1>1. \E x \in {b, c} : \A y \in {b, c} : x <= y OBVIOUS
<1>2. Min({b, c}) \in {b, c} /\ \A y \in {b, c} : Min({b, c}) <= y
  BY <1>1 DEF Min
<1>3. {c, b} = {b, c} OBVIOUS
<1> QED BY <1>2, <1>3

\* What a review writes of a decision names the decision and the review.
LEMMA OutcomeFields ==
  ASSUME NEW w, NEW d, NEW c
  PROVE  /\ Outcome(w, d, c).review = w
         /\ Outcome(w, d, c).decision = d
         /\ Outcome(w, d, c).category = Category(d, c)
         /\ DOMAIN Outcome(w, d, c).returns = Judged(d, c)
         /\ \A h \in Judged(d, c) : Outcome(w, d, c).returns[h] = Return(d, h, c)
BY DEF Outcome

\* The invariant says that reviews agree, and whose lessons stand behind what
\* went through.
LEMMA ReviewInvImplies == IInv /\ ReviewInv => ReviewsAgree /\ OnlySeededLessonsBack
<1> SUFFICES ASSUME IInv, ReviewInv PROVE ReviewsAgree /\ OnlySeededLessonsBack
  OBVIOUS
<1>a. Cutoffs \subseteq Nat BY ReviewAssumption
<1>1. ASSUME NEW o \in outcomes, NEW p \in outcomes, o.decision = p.decision,
             NEW h \in DOMAIN o.returns \cap DOMAIN p.returns
      PROVE  \/ o.returns[h] = p.returns[h]
             \/ RevisedSince(o.decision, h, Min({review[o.review], review[p.review]}))
  <2>1. PICK w \in Reviews, d \in Decisions :
          review[w] \in Cutoffs /\ o = Outcome(w, d, review[w])
    BY DEF ReviewInv, OutcomesComputed
  <2>2. PICK v \in Reviews, e \in Decisions :
          review[v] \in Cutoffs /\ p = Outcome(v, e, review[v])
    BY DEF ReviewInv, OutcomesComputed
  <2> DEFINE b == review[w]
             c == review[v]
  <2>3. /\ d = e /\ o.decision = d /\ review[o.review] = b /\ review[p.review] = c
        /\ o.returns[h] = Return(d, h, b) /\ p.returns[h] = Return(d, h, c)
        /\ h \in Judged(d, b) /\ h \in Judged(d, c)
    BY <1>1, <2>1, <2>2, OutcomeFields
  <2>4. b \in Nat /\ c \in Nat BY <1>a, <2>1, <2>2
  <2>5. h \in Horizons /\ From(d, h, b) # {} /\ From(d, h, c) # {}
    BY <2>3 DEF Judged, MaturedHorizons
  <2> HIDE DEF b, c
  <2>6. CASE b <= c BY <2>3, <2>4, <2>5, <2>6, MinOfTwo, HorizonIsSettled
  <2>7. CASE c <= b BY <2>3, <2>4, <2>5, <2>7, MinOfTwo, HorizonIsSettled
  <2> QED BY <2>4, <2>6, <2>7
<1>2. ReviewsAgree
  <2>1. \A o \in outcomes : o.category \in Lessons => book[o.category] # None
    BY DEF ReviewInv, OutcomesComputed
  <2>2. \A r \in replays : r.author = "review" => \A d \in r.decisions : book[r.lesson] < Made[d]
    BY DEF ReviewInv, OutcomesComputed
  <2> QED BY <1>1, <2>1, <2>2 DEF ReviewsAgree
<1>3. OnlySeededLessonsBack
  <2>1. PromotedOnApprovedLessons /\ TypeOK BY DEF IInv, LessonsBack
  <2>2. \A c \in Candidates : policy[c].lessons \subseteq Lessons
    BY <2>1 DEF TypeOK, PolicyRow
  <2> QED BY <2>1, <2>2 DEF OnlySeededLessonsBack, PromotedOnApprovedLessons, ReviewInv, SeedsFirst, Seeded
<1> QED BY <1>2, <1>3

\* Before the first review nothing is written.
LEMMA InitReviewInv == ReviewInit => ReviewInv
<1> SUFFICES ASSUME ReviewInit PROVE ReviewInv
  OBVIOUS
<1>1. SeedsFirst BY DEF ReviewInit, Init, SeedsFirst, NewLesson
<1>2. OutcomesComputed BY DEF ReviewInit, OutcomesComputed
<1> QED BY <1>1, <1>2 DEF ReviewInv
\* Steps that leave the tables of the reviews, and the counts of replays, alone.
LEMMA ReviewTablesStay ==
  ASSUME ReviewInv, UNCHANGED <<review, outcomes, book, replays>>,
         \A l \in Lessons : lesson'[l].replays = lesson[l].replays
  PROVE  ReviewInv'
<1>1. SeedsFirst' BY DEF ReviewInv, SeedsFirst, Seeded
<1>2. OutcomesComputed' BY DEF ReviewInv, OutcomesComputed
<1> QED BY <1>1, <1>2 DEF ReviewInv

\* A replay is counted for a lesson only when it is written.
LEMMA CountedOnes ==
  ASSUME SeedsFirst, NEW new, lesson' = Counted(new), replays' = replays \cup new
  PROVE  \A l \in Lessons : lesson'[l].replays > 0 => \E r \in replays' : r.lesson = l
<1> TAKE l \in Lessons
<1>1. CASE \E r \in new : r.lesson = l BY <1>1
<1>2. CASE ~ \E r \in new : r.lesson = l
  <2>1. lesson'[l] = lesson[l] BY <1>2 DEF Counted
  <2> QED BY <2>1 DEF SeedsFirst
<1> QED BY <1>1, <1>2

\* A review's outcomes are computed at its cutoff; it files a lesson for each
\* error, and replays only lessons that were replayed before, on what came after.
LEMMA ReviewRunsInv ==
  ASSUME IInv, ReviewInv, NEW w \in Reviews, NEW c \in Cutoffs, ReviewRuns(w, c)
  PROVE  ReviewInv'
<1>a. SeedsFirst /\ OutcomesComputed BY DEF ReviewInv
<1>b. Cutoffs \subseteq Nat /\ None \notin Nat /\ Made \in [Decisions -> Nat]
  BY ReviewAssumption
<1>c. /\ review[w] = None
      /\ review' = [review EXCEPT ![w] = c]
      /\ outcomes' = outcomes \cup {Outcome(w, d, c) : d \in Matured(c)}
      /\ book' = [l \in Lessons |-> IF l \in Filed(c) /\ book[l] = None THEN c ELSE book[l]]
      /\ replays' = replays \cup NewReplays(c)
      /\ lesson' = Counted(NewReplays(c))
  BY DEF ReviewRuns
<1>d. Matured(c) \subseteq Decisions BY DEF Matured, Frozen
<1>1. ASSUME NEW r \in NewReplays(c)
      PROVE  /\ r.lesson \in Lessons /\ book[r.lesson] # None
             /\ \A d \in r.decisions : book[r.lesson] < Made[d]
             /\ \E q \in replays : q.lesson = r.lesson
  <2>1. PICK l \in Replayable(c) : r = Replay(l, c, Eligible(l, c), "review")
    BY DEF NewReplays
  <2>2. r.lesson = l /\ r.decisions = Eligible(l, c) BY <2>1 DEF Replay
  <2>3. l \in Lessons /\ book[l] # None /\ HasPriorReplay(l, c) BY DEF Replayable
  <2> QED BY <2>2, <2>3 DEF Eligible, HasPriorReplay
<1>2. \A l \in Lessons : book[l] # None => book'[l] = book[l] BY <1>c
<1>3. SeedsFirst'
  <2>1. \A r \in replays' : \E q \in replays : q.lesson = r.lesson BY <1>1, <1>c
  <2>2. \A r \in replays' : Seeded(r.lesson)' BY <1>a, <1>c, <2>1 DEF SeedsFirst, Seeded
  <2>3. \A l \in Lessons : lesson'[l].replays > 0 => \E r \in replays' : r.lesson = l
    BY <1>a, <1>c, CountedOnes
  <2> QED BY <2>2, <2>3 DEF SeedsFirst
<1>4. OutcomesComputed'
  <2>1. review' \in [Reviews -> Cutoffs \cup {None}]
    BY <1>a, <1>c DEF OutcomesComputed
  <2>2. book' \in [Lessons -> Nat \cup {None}]
    BY <1>a, <1>b, <1>c DEF OutcomesComputed
  <2>3. ASSUME NEW o \in outcomes'
        PROVE  /\ \E v \in Reviews, d \in Decisions :
                    review'[v] \in Cutoffs /\ o = Outcome(v, d, review'[v])
               /\ o.category \in Lessons => book'[o.category] # None
    <3>1. CASE o \in outcomes
      <4>1. PICK v \in Reviews, d \in Decisions : review[v] \in Cutoffs /\ o = Outcome(v, d, review[v])
        BY <1>a, <3>1 DEF OutcomesComputed
      <4>2. v # w BY <1>b, <1>c, <4>1
      <4>3. review'[v] = review[v] BY <1>a, <1>c, <4>2 DEF OutcomesComputed
      <4>4. o.category \in Lessons => book[o.category] # None BY <1>a, <3>1 DEF OutcomesComputed
      <4> QED BY <1>2, <4>1, <4>3, <4>4
    <3>2. CASE o \notin outcomes
      <4>1. PICK d \in Matured(c) : o = Outcome(w, d, c) BY <1>c, <2>3, <3>2
      <4>2. review'[w] = c BY <1>a, <1>c DEF OutcomesComputed
      <4>3. o.category = Category(d, c) BY <4>1, OutcomeFields
      <4>4. o.category \in Lessons => o.category \in Filed(c) BY <4>3 DEF Filed
      <4>5. o.category \in Lessons => book'[o.category] # None BY <1>b, <1>c, <4>4
      <4> QED BY <1>d, <4>1, <4>2, <4>5
    <3> QED BY <3>1, <3>2
  <2>4. ASSUME NEW r \in replays', r.author = "review"
        PROVE  /\ r.lesson \in Lessons /\ book'[r.lesson] # None
               /\ \A d \in r.decisions : book'[r.lesson] < Made[d]
    <3>1. /\ r.lesson \in Lessons /\ book[r.lesson] # None
          /\ \A d \in r.decisions : book[r.lesson] < Made[d]
      BY <1>1, <1>a, <1>c, <2>4 DEF OutcomesComputed
    <3> QED BY <1>2, <3>1
  <2> QED BY <2>1, <2>2, <2>3, <2>4 DEF OutcomesComputed
<1> QED BY <1>3, <1>4 DEF ReviewInv

\* The first replay of a lesson is brought from outside.
LEMMA SeedsInv ==
  ASSUME IInv, ReviewInv, NEW l \in Lessons, Seeds(l, Decisions)
  PROVE  ReviewInv'
<1> DEFINE new == Replay(l, now, Decisions, "outside")
<1>1. new.lesson = l /\ new.author = "outside" BY DEF Replay
<1>2. /\ lesson' = Counted({new}) /\ replays' = replays \cup {new}
      /\ UNCHANGED <<review, outcomes, book>>
  BY DEF Seeds
<1> HIDE DEF new
<1>3. SeedsFirst'
  <2>1. \A r \in replays' : Seeded(r.lesson)' BY <1>1, <1>2 DEF ReviewInv, SeedsFirst, Seeded
  <2>2. \A k \in Lessons : lesson'[k].replays > 0 => \E r \in replays' : r.lesson = k
    BY <1>2, CountedOnes DEF ReviewInv
  <2> QED BY <2>1, <2>2 DEF SeedsFirst
<1>4. OutcomesComputed' BY <1>1, <1>2 DEF ReviewInv, OutcomesComputed
<1> QED BY <1>3, <1>4 DEF ReviewInv

\* Every step keeps what reviews wrote.
LEMMA NextReviewInv == ASSUME IInv, ReviewInv, [ReviewNext]_allVars PROVE ReviewInv'
<1>1. CASE UNCHANGED <<review, outcomes, book, replays, lesson>>
  BY <1>1, ReviewTablesStay
<1>2. CASE Tick \/ UNCHANGED allVars BY <1>1, <1>2 DEF Tick, vars, allVars
<1>3. CASE Promotes /\ UNCHANGED reviewVars
  <2>1. UNCHANGED lesson BY <1>3 DEF Promotes, Begin, Commit, Deny, Abort
  <2> QED BY <1>1, <1>3, <2>1 DEF reviewVars
<1>4. ASSUME NEW l \in Lessons, NEW verdict \in Verdicts, Decides(l, verdict) PROVE ReviewInv'
  <2>1. lesson \in [Lessons -> LessonRow] BY DEF IInv, TypeOK
  <2>2. PICK latest : lesson' = [lesson EXCEPT ![l].verdict = latest,
                                               ![l].approved = @ \/ verdict = "APPROVE"]
    BY <1>4, Zenon DEF Decides, DecideLesson
  <2>3. \A k \in Lessons : lesson'[k].replays = lesson[k].replays
    BY <2>1, <2>2 DEF LessonRow
  <2> QED BY <1>4, <2>3, ReviewTablesStay DEF Decides
<1>5. ASSUME NEW l \in Lessons, Seeds(l, Decisions) PROVE ReviewInv' BY <1>5, SeedsInv
<1>6. ASSUME NEW w \in Reviews, NEW c \in Cutoffs, ReviewRuns(w, c) PROVE ReviewInv'
  BY <1>6, ReviewRunsInv
<1> QED BY <1>2, <1>3, <1>4, <1>5, <1>6 DEF ReviewNext

\* In whatever order reviews run, two that judged a decision agree on its return
\* over a horizon unless a bar of that time was revised in between, each error
\* is in the book, and lessons are replayed only on decisions made after them.
THEOREM ReviewsDoAgree == ReviewSpec => []ReviewsAgree
<1>1. ReviewInit => IInv /\ ReviewInv BY InitIInv, InitReviewInv
<1>2. IInv /\ ReviewInv /\ [ReviewNext]_allVars => IInv' /\ ReviewInv'
  BY NextIInv, NextReviewInv
<1>3. IInv /\ ReviewInv => ReviewsAgree BY ReviewInvImplies
<1> QED BY <1>1, <1>2, <1>3, PTL DEF ReviewSpec

\* No review writes the first replay of a lesson: what went through rests on
\* lessons whose first replay was brought from outside.
THEOREM SeededLessonsBackPolicies == ReviewSpec => []OnlySeededLessonsBack
<1>1. ReviewInit => IInv /\ ReviewInv BY InitIInv, InitReviewInv
<1>2. IInv /\ ReviewInv /\ [ReviewNext]_allVars => IInv' /\ ReviewInv'
  BY NextIInv, NextReviewInv
<1>3. IInv /\ ReviewInv => OnlySeededLessonsBack BY ReviewInvImplies
<1> QED BY <1>1, <1>2, <1>3, PTL DEF ReviewSpec

-----------------------------------------------------------------------------
(* The research runs: what a graph holds at each node, and what is stored. *)

Ids == {Id(x) : x \in Records}

AskedFor == {"company_facts", "price_bars", "company_news",
             "option_aggregates", "target_consensus"}

GapRow == {Gap(kind, f) : kind \in {"UNAVAILABLE", "MISSING"}, f \in AskedFor}
            \cup {Gap("CONFLICTED", "median_target")}

Answer == [feed : Feeds, provider : {"ALPACA", "MULTIPLE"} \cup {x.provider : x \in Records},
           records : SUBSET Records, degraded : BOOLEAN,
           status : {"OK", "NOT_FOUND", "UNAVAILABLE"}]

ClaimRow == {ClaimFor(x) : x \in Records}

Sides == {"NONE", "ABSTAIN", "BULLISH", "NEUTRAL"}

Graph == [status : {"QUEUED", "RUNNING", "COMPLETED", "FAILED"}, attempts : Nat,
          pc : {"planner", "collect", "judge", "reflect", "score", "verify", "diff",
                "frozen", "storing"},
          admission : {"full", "gap", "none"}, targets : SUBSET Feeds,
          responses : SUBSET Answer, evidence : SUBSET Records, claims : SUBSET ClaimRow,
          gaps : SUBSET GapRow, conflict : SUBSET Ids, reflections : Nat,
          confidence : Int, opinion : Sides, known : SUBSET (Ids \cup Pins)]

\* An answer is of its feed, within the cutoff, and empty only with a gap.
Answered(r, p) ==
  /\ \A x \in p.records : x.feed = p.feed /\ x.available <= Cutoff[r]
  /\ GapsOf(p) = {} => p.records # {}

\* No feed is forgotten by a later node.
Asked(g) ==
  g.pc # "planner" =>
    \A f \in Feeds : \/ g.pc = "collect" /\ f \in g.targets
                     \/ \E p \in g.responses : p.feed = f

Supported(r, g) ==
  /\ \A x \in g.evidence : x.available <= Cutoff[r]
  /\ \A x, y \in g.evidence : Id(x) = Id(y) => x = y
  /\ g.claims = {ClaimFor(x) : x \in g.evidence}

GapsRecorded(g) ==
  g.pc \notin {"planner", "collect"} =>
    \A f \in Feeds : (\E x \in g.evidence : x.feed = f) \/ \E gap \in g.gaps : gap.field = f

Scored == {"score", "verify", "diff", "frozen", "storing"}
Weighed == {"verify", "diff", "frozen", "storing"}
Verified == {"diff", "frozen", "storing"}

ConflictTold(g) ==
  g.pc \in Scored => /\ g.conflict = Conflicts(g)
                     /\ g.conflict # {} => Gap("CONFLICTED", "median_target") \in g.gaps

Sided(g) ==
  g.pc \in Weighed => /\ g.confidence = 0 \/ g.confidence <= 8 - Cardinality(g.gaps)
                      /\ g.opinion # "ABSTAIN" => g.evidence # {}

Fresh(r, g) ==
  g.pc \in Verified /\ g.opinion # "ABSTAIN" =>
    \A x \in g.evidence : /\ Cutoff[r] - x.available <= MaxAge[x.feed]
                          /\ Id(x) \notin g.conflict

GraphInv(r, g) ==
  /\ g \in Graph
  /\ \A p \in g.responses : Answered(r, p)
  /\ Asked(g)
  /\ Supported(r, g)
  /\ GapsRecorded(g)
  /\ ConflictTold(g)
  /\ Sided(g)
  /\ Fresh(r, g)
  /\ g.status = "COMPLETED" => g.pc = "storing"
  /\ g.pc = "storing" => g.status \in {"RUNNING", "COMPLETED"}

DecisionOf(r, g, time) ==
  [run |-> r, opinion |-> g.opinion, confidence |-> g.confidence, gaps |-> g.gaps,
   links |-> {Link(g, x) : x \in g.evidence}, claims |-> g.claims, visible |-> time]
EvidenceRows == {EvidenceRow(x) : x \in Records}

Links == [evidence : Ids, relation : {"CONTRADICTS", "SUPPORTS"}]

DecisionRows == [run : Runs, opinion : Sides, confidence : Int, gaps : SUBSET GapRow,
                 links : SUBSET Links, claims : SUBSET ClaimRow, visible : Nat]

CorrectionRows == [previous : Runs, next : Runs, at : Nat]

StoreType ==
  rows \in [evidence : SUBSET EvidenceRows, claims : SUBSET ClaimRow, pins : SUBSET Pins,
            decisions : SUBSET DecisionRows, diffs : SUBSET CorrectionRows]

\* A decision is its run's only one, what the graph of the run came to, and all
\* that it cites is stored.
Decided(d) ==
  /\ research[d.run].status = "COMPLETED"
  /\ d = DecisionOf(d.run, research[d.run], d.visible)
  /\ d.claims \subseteq rows.claims
  /\ \A l \in d.links : \E e \in rows.evidence : e.id = l.evidence
  /\ \A e \in rows.decisions : e.run = d.run => e = d

StoreInv ==
  /\ StoreType
  /\ \A e, f \in rows.evidence : e.id = f.id => e = f
  /\ \A d \in rows.decisions : Decided(d)
  /\ \A r \in Runs : research[r].status = "COMPLETED" => \E d \in rows.decisions : d.run = r
  /\ \A r \in Runs : research[r].status = "RUNNING" /\ research[r].pc = "storing" =>
                       research[r].known \subseteq Present

CorrectionsInv ==
  /\ IsFiniteSet(rows.decisions)
  /\ \A c \in rows.diffs : Cutoff[c.previous] <= Cutoff[c.next]

ResearchInv ==
  /\ research \in [Runs -> Graph]
  /\ \A r \in Runs : GraphInv(r, research[r])
  /\ StoreInv
  /\ CorrectionsInv

-----------------------------------------------------------------------------
\* Of finitely many things with numbers there is one with the greatest.
LEMMA GreatestOf ==
  ASSUME NEW S, IsFiniteSet(S), S # {}, NEW f \in [S -> Nat]
  PROVE  \E x \in S : \A y \in S : f[y] <= f[x]
<1> DEFINE Above(x) == {y \in S : f[y] > f[x]}
           T == {Above(x) : x \in S}
<1>1. T \subseteq FiniteSubsetsOf(S) /\ T # {}
  <2>1. \A x \in S : Above(x) \in SUBSET S OBVIOUS
  <2>2. \A x \in S : IsFiniteSet(Above(x)) BY <2>1, FS_Subset
  <2> HIDE DEF Above
  <2>3. \A x \in S : Above(x) \in FiniteSubsetsOf(S) BY <2>1, <2>2 DEF FiniteSubsetsOf
  <2> QED BY <2>3
<1>2. IsWellFoundedOn(StrictSubsetOrdering(S), FiniteSubsetsOf(S))
  BY FS_StrictSubsetOrderingWellFounded
<1>3. PICK u \in T : \A v \in T : ~ (<<v, u>> \in StrictSubsetOrdering(S))
  BY <1>1, <1>2, WFMin
<1>4. PICK x \in S : u = Above(x) BY <1>3
<1>5. ASSUME NEW y \in S, f[y] > f[x] PROVE FALSE
  <2>1. Above(y) \in T OBVIOUS
  <2>2. Above(y) \subseteq Above(x) /\ y \in Above(x) /\ y \notin Above(y)
    BY <1>5
  <2>3. Above(y) \in SUBSET S /\ u \in SUBSET S BY <1>4
  <2>4. <<Above(y), u>> \in StrictSubsetOrdering(S)
    BY <1>4, <2>2, <2>3 DEF StrictSubsetOrdering
  <2> QED BY <1>3, <2>1, <2>4
<1> QED BY <1>5

\* There are finitely many gaps to tell.
LEMMA GapsAreFew ==
  ASSUME NEW G \in SUBSET GapRow
  PROVE  IsFiniteSet(G) /\ Cardinality(G) \in Nat
<1>1. IsFiniteSet(AskedFor)
  <2>1. IsFiniteSet({"company_facts"}) BY FS_Singleton
  <2>2. IsFiniteSet({"company_facts"} \cup {"price_bars"}) BY <2>1, FS_AddElement
  <2>3. IsFiniteSet({"company_facts"} \cup {"price_bars"} \cup {"company_news"})
    BY <2>2, FS_AddElement
  <2>4. IsFiniteSet({"company_facts"} \cup {"price_bars"} \cup {"company_news"}
                      \cup {"option_aggregates"})
    BY <2>3, FS_AddElement
  <2>5. IsFiniteSet({"company_facts"} \cup {"price_bars"} \cup {"company_news"}
                      \cup {"option_aggregates"} \cup {"target_consensus"})
    BY <2>4, FS_AddElement
  <2>6. AskedFor = {"company_facts"} \cup {"price_bars"} \cup {"company_news"}
                      \cup {"option_aggregates"} \cup {"target_consensus"}
    BY DEF AskedFor
  <2> QED BY <2>5, <2>6
<1>2. ASSUME NEW kind PROVE IsFiniteSet({Gap(kind, f) : f \in AskedFor})
  <2> DEFINE F == [f \in AskedFor |-> Gap(kind, f)]
             T == {Gap(kind, f) : f \in AskedFor}
  <2>1. F \in Surjection(AskedFor, T) BY DEF Surjection
  <2> QED BY <1>1, <2>1, FS_Surjection
<1>3. IsFiniteSet({Gap("UNAVAILABLE", f) : f \in AskedFor}
                    \cup {Gap("MISSING", f) : f \in AskedFor})
  BY <1>2, FS_Union
<1>4. IsFiniteSet({Gap("UNAVAILABLE", f) : f \in AskedFor}
                    \cup {Gap("MISSING", f) : f \in AskedFor}
                    \cup {Gap("CONFLICTED", "median_target")})
  BY <1>3, FS_AddElement
<1>5. GapRow = {Gap("UNAVAILABLE", f) : f \in AskedFor}
                 \cup {Gap("MISSING", f) : f \in AskedFor}
                 \cup {Gap("CONFLICTED", "median_target")}
  BY DEF GapRow
<1> QED BY <1>4, <1>5, FS_Subset, FS_CardinalityType

\* CorrectionRows replace a decision by one of no earlier cutoff, so that those of
\* the latest cutoff are active, or replaced one another.
LEMMA LatestIsActive ==
  ASSUME ResearchInv
  PROVE  SomeDecisionActive
<1> SUFFICES ASSUME NEW t \in 1..Cardinality(Runs)
             PROVE  LET visible == {d \in rows.decisions : d.visible <= t}
                    IN visible # {} =>
                         Active(t) # {} \/ \E S \in SUBSET visible : S # {} /\ GoesRound(S, t)
  BY DEF SomeDecisionActive
<1> DEFINE V == {d \in rows.decisions : d.visible <= t}
<1> SUFFICES ASSUME V # {}, Active(t) = {}
             PROVE  \E S \in SUBSET V : S # {} /\ GoesRound(S, t)
  OBVIOUS
<1>1. /\ \A d \in rows.decisions : d.run \in Runs /\ d.visible \in Nat
      /\ \A c \in rows.diffs : c.previous \in Runs /\ c.next \in Runs /\ c.at \in Nat
  BY DEF ResearchInv, StoreInv, StoreType, DecisionRows, CorrectionRows
<1>2. \A c \in rows.diffs : Cutoff[c.previous] <= Cutoff[c.next]
  BY DEF ResearchInv, CorrectionsInv
<1>3. Cutoff \in [Runs -> Nat] /\ Cardinality(Runs) \in Nat
  BY ResearchAssumption, FS_CardinalityType
<1>4. \A d \in V : \E e \in V : \E c \in rows.diffs :
         c.previous = d.run /\ c.next = e.run /\ c.at <= t
  BY <1>1, <1>3 DEF Active
<1>5. IsFiniteSet(V) BY FS_Subset DEF ResearchInv, CorrectionsInv
<1>6. PICK top \in V : \A d \in V : Cutoff[d.run] <= Cutoff[top.run]
  <2> DEFINE F == [d \in V |-> Cutoff[d.run]]
  <2>1. F \in [V -> Nat] BY <1>1, <1>3
  <2>2. PICK x \in V : \A y \in V : F[y] <= F[x] BY <1>5, <2>1, GreatestOf
  <2> QED BY <2>2
<1> DEFINE S == {d \in V : Cutoff[d.run] = Cutoff[top.run]}
<1>7. S \in SUBSET V /\ S # {} OBVIOUS
<1>8. ASSUME NEW d \in S
      PROVE  \E e \in S : /\ Cutoff[e.run] = Cutoff[d.run]
                          /\ \E c \in rows.diffs : /\ c.previous = d.run /\ c.next = e.run
                                                   /\ c.at <= t
  <2>1. PICK e \in V : \E c \in rows.diffs : c.previous = d.run /\ c.next = e.run /\ c.at <= t
    BY <1>4
  <2>2. PICK c \in rows.diffs : c.previous = d.run /\ c.next = e.run /\ c.at <= t BY <2>1
  <2>3. Cutoff[d.run] <= Cutoff[e.run] BY <1>2, <2>2
  <2>4. Cutoff[e.run] = Cutoff[top.run]
    BY <1>1, <1>3, <1>6, <2>3
  <2> QED BY <2>2, <2>4
<1>9. GoesRound(S, t) BY <1>8 DEF GoesRound
<1> QED BY <1>7, <1>9

\* A feed is answered in its own name, with what was known at the cutoff.
LEMMA FetchAnswers ==
  ASSUME NEW r \in Runs, NEW f \in Feeds, research[r].admission \in {"full", "gap", "none"}
  PROVE  Fetch(r, f) \in Answer /\ Fetch(r, f).feed = f /\ Answered(r, Fetch(r, f))
<1>1. \A x \in LatestVisible(f, Cutoff[r]) :
         x \in Records /\ x.feed = f /\ x.available <= Cutoff[r]
  BY DEF LatestVisible, Seen, Stored
<1>2. CASE f = "price_bars"
  <2> DEFINE found == Response("price_bars", "ALPACA", LatestVisible("price_bars", Cutoff[r]))
  <2>1. found \in Answer /\ found.feed = f /\ Answered(r, found)
    BY <1>1, <1>2 DEF Response, Answer, Answered, GapsOf
  <2>2. found.records \subseteq Records /\ found.degraded = FALSE BY <1>1, <1>2 DEF Response
  <2> HIDE DEF found
  <2>3. ASSUME NEW q, q = [found EXCEPT !.degraded = TRUE]
        PROVE  q \in Answer /\ q.feed = f /\ Answered(r, q)
    BY <2>1, <2>3 DEF Answer, Answered, GapsOf
  <2>4. ASSUME NEW q, q = [found EXCEPT !.records = {}, !.status = "UNAVAILABLE"]
        PROVE  q \in Answer /\ q.feed = f /\ Answered(r, q)
    BY <2>1, <2>4 DEF Answer, Answered, GapsOf
  <2>5. FetchBars(r) = CASE research[r].admission = "full" -> found
                         [] research[r].admission = "gap"  -> [found EXCEPT !.degraded = TRUE]
                         [] research[r].admission = "none" ->
                              [found EXCEPT !.records = {}, !.status = "UNAVAILABLE"]
    BY DEF FetchBars, found
  <2>6. \/ FetchBars(r) = found
        \/ FetchBars(r) = [found EXCEPT !.degraded = TRUE]
        \/ FetchBars(r) = [found EXCEPT !.records = {}, !.status = "UNAVAILABLE"]
    BY <2>5
  <2>7. Fetch(r, f) = FetchBars(r) BY <1>2 DEF Fetch
  <2> QED BY <2>1, <2>3, <2>4, <2>6, <2>7
<1>3. CASE f # "price_bars"
  <2> DEFINE found == LatestVisible(f, Cutoff[r])
             permitted == {x \in found : f \in AlpacaFeeds => x.provider = "ALPACA"}
             providers == {x.provider : x \in found}
             label == IF Cardinality(providers) # 1 THEN "MULTIPLE"
                      ELSE IF f \in AlpacaFeeds THEN "ALPACA"
                      ELSE CHOOSE p \in providers : TRUE
  <2>1. label \in {"ALPACA", "MULTIPLE"} \cup {x.provider : x \in Records}
    <3>1. Cardinality(providers) = 1 => \E p \in providers : TRUE BY FS_EmptySet
    <3>2. providers \subseteq {x.provider : x \in Records} BY <1>1
    <3> QED BY <3>1, <3>2
  <2>2. Fetch(r, f) = Response(f, label, permitted) BY <1>3 DEF Fetch, FetchRecords
  <2>3. permitted \subseteq Records /\ \A x \in permitted : x.feed = f /\ x.available <= Cutoff[r]
    BY <1>1
  <2> HIDE DEF label, permitted
  <2> QED BY <2>1, <2>2, <2>3 DEF Response, Answer, Answered, GapsOf
<1> QED BY <1>2, <1>3

\* A collected feed is answered from then on.
LEMMA CollectingKeeps ==
  ASSUME NEW r \in Runs, NEW g, GraphInv(r, g), g.pc = "collect", NEW f \in g.targets,
         NEW p \in Answer, p.feed = f, Answered(r, p)
  PROVE  GraphInv(r, [g EXCEPT !.targets = @ \ {f}, !.responses = Merge(@, p)])
<1> DEFINE h == [g EXCEPT !.targets = @ \ {f}, !.responses = Merge(@, p)]
<1>1. g \in Graph BY DEF GraphInv
<1>2. /\ h \in Graph
      /\ h.targets = g.targets \ {f} /\ h.responses = Merge(g.responses, p)
      /\ h.pc = g.pc /\ h.evidence = g.evidence /\ h.claims = g.claims /\ h.status = g.status
  BY <1>1 DEF Graph, Merge
<1> HIDE DEF h
<1>3. \A q \in h.responses : Answered(r, q) BY <1>2 DEF GraphInv, Merge
<1>4. Asked(h) BY <1>2 DEF GraphInv, Asked, Merge
<1>5. Supported(r, h) BY <1>2 DEF GraphInv, Supported
<1>6. GapsRecorded(h) /\ ConflictTold(h) /\ Sided(h) /\ Fresh(r, h)
  BY <1>2 DEF GapsRecorded, ConflictTold, Sided, Fresh, Scored, Weighed, Verified
<1>7. GraphInv(r, h) BY <1>2, <1>3, <1>4, <1>5, <1>6 DEF GraphInv
<1> QED BY <1>7 DEF h

\* What is told of the answers: of the records of an id the last one, and for a
\* feed without any a gap.
LEMMA EvidenceFacts ==
  ASSUME NEW r \in Runs, GraphInv(r, research[r]),
         \A f \in Feeds : \E p \in research[r].responses : p.feed = f
  PROVE  /\ Evidence(r) \subseteq Records
         /\ \A x \in Evidence(r) : x.available <= Cutoff[r]
         /\ \A x, y \in Evidence(r) : Id(x) = Id(y) => x = y
         /\ \A f \in Feeds : \/ \E x \in Evidence(r) : x.feed = f
                             \/ \E p \in research[r].responses : \E gap \in GapsOf(p) : gap.field = f
<1> DEFINE g == research[r]
           found == {x \in UNION {p.records : p \in g.responses} : x.available <= Cutoff[r]}
<1>1. Evidence(r) = {x \in found : \A y \in found : Id(y) = Id(x) => y.event <= x.event}
  BY DEF Evidence
<1>2. /\ \A p \in g.responses : p \in Answer /\ Answered(r, p)
      /\ g.responses \subseteq Answer
  BY DEF GraphInv, Graph
<1>3. found \subseteq Records BY <1>2 DEF Answer
<1>4. \A p \in g.responses : \A x \in p.records : x \in found /\ x.feed = p.feed
  BY <1>2 DEF Answered
<1> HIDE DEF found
<1>5. \A x, y \in Evidence(r) : Id(x) = Id(y) => x = y
  <2> SUFFICES ASSUME NEW x \in Evidence(r), NEW y \in Evidence(r), Id(x) = Id(y) PROVE x = y
    OBVIOUS
  <2>1. x.event <= y.event /\ y.event <= x.event BY <1>1
  <2>2. x.event \in Nat /\ y.event \in Nat /\ x \in Records /\ y \in Records
    BY <1>1, <1>3, RecordsAssumption
  <2>3. x.event = y.event BY <2>1, <2>2
  <2> QED BY <2>2, <2>3, RecordsAssumption
<1>6. \A x \in found : \E y \in Evidence(r) : Id(y) = Id(x)
  <2> SUFFICES ASSUME NEW x \in found PROVE \E y \in Evidence(r) : Id(y) = Id(x)
    OBVIOUS
  <2> DEFINE S == {y \in found : Id(y) = Id(x)}
             F == [y \in S |-> y.event]
  <2>1. S \in SUBSET Records /\ S # {} BY <1>3
  <2>2. IsFiniteSet(S) BY <2>1, FS_Subset, RecordsAssumption
  <2>3. F \in [S -> Nat] BY <2>1, RecordsAssumption
  <2>4. PICK z \in S : \A y \in S : F[y] <= F[z] BY <2>1, <2>2, <2>3, GreatestOf
  <2>5. z \in Evidence(r) BY <1>1, <2>4
  <2> QED BY <2>4, <2>5
<1>7. ASSUME NEW f \in Feeds
      PROVE  \/ \E x \in Evidence(r) : x.feed = f
             \/ \E p \in g.responses : \E gap \in GapsOf(p) : gap.field = f
  <2>1. PICK p \in g.responses : p.feed = f OBVIOUS
  <2>2. CASE GapsOf(p) = {}
    <3>1. PICK x \in p.records : TRUE BY <1>2, <2>2 DEF Answered
    <3>2. x \in found /\ x.feed = f BY <1>4, <2>1, <3>1
    <3>3. PICK y \in Evidence(r) : Id(y) = Id(x) BY <1>6, <3>2
    <3>4. y.feed = x.feed BY <3>3 DEF Id
    <3> QED BY <3>2, <3>3, <3>4
  <2>3. CASE GapsOf(p) # {}
    <3>1. \A gap \in GapsOf(p) : gap.field = f BY <2>1 DEF GapsOf, Gap
    <3> QED BY <2>3, <3>1
  <2> QED BY <2>2, <2>3
<1>8. \A x \in Evidence(r) : x.available <= Cutoff[r] BY <1>1 DEF found
<1> QED BY <1>1, <1>3, <1>5, <1>7, <1>8

\* The planner asks for every feed.
LEMMA PlanningKeeps ==
  ASSUME NEW r \in Runs, NEW g, GraphInv(r, g), g.pc = "planner"
  PROVE  GraphInv(r, [g EXCEPT !.pc = "collect", !.targets = Feeds])
<1> DEFINE h == [g EXCEPT !.pc = "collect", !.targets = Feeds]
<1>1. g \in Graph BY DEF GraphInv
<1>2. /\ h \in Graph
      /\ h.targets = Feeds /\ h.pc = "collect"
      /\ h.responses = g.responses /\ h.evidence = g.evidence /\ h.claims = g.claims
      /\ h.status = g.status
  BY <1>1 DEF Graph
<1> HIDE DEF h
<1>3. (\A q \in h.responses : Answered(r, q)) /\ Asked(h) /\ Supported(r, h)
  BY <1>2 DEF GraphInv, Asked, Supported
<1>4. GapsRecorded(h) /\ ConflictTold(h) /\ Sided(h) /\ Fresh(r, h)
  BY <1>2 DEF GapsRecorded, ConflictTold, Sided, Fresh, Scored, Weighed, Verified
<1>5. GraphInv(r, h) BY <1>2, <1>3, <1>4 DEF GraphInv
<1> QED BY <1>5 DEF h

\* The evidence, its claims and the gaps are made of all the answers at once.
LEMMA NormalizingKeeps ==
  ASSUME NEW r \in Runs, GraphInv(r, research[r]), At(r, "collect"), research[r].targets = {}
  PROVE  GraphInv(r, [research[r] EXCEPT
                        !.pc = "judge",
                        !.evidence = Evidence(r),
                        !.claims = {ClaimFor(x) : x \in Evidence(r)},
                        !.gaps = UNION {GapsOf(p) : p \in research[r].responses}])
<1> DEFINE g == research[r]
           h == [g EXCEPT !.pc = "judge",
                          !.evidence = Evidence(r),
                          !.claims = {ClaimFor(x) : x \in Evidence(r)},
                          !.gaps = UNION {GapsOf(p) : p \in g.responses}]
<1>1. g \in Graph /\ g.pc = "collect" /\ g.status = "RUNNING" BY DEF GraphInv, At
<1>2. \A f \in Feeds : \E p \in g.responses : p.feed = f BY <1>1 DEF GraphInv, Asked
<1>3. /\ Evidence(r) \subseteq Records
      /\ \A x \in Evidence(r) : x.available <= Cutoff[r]
      /\ \A x, y \in Evidence(r) : Id(x) = Id(y) => x = y
      /\ \A f \in Feeds : \/ \E x \in Evidence(r) : x.feed = f
                          \/ \E p \in g.responses : \E gap \in GapsOf(p) : gap.field = f
  BY <1>2, EvidenceFacts
<1>4. \A p \in g.responses : GapsOf(p) \subseteq GapRow
  <2>1. \A p \in g.responses : p.feed \in AskedFor
    BY <1>1, ResearchAssumption DEF Graph, Answer, AskedFor
  <2> QED BY <2>1 DEF GapsOf, GapRow
<1>a. PICK C \in SUBSET ClaimRow : C = {ClaimFor(x) : x \in Evidence(r)} BY <1>3 DEF ClaimRow
<1>b. PICK G \in SUBSET GapRow : G = UNION {GapsOf(p) : p \in g.responses} BY <1>4
<1>c. h = [g EXCEPT !.pc = "judge", !.evidence = Evidence(r), !.claims = C, !.gaps = G]
  BY <1>a, <1>b
<1>d. PICK E \in SUBSET Records : E = Evidence(r) BY <1>3
<1> HIDE DEF h
<1>e. /\ h \in Graph
      /\ h.pc = "judge" /\ h.status = "RUNNING" /\ h.responses = g.responses
      /\ h.evidence = E /\ h.claims = C /\ h.gaps = G
  BY <1>1, <1>c, <1>d DEF Graph
<1>5. /\ h \in Graph
      /\ h.pc = "judge" /\ h.status = "RUNNING" /\ h.responses = g.responses
      /\ h.evidence = Evidence(r)
      /\ h.claims = {ClaimFor(x) : x \in h.evidence}
      /\ h.gaps = UNION {GapsOf(p) : p \in g.responses}
  BY <1>a, <1>b, <1>d, <1>e
<1>6. (\A q \in h.responses : Answered(r, q)) /\ Asked(h)
  BY <1>2, <1>5 DEF GraphInv, Asked
<1>7. Supported(r, h) /\ GapsRecorded(h) BY <1>3, <1>5 DEF Supported, GapsRecorded
<1>8. ConflictTold(h) /\ Sided(h) /\ Fresh(r, h)
  BY <1>5 DEF ConflictTold, Sided, Fresh, Scored, Weighed, Verified
<1>9. GraphInv(r, h) BY <1>5, <1>6, <1>7, <1>8 DEF GraphInv
<1> QED BY <1>9 DEF h

\* The targets in conflict are found, and told among the gaps.
LEMMA JudgingKeeps ==
  ASSUME NEW r \in Runs, NEW g, GraphInv(r, g), g.pc = "judge", g.status = "RUNNING",
         NEW pc \in {"reflect", "score"}
  PROVE  GraphInv(r, [WithConflicts(g) EXCEPT !.pc = pc])
<1> DEFINE h == [WithConflicts(g) EXCEPT !.pc = pc]
           gap == Gap("CONFLICTED", "median_target")
<1>1. g \in Graph BY DEF GraphInv
<1>2. Conflicts(g) \in SUBSET Ids BY <1>1 DEF Conflicts, Ids, Graph
<1>3. gap \in GapRow BY DEF GapRow
<1> HIDE DEF gap
<1>4. /\ h \in Graph
      /\ h.pc = pc /\ h.status = "RUNNING" /\ h.responses = g.responses
      /\ h.evidence = g.evidence /\ h.claims = g.claims
      /\ h.conflict = Conflicts(g)
      /\ h.gaps = g.gaps \cup (IF Conflicts(g) = {} THEN {} ELSE {gap})
  BY <1>1, <1>2, <1>3 DEF Graph, WithConflicts, gap
<1> HIDE DEF h
<1>5. Conflicts(h) = Conflicts(g) BY <1>4 DEF Conflicts
<1>6. (\A q \in h.responses : Answered(r, q)) /\ Asked(h) /\ Supported(r, h) /\ GapsRecorded(h)
  BY <1>4 DEF GraphInv, Asked, Supported, GapsRecorded
<1>7. ConflictTold(h) BY <1>4, <1>5 DEF ConflictTold, gap
<1>8. Sided(h) /\ Fresh(r, h) BY <1>4 DEF Sided, Fresh, Weighed, Verified
<1>9. GraphInv(r, h) BY <1>4, <1>6, <1>7, <1>8 DEF GraphInv
<1> QED BY <1>9 DEF h

\* A reflection asks again, and forgets no answer meanwhile.
LEMMA ReflectingKeeps ==
  ASSUME NEW r \in Runs, NEW g, GraphInv(r, g), g.pc = "reflect", NEW T \in SUBSET Feeds
  PROVE  GraphInv(r, [g EXCEPT !.pc = "collect", !.reflections = @ + 1, !.targets = T])
<1> DEFINE h == [g EXCEPT !.pc = "collect", !.reflections = @ + 1, !.targets = T]
<1>1. g \in Graph BY DEF GraphInv
<1>a. PICK n \in Nat : n = g.reflections + 1 BY <1>1 DEF Graph
<1>b. h = [g EXCEPT !.pc = "collect", !.reflections = n, !.targets = T] BY <1>a
<1> HIDE DEF h
<1>2. /\ h \in Graph
      /\ h.targets = T /\ h.pc = "collect" /\ h.status = g.status
      /\ h.responses = g.responses /\ h.evidence = g.evidence /\ h.claims = g.claims
  BY <1>1, <1>b DEF Graph
<1>3. (\A q \in h.responses : Answered(r, q)) /\ Asked(h) /\ Supported(r, h)
  BY <1>2 DEF GraphInv, Asked, Supported
<1>4. GapsRecorded(h) /\ ConflictTold(h) /\ Sided(h) /\ Fresh(r, h)
  BY <1>2 DEF GapsRecorded, ConflictTold, Sided, Fresh, Scored, Weighed, Verified
<1>5. GraphInv(r, h) BY <1>2, <1>3, <1>4 DEF GraphInv
<1> QED BY <1>5 DEF h

\* The greater of two numbers is one of them.
LEMMA MaxOfTwo ==
  ASSUME NEW n \in Int
  PROVE  Max({0, n}) \in {0, n}
<1>1. CASE n <= 0
  <2>1. 0 \in {0, n} /\ \A y \in {0, n} : 0 >= y BY <1>1
  <2> QED BY <2>1 DEF Max
<1>2. CASE n >= 0
  <2>1. n \in {0, n} /\ \A y \in {0, n} : n >= y BY <1>2
  <2> QED BY <2>1 DEF Max
<1> QED BY <1>1, <1>2

\* Each gap takes its part of the confidence, and a side needs evidence.
LEMMA ConcludingKeeps ==
  ASSUME NEW r \in Runs, NEW g, GraphInv(r, g), g.pc = "score"
  PROVE  GraphInv(r, [g EXCEPT
                        !.pc = "verify",
                        !.confidence = Confidence(g),
                        !.opinion = CASE g.evidence = {}  -> "ABSTAIN"
                                      [] g.evidence # {} /\ Score(g) > 50  -> "BULLISH"
                                      [] g.evidence # {} /\ Score(g) <= 50 -> "NEUTRAL"])
<1> DEFINE o == CASE g.evidence = {}  -> "ABSTAIN"
                  [] g.evidence # {} /\ Score(g) > 50  -> "BULLISH"
                  [] g.evidence # {} /\ Score(g) <= 50 -> "NEUTRAL"
           h == [g EXCEPT !.pc = "verify", !.confidence = Confidence(g), !.opinion = o]
<1>1. g \in Graph BY DEF GraphInv
<1>2. /\ Confidence(g) \in Int
      /\ Confidence(g) = 0 \/ Confidence(g) <= 8 - Cardinality(g.gaps)
  <2>1. Cardinality(g.gaps) \in Nat BY <1>1, GapsAreFew DEF Graph
  <2>2. CASE g.evidence = {} BY <2>2 DEF Confidence
  <2>3. CASE g.evidence # {}
    <3>1. PICK n \in Int : /\ n = 8 - Cardinality(g.gaps) - (IF g.conflict = {} THEN 0 ELSE 1)
                          /\ n <= 8 - Cardinality(g.gaps)
      BY <2>1
    <3>2. Confidence(g) = Max({0, n}) BY <2>3, <3>1 DEF Confidence
    <3>3. Confidence(g) \in {0, n} BY <3>2, MaxOfTwo
    <3> QED BY <3>1, <3>3
  <2> QED BY <2>2, <2>3
<1>3. o \in Sides /\ (o # "ABSTAIN" => g.evidence # {})
  <2>1. CASE g.evidence = {} BY <2>1 DEF Sides
  <2>2. CASE g.evidence # {}
    <3>1. Score(g) \in Int
      <4> DEFINE E == {x \in g.evidence : x.feed \in PositiveFeeds}
      <4>1. IsFiniteSet(g.evidence) BY <1>1, FS_Subset, RecordsAssumption DEF Graph
      <4>2. IsFiniteSet(E) BY <4>1, FS_Subset
      <4>3. PICK n \in Nat \ {0} : n = Cardinality(g.evidence)
        BY <2>2, <4>1, FS_CardinalityType, FS_EmptySet
      <4>4. PICK m \in Nat : m = Cardinality(E) BY <4>2, FS_CardinalityType
      <4>5. PICK a \in Int, b \in Nat \ {0} : a = 200 * m + n /\ b = 2 * n OBVIOUS
      <4>6. a \div b \in Int OBVIOUS
      <4>7. Score(g) = a \div b BY <4>3, <4>4, <4>5 DEF Score
      <4> QED BY <4>6, <4>7
    <3>2. Score(g) > 50 \/ Score(g) <= 50 BY <3>1
    <3> QED BY <2>2, <3>2 DEF Sides
  <2> QED BY <2>1, <2>2
<1> HIDE DEF o
<1>4. /\ h \in Graph
      /\ h.pc = "verify" /\ h.status = g.status /\ h.confidence = Confidence(g)
      /\ h.opinion = o /\ h.responses = g.responses /\ h.evidence = g.evidence
      /\ h.claims = g.claims /\ h.gaps = g.gaps /\ h.conflict = g.conflict
  BY <1>1, <1>2, <1>3 DEF Graph
<1> HIDE DEF h
<1>5. (\A q \in h.responses : Answered(r, q)) /\ Asked(h) /\ Supported(r, h) /\ GapsRecorded(h)
  BY <1>4 DEF GraphInv, Asked, Supported, GapsRecorded
<1>6. ConflictTold(h) BY <1>4 DEF GraphInv, ConflictTold, Conflicts, Scored
<1>7. Sided(h) BY <1>2, <1>3, <1>4 DEF Sided
<1>8. Fresh(r, h) BY <1>4 DEF Fresh, Verified
<1>9. GraphInv(r, h) BY <1>4, <1>5, <1>6, <1>7, <1>8 DEF GraphInv
<1> QED BY <1>9 DEF h, o

\* A side is kept when each claim was verified, and each item has its claim.
LEMMA VerifyingKeeps ==
  ASSUME NEW r \in Runs, GraphInv(r, research[r]), At(r, "verify"), NEW verified \in BOOLEAN,
         verified => CitationsVerified(r)
  PROVE  GraphInv(r, [research[r] EXCEPT !.pc = "diff", !.opinion = Rendered(@, verified)])
<1> DEFINE g == research[r]
           h == [g EXCEPT !.pc = "diff", !.opinion = Rendered(@, verified)]
<1>1. g \in Graph /\ g.pc = "verify" /\ g.status = "RUNNING" BY DEF GraphInv, At
<1>2. /\ Rendered(g.opinion, verified) \in Sides
      /\ Rendered(g.opinion, verified) # "ABSTAIN" => verified /\ g.opinion # "ABSTAIN"
  BY <1>1 DEF Rendered, Graph, Sides
<1>3. /\ h \in Graph
      /\ h.pc = "diff" /\ h.status = "RUNNING" /\ h.opinion = Rendered(g.opinion, verified)
      /\ h.confidence = g.confidence /\ h.responses = g.responses /\ h.evidence = g.evidence
      /\ h.claims = g.claims /\ h.gaps = g.gaps /\ h.conflict = g.conflict
  BY <1>1, <1>2 DEF Graph
<1> HIDE DEF h
<1>4. (\A q \in h.responses : Answered(r, q)) /\ Asked(h) /\ Supported(r, h) /\ GapsRecorded(h)
  BY <1>1, <1>3 DEF GraphInv, Asked, Supported, GapsRecorded
<1>5. ConflictTold(h) BY <1>1, <1>3 DEF GraphInv, ConflictTold, Conflicts, Scored
<1>6. Sided(h) BY <1>1, <1>2, <1>3 DEF GraphInv, Sided, Weighed
<1>7. ASSUME h.opinion # "ABSTAIN", NEW x \in h.evidence
      PROVE  Cutoff[r] - x.available <= MaxAge[x.feed] /\ Id(x) \notin h.conflict
  <2>1. CitationsVerified(r) BY <1>2, <1>3, <1>7
  <2>2. ClaimFor(x) \in g.claims BY <1>3, <1>7 DEF GraphInv, Supported
  <2>3. PICK y \in Cited(g, ClaimFor(x)) : /\ Cutoff[r] - y.available <= MaxAge[y.feed]
                                          /\ Id(y) \notin g.conflict
    BY <2>1, <2>2 DEF CitationsVerified
  <2>4. y \in g.evidence /\ Id(y) = Id(x) BY <2>3 DEF Cited, ClaimFor
  <2>5. y = x BY <1>3, <1>7, <2>4 DEF GraphInv, Supported
  <2> QED BY <1>3, <2>3, <2>5
<1>8. Fresh(r, h) BY <1>7 DEF Fresh
<1>9. GraphInv(r, h) BY <1>3, <1>4, <1>5, <1>6, <1>8 DEF GraphInv
<1> QED BY <1>9 DEF h

\* From the last node on only the bookkeeping of the run changes.
LEMMA BookkeepingKeeps ==
  ASSUME NEW r \in Runs, NEW g, GraphInv(r, g), NEW h \in Graph,
         h.responses = g.responses, h.evidence = g.evidence, h.claims = g.claims,
         h.gaps = g.gaps, h.conflict = g.conflict, h.confidence = g.confidence,
         h.opinion = g.opinion, h.targets = g.targets,
         \/ h.pc = g.pc
         \/ g.pc \in {"diff", "frozen", "storing"} /\ h.pc \in {"diff", "frozen", "storing"},
         h.status = "COMPLETED" => h.pc = "storing",
         h.pc = "storing" => h.status \in {"RUNNING", "COMPLETED"}
  PROVE  GraphInv(r, h)
<1>1. (\A q \in h.responses : Answered(r, q)) /\ Asked(h) /\ Supported(r, h) /\ GapsRecorded(h)
  BY DEF GraphInv, Asked, Supported, GapsRecorded
<1>2. ConflictTold(h) BY DEF GraphInv, ConflictTold, Conflicts, Scored
<1>3. Sided(h) BY DEF GraphInv, Sided, Weighed
<1>4. Fresh(r, h) BY DEF GraphInv, Fresh, Verified
<1> QED BY <1>1, <1>2, <1>3, <1>4 DEF GraphInv

\* A step of one graph that stores nothing.
LEMMA BecomingKeeps ==
  ASSUME ResearchInv, NEW r \in Runs, NEW h, Becomes(r, h), GraphInv(r, h),
         research[r].status # "COMPLETED", h.status # "COMPLETED",
         h.status = "RUNNING" /\ h.pc = "storing" => h.known \subseteq Present
  PROVE  ResearchInv'
<1>1. /\ research' = [research EXCEPT ![r] = h] /\ rows' = rows
      /\ research \in [Runs -> Graph] /\ h \in Graph
  BY DEF ResearchInv, Becomes, GraphInv
<1>2. /\ research' \in [Runs -> Graph] /\ research'[r] = h
      /\ \A q \in Runs \ {r} : research'[q] = research[q]
  BY <1>1
<1>3. \A q \in Runs : GraphInv(q, research'[q])
  BY <1>2 DEF ResearchInv
<1>4. StoreType' BY <1>1 DEF ResearchInv, StoreInv, StoreType
<1>5. Present' = Present BY <1>1 DEF Present
<1>6. \A d \in rows.decisions : d.run \in Runs /\ d.run # r
  BY DEF ResearchInv, StoreInv, StoreType, DecisionRows, Decided
<1>7. \A d \in rows.decisions : Decided(d)'
  BY <1>1, <1>2, <1>6 DEF ResearchInv, StoreInv, Decided
<1>8. StoreInv'
  BY <1>1, <1>2, <1>4, <1>5, <1>7 DEF ResearchInv, StoreInv
<1>9. CorrectionsInv' BY <1>1 DEF ResearchInv, CorrectionsInv
<1> QED BY <1>2, <1>3, <1>8, <1>9 DEF ResearchInv

\* A run that has the rows it shares as it saw them stores what it cites.
LEMMA StoringKeeps ==
  ASSUME ResearchInv, NEW r \in Runs, Stores(r)
  PROVE  ResearchInv'
<1> DEFINE g == research[r]
           h == [g EXCEPT !.status = "COMPLETED", !.known = {}]
           added == {EvidenceRow(x) : x \in {y \in g.evidence : Id(y) \notin g.known}}
<1>1. /\ research \in [Runs -> Graph] /\ g \in Graph /\ GraphInv(r, g)
      /\ g.status = "RUNNING" /\ g.pc = "storing" /\ g.known \subseteq Present
  BY DEF ResearchInv, StoreInv, Stores, At
<1>2. /\ h \in Graph /\ h.status = "COMPLETED" /\ h.pc = "storing"
      /\ h.responses = g.responses /\ h.evidence = g.evidence /\ h.claims = g.claims
      /\ h.gaps = g.gaps /\ h.conflict = g.conflict /\ h.confidence = g.confidence
      /\ h.opinion = g.opinion /\ h.targets = g.targets
  BY <1>1 DEF Graph
<1>3. research' = [research EXCEPT ![r] = h] BY <1>1 DEF Stores
<1> HIDE DEF h
<1>4. GraphInv(r, h) BY <1>1, <1>2, BookkeepingKeeps
<1>5. /\ research' \in [Runs -> Graph] /\ research'[r] = h
      /\ \A q \in Runs \ {r} : research'[q] = research[q]
  BY <1>1, <1>2, <1>3
<1>6. \A q \in Runs : GraphInv(q, research'[q])
  BY <1>4, <1>5 DEF ResearchInv
<1>7. IsFiniteSet(rows.decisions) BY DEF ResearchInv, CorrectionsInv
<1>8. PICK time \in Nat : time = Cardinality(rows.decisions) + 1 BY <1>7, FS_CardinalityType
<1>9. Decision(r) = DecisionOf(r, g, time) BY <1>8 DEF Decision, DecisionOf
<1>10. DecisionOf(r, h, time) = DecisionOf(r, g, time)
  <2>1. \A x : Link(h, x) = Link(g, x) BY <1>2 DEF Link
  <2> QED BY <1>2, <2>1 DEF DecisionOf
<1>11. PICK decision : decision = DecisionOf(r, h, time) OBVIOUS
<1>12. /\ decision.run = r /\ decision.visible = time
       /\ decision.links = {Link(g, x) : x \in g.evidence} /\ decision.claims = g.claims
  BY <1>10, <1>11 DEF DecisionOf
<1>13. decision \in DecisionRows
  <2>1. \A x \in Records : Link(g, x) \in Links BY DEF Link, Links, Ids
  <2>2. {Link(g, x) : x \in g.evidence} \in SUBSET Links BY <1>1, <2>1 DEF Graph
  <2> HIDE DEF g
  <2> QED BY <1>1, <1>10, <1>11, <2>2 DEF DecisionOf, DecisionRows, Graph
<1>14. added \subseteq EvidenceRows BY <1>1 DEF Graph, EvidenceRows
<1>15. StoreType BY DEF ResearchInv, StoreInv
<1>16. rows' = [rows EXCEPT !.evidence = @ \cup added, !.claims = @ \cup g.claims,
                            !.pins = @ \cup Pins, !.decisions = @ \cup {decision}]
  BY <1>9, <1>10, <1>11 DEF Stores
<1>17. \A e \in added : \E x \in g.evidence : e = EvidenceRow(x) /\ e.id = Id(x) /\ Id(x) \notin g.known
  BY DEF EvidenceRow
<1>18. \A x \in g.evidence : Id(x) \notin g.known => \E e \in added : e.id = Id(x)
  <2>1. \A x \in g.evidence : Id(x) \notin g.known => EvidenceRow(x) \in added OBVIOUS
  <2>2. \A x : EvidenceRow(x).id = Id(x) BY DEF EvidenceRow
  <2> QED BY <2>1, <2>2
<1> HIDE DEF added
<1>19. /\ rows'.evidence = rows.evidence \cup added /\ rows'.claims = rows.claims \cup g.claims
       /\ rows'.pins = rows.pins \cup Pins /\ rows'.decisions = rows.decisions \cup {decision}
       /\ rows'.diffs = rows.diffs
  BY <1>15, <1>16 DEF StoreType
<1>20. StoreType'
  <2>1. g.claims \subseteq ClaimRow BY <1>1 DEF Graph
  <2> HIDE DEF g
  <2> QED BY <1>13, <1>14, <1>15, <1>16, <2>1 DEF StoreType
<1>21. \A e, f \in rows'.evidence : e.id = f.id => e = f
  <2>1. \A e, f \in rows.evidence : e.id = f.id => e = f BY DEF ResearchInv, StoreInv
  <2>2. \A e \in rows.evidence, f \in added : e.id # f.id
    <3>1. \A x \in g.evidence : Id(x) \notin g.known => Id(x) \notin Present
      BY DEF Stores, Collides, Shared
    <3> QED BY <1>17, <3>1 DEF Present
  <2>3. \A e, f \in added : e.id = f.id => e = f
    BY <1>1, <1>17 DEF GraphInv, Supported
  <2> QED BY <1>19, <2>1, <2>2, <2>3
<1>22. \A x \in g.evidence : \E e \in rows'.evidence : e.id = Id(x)
  <2>1. ASSUME NEW x \in g.evidence, Id(x) \in g.known
        PROVE  \E e \in rows.evidence : e.id = Id(x)
    <3>1. Id(x) \in Present BY <1>1, <2>1
    <3>2. Id(x) \notin Pins BY <1>1, RecordsAssumption DEF Graph
    <3>3. rows.pins \subseteq Pins BY <1>15 DEF StoreType
    <3> QED BY <3>1, <3>2, <3>3 DEF Present
  <2> QED BY <1>18, <1>19, <2>1
<1>23. \A d \in rows.decisions : d.run \in Runs /\ d.run # r
  BY <1>1 DEF ResearchInv, StoreInv, StoreType, DecisionRows, Decided
<1>24. \A d \in rows.decisions : Decided(d)'
  <2> SUFFICES ASSUME NEW d \in rows.decisions PROVE Decided(d)' OBVIOUS
  <2>1. Decided(d) BY DEF ResearchInv, StoreInv
  <2>2. d.run # r /\ research'[d.run] = research[d.run] BY <1>5, <1>23
  <2> QED BY <1>12, <1>19, <2>1, <2>2 DEF Decided
<1>25. Decided(decision)'
  <2>1. \A l \in decision.links : \E e \in rows'.evidence : e.id = l.evidence
    BY <1>12, <1>22 DEF Link
  <2>2. \A e \in rows'.decisions : e.run = decision.run => e = decision
    BY <1>12, <1>19, <1>23
  <2>3. decision.claims \subseteq rows'.claims BY <1>12, <1>19
  <2>4. research'[decision.run].status = "COMPLETED" BY <1>2, <1>5, <1>12
  <2>5. decision = DecisionOf(decision.run, research'[decision.run], decision.visible)
    BY <1>5, <1>11, <1>12
  <2> QED BY <2>1, <2>2, <2>3, <2>4, <2>5 DEF Decided
<1>26. StoreInv'
  <2>1. \A d \in rows'.decisions : Decided(d)' BY <1>19, <1>24, <1>25
  <2>2. \A q \in Runs : research'[q].status = "COMPLETED" => \E d \in rows'.decisions : d.run = q
    <3>1. \A q \in Runs : research[q].status = "COMPLETED" => \E d \in rows.decisions : d.run = q
      BY DEF ResearchInv, StoreInv
    <3> QED BY <1>5, <1>12, <1>19, <3>1
  <2>3. \A q \in Runs : research'[q].status = "RUNNING" /\ research'[q].pc = "storing" =>
                          research'[q].known \subseteq Present'
    <3>1. Present \subseteq Present' BY <1>19 DEF Present
    <3>2. \A q \in Runs : research[q].status = "RUNNING" /\ research[q].pc = "storing" =>
                            research[q].known \subseteq Present
      BY DEF ResearchInv, StoreInv
    <3> QED BY <1>2, <1>5, <3>1, <3>2
  <2> QED BY <1>20, <1>21, <2>1, <2>2, <2>3 DEF StoreInv
<1>27. CorrectionsInv'
  BY <1>7, <1>19, FS_AddElement DEF ResearchInv, CorrectionsInv
<1> QED BY <1>5, <1>6, <1>26, <1>27 DEF ResearchInv

\* A correction adds to the diffs only, and none to an earlier cutoff.
LEMMA SupersedingKeeps ==
  ASSUME ResearchInv, NEW d \in rows.decisions, NEW e \in rows.decisions,
         NEW at \in 1..Cardinality(Runs), Supersedes(d, e, at)
  PROVE  ResearchInv'
<1>1. StoreType BY DEF ResearchInv, StoreInv
<1>2. d.run \in Runs /\ e.run \in Runs BY <1>1 DEF StoreType, DecisionRows
<1>3. at \in Nat BY ResearchAssumption, FS_CardinalityType
<1>4. PICK c : c = Correction(d, e, at) OBVIOUS
<1>5. c \in CorrectionRows /\ Cutoff[c.previous] <= Cutoff[c.next]
  BY <1>2, <1>3, <1>4, ResearchAssumption DEF Correction, CorrectionRows, Supersedes
<1>6. rows' = [rows EXCEPT !.diffs = @ \cup {c}] /\ research' = research
  BY <1>4 DEF Supersedes
<1>7. /\ StoreType'
      /\ rows'.evidence = rows.evidence /\ rows'.claims = rows.claims /\ rows'.pins = rows.pins
      /\ rows'.decisions = rows.decisions /\ rows'.diffs = rows.diffs \cup {c}
  BY <1>1, <1>5, <1>6 DEF StoreType
<1>8. Present' = Present BY <1>7 DEF Present
<1>9. \A x \in rows.decisions : Decided(x)'
  BY <1>6, <1>7 DEF ResearchInv, StoreInv, Decided
<1>10. StoreInv' BY <1>6, <1>7, <1>8, <1>9 DEF ResearchInv, StoreInv
<1>11. CorrectionsInv' BY <1>5, <1>7 DEF ResearchInv, CorrectionsInv
<1> QED BY <1>6, <1>10, <1>11 DEF ResearchInv

\* A run is claimed, lost and queued again, and finds or misses the rows it shares.
LEMMA BookkeepingSteps ==
  ASSUME ResearchInv, NEW r \in Runs,
         Claims(r) \/ Crashes(r) \/ Requeues(r) \/ Freezes(r) \/ LooksUp(r) \/ StoreFails(r)
  PROVE  ResearchInv'
<1> DEFINE g == research[r]
<1>1. g \in Graph /\ GraphInv(r, g) BY DEF ResearchInv
<1>2. /\ g.status = "COMPLETED" => g.pc = "storing"
      /\ g.pc = "storing" => g.status \in {"RUNNING", "COMPLETED"}
  BY <1>1 DEF GraphInv
<1>3. ASSUME NEW h \in Graph, Becomes(r, h), g.status # "COMPLETED", h.status # "COMPLETED",
             h.pc = "storing" => h.status = "RUNNING" /\ h.known \subseteq Present,
             h.responses = g.responses, h.evidence = g.evidence, h.claims = g.claims,
             h.gaps = g.gaps, h.conflict = g.conflict, h.confidence = g.confidence,
             h.opinion = g.opinion, h.targets = g.targets,
             \/ h.pc = g.pc
             \/ g.pc \in {"diff", "frozen", "storing"} /\ h.pc \in {"diff", "frozen", "storing"}
      PROVE  ResearchInv'
  <2>1. GraphInv(r, h) BY <1>1, <1>3, BookkeepingKeeps
  <2> QED BY <1>3, <2>1, BecomingKeeps
<1>4. CASE Claims(r)
  <2>1. PICK n \in Nat : n = g.attempts + 1 BY <1>1 DEF Graph
  <2>2. PICK h : h = [g EXCEPT !.status = "RUNNING", !.attempts = n] OBVIOUS
  <2>3. Becomes(r, h) /\ g.status = "QUEUED" BY <1>4, <2>1, <2>2 DEF Claims
  <2>4. /\ h \in Graph
        /\ h.status = "RUNNING" /\ h.pc = g.pc
        /\ h.responses = g.responses /\ h.evidence = g.evidence /\ h.claims = g.claims
        /\ h.gaps = g.gaps /\ h.conflict = g.conflict /\ h.confidence = g.confidence
        /\ h.opinion = g.opinion /\ h.targets = g.targets
    BY <1>1, <2>2 DEF Graph
  <2> HIDE DEF g
  <2> QED BY <1>2, <1>3, <2>3, <2>4
<1>5. CASE Crashes(r)
  <2>1. PICK status \in {"QUEUED", "FAILED"} :
          status = IF g.attempts < MaxAttempts THEN "QUEUED" ELSE "FAILED"
    OBVIOUS
  <2>a. PICK pc : pc = IF g.pc = "storing" THEN "frozen" ELSE g.pc OBVIOUS
  <2>2. PICK h : h = [g EXCEPT !.status = status, !.pc = pc, !.known = {}] OBVIOUS
  <2>3. Becomes(r, h) /\ g.status = "RUNNING" BY <1>5, <2>1, <2>a, <2>2 DEF Crashes
  <2>4. /\ h \in Graph
        /\ h.status = status /\ h.pc = pc
        /\ h.responses = g.responses /\ h.evidence = g.evidence /\ h.claims = g.claims
        /\ h.gaps = g.gaps /\ h.conflict = g.conflict /\ h.confidence = g.confidence
        /\ h.opinion = g.opinion /\ h.targets = g.targets
    BY <1>1, <2>a, <2>2 DEF Graph
  <2> HIDE DEF g
  <2> QED BY <1>2, <1>3, <2>1, <2>a, <2>3, <2>4
<1>6. CASE Requeues(r)
  <2>2. PICK h : h = [g EXCEPT !.status = "QUEUED"] OBVIOUS
  <2>3. Becomes(r, h) /\ g.status = "FAILED" BY <1>6, <2>2 DEF Requeues
  <2>4. /\ h \in Graph
        /\ h.status = "QUEUED" /\ h.pc = g.pc
        /\ h.responses = g.responses /\ h.evidence = g.evidence /\ h.claims = g.claims
        /\ h.gaps = g.gaps /\ h.conflict = g.conflict /\ h.confidence = g.confidence
        /\ h.opinion = g.opinion /\ h.targets = g.targets
    BY <1>1, <2>2 DEF Graph
  <2> HIDE DEF g
  <2> QED BY <1>2, <1>3, <2>3, <2>4
<1>7. CASE Freezes(r)
  <2>2. PICK h : h = [g EXCEPT !.pc = "frozen"] OBVIOUS
  <2>3. Becomes(r, h) /\ g.status = "RUNNING" /\ g.pc = "diff" BY <1>7, <2>2 DEF Freezes, At
  <2>4. /\ h \in Graph
        /\ h.status = g.status /\ h.pc = "frozen"
        /\ h.responses = g.responses /\ h.evidence = g.evidence /\ h.claims = g.claims
        /\ h.gaps = g.gaps /\ h.conflict = g.conflict /\ h.confidence = g.confidence
        /\ h.opinion = g.opinion /\ h.targets = g.targets
    BY <1>1, <2>2 DEF Graph
  <2> HIDE DEF g
  <2> QED BY <1>2, <1>3, <2>3, <2>4
<1>8. CASE LooksUp(r)
  <2>1. PICK known \in SUBSET (Ids \cup Pins) : known = Present
    <3>1. \A e \in rows.evidence : e.id \in Ids
      BY DEF ResearchInv, StoreInv, StoreType, EvidenceRows, EvidenceRow, Ids
    <3>2. rows.pins \subseteq Pins BY DEF ResearchInv, StoreInv, StoreType
    <3> QED BY <3>1, <3>2 DEF Present
  <2>2. PICK h : h = [g EXCEPT !.pc = "storing", !.known = known] OBVIOUS
  <2>3. Becomes(r, h) /\ g.status = "RUNNING" /\ g.pc = "frozen" BY <1>8, <2>1, <2>2 DEF LooksUp, At
  <2>4. /\ h \in Graph
        /\ h.status = g.status /\ h.pc = "storing" /\ h.known = known
        /\ h.responses = g.responses /\ h.evidence = g.evidence /\ h.claims = g.claims
        /\ h.gaps = g.gaps /\ h.conflict = g.conflict /\ h.confidence = g.confidence
        /\ h.opinion = g.opinion /\ h.targets = g.targets
    BY <1>1, <2>2 DEF Graph
  <2> HIDE DEF g
  <2> QED BY <1>2, <1>3, <2>1, <2>3, <2>4
<1>9. CASE StoreFails(r)
  <2>2. PICK h : h = [g EXCEPT !.status = "FAILED", !.pc = "frozen", !.known = {}] OBVIOUS
  <2>3. Becomes(r, h) /\ g.status = "RUNNING" /\ g.pc = "storing" BY <1>9, <2>2 DEF StoreFails, At
  <2>4. /\ h \in Graph
        /\ h.status = "FAILED" /\ h.pc = "frozen"
        /\ h.responses = g.responses /\ h.evidence = g.evidence /\ h.claims = g.claims
        /\ h.gaps = g.gaps /\ h.conflict = g.conflict /\ h.confidence = g.confidence
        /\ h.opinion = g.opinion /\ h.targets = g.targets
    BY <1>1, <2>2 DEF Graph
  <2> HIDE DEF g
  <2> QED BY <1>2, <1>3, <2>3, <2>4
<1> QED BY <1>4, <1>5, <1>6, <1>7, <1>8, <1>9

\* A run goes from node to node.
LEMMA NodeSteps ==
  ASSUME ResearchInv, NEW r \in Runs,
         \/ Plans(r) \/ Normalizes(r) \/ Judges(r) \/ Reflects(r) \/ Concludes(r) \/ Verifies(r)
         \/ \E f \in Feeds : Collects(r, f)
  PROVE  ResearchInv'
<1> DEFINE g == research[r]
<1>1. g \in Graph /\ GraphInv(r, g) BY DEF ResearchInv
<1>2. ASSUME NEW h, Becomes(r, h), g.status = "RUNNING", GraphInv(r, h), h.pc # "storing"
      PROVE  ResearchInv'
  <2>1. h.status # "COMPLETED" BY <1>2 DEF GraphInv
  <2> QED BY <1>2, <2>1, BecomingKeeps
<1>3. CASE Plans(r)
  <2>1. PICK h : h = [g EXCEPT !.pc = "collect", !.targets = Feeds] OBVIOUS
  <2>2. Becomes(r, h) /\ g.status = "RUNNING" /\ g.pc = "planner" BY <1>3, <2>1 DEF Plans, At
  <2>3. GraphInv(r, h) BY <1>1, <2>1, <2>2, PlanningKeeps
  <2>4. h.pc = "collect" BY <1>1, <2>1 DEF Graph
  <2> QED BY <1>2, <2>2, <2>3, <2>4
<1>4. ASSUME NEW f \in Feeds, Collects(r, f) PROVE ResearchInv'
  <2>1. PICK p : p = Fetch(r, f) OBVIOUS
  <2>2. p \in Answer /\ p.feed = f /\ Answered(r, p) BY <1>1, <2>1, FetchAnswers DEF Graph
  <2>3. PICK h : h = [g EXCEPT !.targets = @ \ {f}, !.responses = Merge(@, p)] OBVIOUS
  <2>4. Becomes(r, h) /\ g.status = "RUNNING" /\ g.pc = "collect" /\ f \in g.targets
    BY <1>4, <2>1, <2>3 DEF Collects, At
  <2>5. GraphInv(r, h) BY <1>1, <2>2, <2>3, <2>4, CollectingKeeps
  <2>6. h.pc = g.pc BY <1>1, <2>3 DEF Graph
  <2> QED BY <1>2, <2>4, <2>5, <2>6
<1>5. CASE Normalizes(r)
  <2>1. PICK h : h = [g EXCEPT !.pc = "judge",
                               !.evidence = Evidence(r),
                               !.claims = {ClaimFor(x) : x \in Evidence(r)},
                               !.gaps = UNION {GapsOf(p) : p \in g.responses}]
    OBVIOUS
  <2>2. /\ Becomes(r, h) /\ At(r, "collect") /\ g.targets = {}
        /\ g.status = "RUNNING"
    BY <1>5, <2>1 DEF Normalizes, At
  <2>3. GraphInv(r, h) BY <1>1, <2>1, <2>2, NormalizingKeeps
  <2>4. h.pc = "judge" BY <1>1, <2>1 DEF Graph
  <2> QED BY <1>2, <2>2, <2>3, <2>4
<1>6. CASE Judges(r)
  <2> DEFINE w == WithConflicts(g)
  <2>1. PICK pc \in {"reflect", "score"} :
          pc = IF (w.gaps # {} \/ w.conflict # {}) /\ w.reflections < Reflections
               THEN "reflect" ELSE "score"
    OBVIOUS
  <2>2. PICK h : h = [w EXCEPT !.pc = pc] OBVIOUS
  <2>3. Becomes(r, h) /\ g.status = "RUNNING" /\ g.pc = "judge" BY <1>6, <2>1, <2>2 DEF Judges, At
  <2>4. GraphInv(r, h) BY <1>1, <2>2, <2>3, JudgingKeeps
  <2>5. h.pc = pc BY <1>1, <2>2 DEF Graph, WithConflicts
  <2> QED BY <1>2, <2>1, <2>3, <2>4, <2>5
<1>7. CASE Reflects(r)
  <2>1. PICK T \in SUBSET Feeds :
          T = {f \in Feeds : \/ \E gap \in g.gaps : gap.field = f
                             \/ f = "target_consensus" /\ g.conflict # {}}
    OBVIOUS
  <2>2. PICK h : h = [g EXCEPT !.pc = "collect", !.reflections = @ + 1, !.targets = T] OBVIOUS
  <2>3. Becomes(r, h) /\ g.status = "RUNNING" /\ g.pc = "reflect"
    BY <1>7, <2>1, <2>2 DEF Reflects, At
  <2>4. GraphInv(r, h) BY <1>1, <2>2, <2>3, ReflectingKeeps
  <2>5. h.pc = "collect" BY <1>1, <2>2 DEF Graph
  <2> QED BY <1>2, <2>3, <2>4, <2>5
<1>8. CASE Concludes(r)
  <2>1. PICK h : h = [g EXCEPT
                        !.pc = "verify",
                        !.confidence = Confidence(g),
                        !.opinion = CASE g.evidence = {}  -> "ABSTAIN"
                                      [] g.evidence # {} /\ Score(g) > 50  -> "BULLISH"
                                      [] g.evidence # {} /\ Score(g) <= 50 -> "NEUTRAL"]
    OBVIOUS
  <2>2. Becomes(r, h) /\ g.status = "RUNNING" /\ g.pc = "score" BY <1>8, <2>1 DEF Concludes, At
  <2>3. GraphInv(r, h) BY <1>1, <2>1, <2>2, ConcludingKeeps
  <2>4. h.pc = "verify" BY <1>1, <2>1 DEF Graph
  <2> QED BY <1>2, <2>2, <2>3, <2>4
<1>9. CASE Verifies(r)
  <2>1. PICK verified \in BOOLEAN : verified = (CitationsVerified(r) /\ NumbersVerified(g))
    OBVIOUS
  <2>2. PICK h : h = [g EXCEPT !.pc = "diff", !.opinion = Rendered(@, verified)] OBVIOUS
  <2>3. Becomes(r, h) /\ At(r, "verify") /\ g.status = "RUNNING"
    BY <1>9, <2>1, <2>2 DEF Verifies, At
  <2>4. GraphInv(r, h) BY <1>1, <2>1, <2>2, <2>3, VerifyingKeeps
  <2>5. h.pc = "diff" BY <1>1, <2>2 DEF Graph
  <2> QED BY <1>2, <2>3, <2>4, <2>5
<1> QED BY <1>3, <1>4, <1>5, <1>6, <1>7, <1>8, <1>9

\* What the graphs hold and what is stored stay in step.
LEMMA ResearchStays ==
  ASSUME ResearchInv, [ResearchNext]_researchVars
  PROVE  ResearchInv'
<1>1. ASSUME NEW r \in Runs, Claims(r) \/ Works(r) \/ Crashes(r) \/ Requeues(r)
      PROVE  ResearchInv'
  BY <1>1, BookkeepingSteps, NodeSteps, StoringKeeps DEF Works
<1>2. ASSUME NEW d \in rows.decisions, NEW e \in rows.decisions,
             NEW at \in 1..Cardinality(Runs), Supersedes(d, e, at)
      PROVE  ResearchInv'
  BY <1>2, SupersedingKeeps
<1>3. CASE research' = research /\ rows' = rows
  <2>1. StoreType' /\ Present' = Present BY <1>3 DEF ResearchInv, StoreInv, StoreType, Present
  <2>2. \A d \in rows.decisions : Decided(d)' BY <1>3 DEF ResearchInv, StoreInv, Decided
  <2>3. StoreInv' /\ CorrectionsInv'
    BY <1>3, <2>1, <2>2 DEF ResearchInv, StoreInv, CorrectionsInv
  <2> QED BY <1>3, <2>3 DEF ResearchInv
<1>4. ASSUME NEW p, Ingests(p) PROVE ResearchInv' BY <1>3, <1>4 DEF Ingests
<1>5. CASE UNCHANGED researchVars BY <1>3, <1>5 DEF researchVars
<1> QED BY <1>1, <1>2, <1>4, <1>5 DEF ResearchNext

\* Nothing is known and nothing stored at first.
LEMMA ResearchStarts ==
  ASSUME ResearchInit
  PROVE  ResearchInv
<1>1. PICK admission \in [Runs -> UNION {Admissions[r] : r \in Runs}] :
        /\ \A r \in Runs : admission[r] \in Admissions[r]
        /\ research = [r \in Runs |-> [NoGraph EXCEPT !.admission = admission[r]]]
  BY DEF ResearchInit
<1>2. \A r \in Runs : admission[r] \in {"full", "gap", "none"} BY <1>1, ResearchAssumption
<1>3. ASSUME NEW r \in Runs
      PROVE  GraphInv(r, research[r]) /\ research[r].pc = "planner" /\ research[r].status = "QUEUED"
  <2>1. PICK a \in {"full", "gap", "none"} : research[r] = [NoGraph EXCEPT !.admission = a]
    BY <1>1, <1>2
  <2>2. PICK g : g = [NoGraph EXCEPT !.admission = a] OBVIOUS
  <2>3. /\ g \in Graph /\ g.pc = "planner" /\ g.status = "QUEUED"
        /\ g.responses = {} /\ g.evidence = {} /\ g.claims = {}
    BY <2>2 DEF NoGraph, Graph, Sides
  <2>4. (\A q \in g.responses : Answered(r, q)) /\ Asked(g) /\ Supported(r, g)
    BY <2>3 DEF Asked, Supported
  <2>5. GapsRecorded(g) /\ ConflictTold(g) /\ Sided(g) /\ Fresh(r, g)
    BY <2>3 DEF GapsRecorded, ConflictTold, Sided, Fresh, Scored, Weighed, Verified
  <2>6. GraphInv(r, g) BY <2>3, <2>4, <2>5 DEF GraphInv
  <2> QED BY <2>1, <2>2, <2>3, <2>6
<1>4. research \in [Runs -> Graph] BY <1>1, <1>3 DEF GraphInv
<1>5. rows = NoRows BY DEF ResearchInit
<1>6. StoreType BY <1>5 DEF NoRows, StoreType
<1>7. StoreInv BY <1>3, <1>5, <1>6 DEF StoreInv, NoRows
<1>8. CorrectionsInv BY <1>5, FS_EmptySet DEF CorrectionsInv, NoRows
<1> QED BY <1>3, <1>4, <1>7, <1>8 DEF ResearchInv

\* The rows of a decision are those of what its graph found: one for each item,
\* of the same time and feed, and for targets of the same value.
LEMMA RowsOfDecision ==
  ASSUME ResearchInv, NEW d \in rows.decisions
  PROVE  /\ \A e \in RowsOf(d) : \E x \in research[d.run].evidence :
              /\ e.id = Id(x) /\ e.available = x.available /\ e.id[2] = x.feed
              /\ x.feed = "target_consensus" => e.value = x.value
         /\ \A x \in research[d.run].evidence : \E e \in RowsOf(d) : e.id = Id(x)
         /\ Cardinality(RowsOf(d)) = Cardinality(d.links)
<1> DEFINE g == research[d.run]
<1>1. d.run \in Runs BY DEF ResearchInv, StoreInv, StoreType, DecisionRows
<1>2. g \in Graph /\ GraphInv(d.run, g) /\ Decided(d)
  BY <1>1 DEF ResearchInv, StoreInv
<1>3. d.links = {Link(g, x) : x \in g.evidence} BY <1>2 DEF Decided, DecisionOf
<1>4. /\ \A x : Link(g, x).evidence = Id(x)
      /\ \A x, y : Id(x) = Id(y) => Link(g, x) = Link(g, y)
  BY DEF Link
<1>5. /\ \A l \in d.links : \E x \in g.evidence : l.evidence = Id(x)
      /\ \A k, l \in d.links : k.evidence = l.evidence => k = l
      /\ \A x \in g.evidence : \E l \in d.links : l.evidence = Id(x)
  BY <1>3, <1>4
<1>6. \A e \in rows.evidence : \E y \in Records :
         e.id = Id(y) /\ e.value = y.value /\ e.available = y.available
  BY DEF ResearchInv, StoreInv, StoreType, EvidenceRows, EvidenceRow
<1>7. \A l \in d.links : \E e \in rows.evidence : e.id = l.evidence BY <1>2 DEF Decided
<1>8. g.evidence \subseteq Records BY <1>2 DEF Graph
<1> HIDE DEF g
<1>9. ASSUME NEW e \in RowsOf(d)
      PROVE  \E x \in g.evidence : /\ e.id = Id(x) /\ e.available = x.available /\ e.id[2] = x.feed
                                   /\ x.feed = "target_consensus" => e.value = x.value
  <2>1. PICK l \in d.links : l.evidence = e.id BY DEF RowsOf
  <2>2. PICK x \in g.evidence : Id(x) = e.id BY <1>5, <2>1
  <2>3. PICK y \in Records : e.id = Id(y) /\ e.value = y.value /\ e.available = y.available
    BY <1>6 DEF RowsOf
  <2>4. x \in Records BY <1>8
  <2>5. x.available = y.available /\ (x.feed = "target_consensus" => x = y)
    BY <2>2, <2>3, <2>4, RecordsAssumption
  <2>6. Id(x)[2] = x.feed BY DEF Id
  <2> QED BY <2>2, <2>3, <2>5, <2>6
<1>10. \A x \in g.evidence : \E e \in RowsOf(d) : e.id = Id(x)
  BY <1>5, <1>7 DEF RowsOf
<1>11. Cardinality(RowsOf(d)) = Cardinality(d.links)
  <2>1. IsFiniteSet(g.evidence) BY <1>8, FS_Subset, RecordsAssumption
  <2>2. IsFiniteSet(d.links)
    <3> DEFINE F == [x \in g.evidence |-> Link(g, x)]
    <3>1. F \in Surjection(g.evidence, d.links) BY <1>3 DEF Surjection
    <3> QED BY <2>1, <3>1, FS_Surjection
  <2>3. \A e, f \in rows.evidence : e.id = f.id => e = f BY DEF ResearchInv, StoreInv
  <2> DEFINE B == [l \in d.links |-> CHOOSE e \in rows.evidence : e.id = l.evidence]
  <2>4. \A l \in d.links : B[l] \in rows.evidence /\ B[l].id = l.evidence BY <1>7
  <2> HIDE DEF B
  <2>5. \A l \in d.links : B[l] \in RowsOf(d) BY <2>4 DEF RowsOf
  <2>6. \A e \in RowsOf(d) : \E l \in d.links : B[l] = e BY <2>3, <2>4 DEF RowsOf
  <2>7. \A k, l \in d.links : B[k] = B[l] => k = l BY <1>5, <2>4
  <2>8. B \in [d.links -> RowsOf(d)] BY <2>5 DEF B
  <2>9. ExistsBijection(d.links, RowsOf(d))
    <3>1. B \in Injection(d.links, RowsOf(d)) BY <2>7, <2>8 DEF Injection, IsInjective
    <3>2. B \in Surjection(d.links, RowsOf(d)) BY <2>6, <2>8 DEF Surjection
    <3> QED BY <3>1, <3>2 DEF ExistsBijection, Bijection
  <2> QED BY <2>2, <2>9, FS_Bijection
<1> QED BY <1>9, <1>10, <1>11 DEF g

\* No two targets differ in the evidence of a decision that takes a side.
LEMMA TargetsAgree ==
  ASSUME NEW r \in Runs, NEW g, GraphInv(r, g), g.pc = "storing", g.opinion # "ABSTAIN"
  PROVE  LET V == {x.value : x \in {y \in g.evidence : y.feed = "target_consensus"}}
         IN IsFiniteSet(V) /\ Cardinality(V) <= 1
<1> DEFINE T == {y \in g.evidence : y.feed = "target_consensus"}
           V == {x.value : x \in T}
<1>1. g \in Graph BY DEF GraphInv
<1>2. IsFiniteSet(T) BY <1>1, FS_Subset, RecordsAssumption DEF Graph
<1>3. IsFiniteSet(V)
  <2> DEFINE F == [x \in T |-> x.value]
  <2>1. F \in Surjection(T, V) BY DEF Surjection
  <2> QED BY <1>2, <2>1, FS_Surjection
<1>4. Cardinality(V) \in Nat BY <1>3, FS_CardinalityType
<1>5. g.conflict = Conflicts(g) /\ \A x \in g.evidence : Id(x) \notin g.conflict
  BY DEF GraphInv, ConflictTold, Fresh, Scored, Verified
<1>6. ASSUME Cardinality(V) > 1 PROVE FALSE
  <2>1. Conflicts(g) = {Id(x) : x \in T} BY <1>6 DEF Conflicts
  <2>2. T = {} BY <1>5, <2>1
  <2>3. Cardinality(V) = 0 BY <2>2, FS_EmptySet
  <2> QED BY <1>6, <2>3
<1> QED BY <1>3, <1>4, <1>6

\* The decisions of ResearchInv are those the run's property speaks of.
LEMMA StoredIsSound ==
  ASSUME ResearchInv
  PROVE  DecisionsHold
<1>1. \A d \in rows.decisions :
         /\ d.run \in Runs /\ Decided(d)
         /\ GraphInv(d.run, research[d.run]) /\ research[d.run].pc = "storing"
  BY DEF ResearchInv, StoreInv, StoreType, DecisionRows, Decided, GraphInv
<1>2. \A d \in rows.decisions :
         /\ d.opinion = research[d.run].opinion /\ d.confidence = research[d.run].confidence
         /\ d.gaps = research[d.run].gaps
         /\ d.links = {Link(research[d.run], x) : x \in research[d.run].evidence}
  BY <1>1 DEF Decided, DecisionOf
<1>3. ASSUME NEW r \in Runs
      PROVE  Cardinality({d \in rows.decisions : d.run = r})
               = IF research[r].status = "COMPLETED" THEN 1 ELSE 0
  <2>1. CASE research[r].status = "COMPLETED"
    <3>1. PICK d \in rows.decisions : d.run = r BY <2>1 DEF ResearchInv, StoreInv
    <3>2. {e \in rows.decisions : e.run = r} = {d} BY <1>1, <3>1 DEF Decided
    <3> QED BY <2>1, <3>2, FS_Singleton
  <2>2. CASE research[r].status # "COMPLETED"
    <3>1. {d \in rows.decisions : d.run = r} = {} BY <1>1, <2>2 DEF Decided
    <3> QED BY <2>2, <3>1, FS_EmptySet
  <2> QED BY <2>1, <2>2
<1>4. ASSUME NEW d \in rows.decisions
      PROVE  /\ Cardinality(RowsOf(d)) = Cardinality(d.links)
             /\ d.claims \subseteq rows.claims
             /\ \A e \in RowsOf(d) : e.available <= Cutoff[d.run]
             /\ d.opinion # "ABSTAIN" =>
                  /\ RowsOf(d) # {}
                  /\ \A e \in RowsOf(d) : Cutoff[d.run] - e.available <= MaxAge[e.id[2]]
                  /\ Cardinality({e.value : e \in {f \in RowsOf(d) : f.id[2] = "target_consensus"}}) < 2
  <2> DEFINE g == research[d.run]
  <2>1. /\ \A e \in RowsOf(d) : \E x \in g.evidence :
              /\ e.id = Id(x) /\ e.available = x.available /\ e.id[2] = x.feed
              /\ x.feed = "target_consensus" => e.value = x.value
        /\ \A x \in g.evidence : \E e \in RowsOf(d) : e.id = Id(x)
        /\ Cardinality(RowsOf(d)) = Cardinality(d.links)
    BY RowsOfDecision
  <2>2. GraphInv(d.run, g) /\ g.pc = "storing" /\ d.opinion = g.opinion /\ d.run \in Runs
    BY <1>1, <1>2
  <2> HIDE DEF g
  <2>3. d.claims \subseteq rows.claims BY <1>1 DEF Decided
  <2>4. \A e \in RowsOf(d) : e.available <= Cutoff[d.run]
    BY <2>1, <2>2 DEF GraphInv, Supported
  <2>5. ASSUME d.opinion # "ABSTAIN"
        PROVE  /\ RowsOf(d) # {}
               /\ \A e \in RowsOf(d) : Cutoff[d.run] - e.available <= MaxAge[e.id[2]]
               /\ Cardinality({e.value : e \in {f \in RowsOf(d) : f.id[2] = "target_consensus"}}) < 2
    <3> DEFINE V == {x.value : x \in {y \in g.evidence : y.feed = "target_consensus"}}
               W == {e.value : e \in {f \in RowsOf(d) : f.id[2] = "target_consensus"}}
    <3>1. RowsOf(d) # {} BY <2>1, <2>2, <2>5 DEF GraphInv, Sided, Weighed
    <3>2. \A x \in g.evidence : Cutoff[d.run] - x.available <= MaxAge[x.feed]
      BY <2>2, <2>5 DEF GraphInv, Fresh, Verified
    <3>3. \A e \in RowsOf(d) : Cutoff[d.run] - e.available <= MaxAge[e.id[2]]
      BY <2>1, <3>2
    <3>4. IsFiniteSet(V) /\ Cardinality(V) <= 1 BY <2>2, <2>5, TargetsAgree
    <3>5. W \in SUBSET V
      <4>1. \A e \in RowsOf(d) : e.id[2] = "target_consensus" =>
               \E x \in g.evidence : x.feed = "target_consensus" /\ e.value = x.value
        BY <2>1
      <4> QED BY <4>1
    <3> HIDE DEF V, W
    <3>6. IsFiniteSet(W) /\ Cardinality(W) <= Cardinality(V) BY <3>4, <3>5, FS_Subset
    <3>7. Cardinality(V) \in Nat /\ Cardinality(W) \in Nat BY <3>4, <3>6, FS_CardinalityType
    <3>8. Cardinality(W) < 2 BY <3>4, <3>6, <3>7
    <3> QED BY <3>1, <3>3, <3>8 DEF W
  <2> QED BY <2>1, <2>3, <2>4, <2>5
<1>5. DecisionSound BY <1>3, <1>4 DEF DecisionSound
<1>6. ASSUME NEW d \in rows.decisions
      PROVE  /\ \A f \in Feeds : (\A l \in d.links : l.evidence[2] # f) =>
                                    \E gap \in d.gaps : gap.field = f
             /\ (\E l \in d.links : l.relation = "CONTRADICTS") =>
                  Gap("CONFLICTED", "median_target") \in d.gaps /\ d.opinion = "ABSTAIN"
             /\ d.confidence <= 8 - Cardinality(d.gaps) \/ d.confidence = 0
  <2> DEFINE g == research[d.run]
  <2>1. GraphInv(d.run, g) /\ g.pc = "storing" BY <1>1
  <2>2. /\ d.opinion = g.opinion /\ d.confidence = g.confidence /\ d.gaps = g.gaps
        /\ d.links = {Link(g, x) : x \in g.evidence}
    BY <1>2
  <2> HIDE DEF g
  <2>3. ASSUME NEW f \in Feeds, \A l \in d.links : l.evidence[2] # f
        PROVE  \E gap \in d.gaps : gap.field = f
    <3>1. \A x \in g.evidence : x.feed # f
      <4>1. \A x \in g.evidence : Link(g, x) \in d.links BY <2>2
      <4>2. \A x : Link(g, x).evidence[2] = x.feed BY DEF Link, Id
      <4> QED BY <2>3, <4>1, <4>2
    <3> QED BY <2>1, <2>2, <3>1 DEF GraphInv, GapsRecorded
  <2>4. ASSUME NEW l \in d.links, l.relation = "CONTRADICTS"
        PROVE  Gap("CONFLICTED", "median_target") \in d.gaps /\ d.opinion = "ABSTAIN"
    <3>1. PICK x \in g.evidence : l = Link(g, x) BY <2>2
    <3>2. Id(x) \in g.conflict BY <2>4, <3>1 DEF Link
    <3>3. g.opinion = "ABSTAIN" BY <2>1, <3>2 DEF GraphInv, Fresh, Verified
    <3>4. Gap("CONFLICTED", "median_target") \in g.gaps
      BY <2>1, <3>2 DEF GraphInv, ConflictTold, Scored
    <3> QED BY <2>2, <3>3, <3>4
  <2>5. d.confidence <= 8 - Cardinality(d.gaps) \/ d.confidence = 0
    BY <2>1, <2>2 DEF GraphInv, Sided, Weighed
  <2> QED BY <2>3, <2>4, <2>5
<1>7. GapsAreTold BY <1>6 DEF GapsAreTold
<1> QED BY <1>5, <1>7 DEF DecisionsHold

\* Whatever arrives while it collects and wherever it was interrupted, a run that
\* completes leaves one decision, which rests on stored evidence of its cutoff and
\* says what it lacked.
THEOREM DecisionsAreSound == ResearchSpec => []DecisionsHold
<1>1. ResearchInit => ResearchInv BY ResearchStarts
<1>2. ResearchInv /\ [ResearchNext]_researchVars => ResearchInv' BY ResearchStays
<1>3. ResearchInv => DecisionsHold BY StoredIsSound
<1> QED BY <1>1, <1>2, <1>3, PTL DEF ResearchSpec

\* Whatever replaces whatever, a reader who sees a decision sees an active one,
\* unless decisions of one cutoff replaced one another.
THEOREM SomeDecisionIsActive == ResearchSpec => []SomeDecisionActive
<1>1. ResearchInit => ResearchInv BY ResearchStarts
<1>2. ResearchInv /\ [ResearchNext]_researchVars => ResearchInv' BY ResearchStays
<1>3. ResearchInv => SomeDecisionActive BY LatestIsActive
<1> QED BY <1>1, <1>2, <1>3, PTL DEF ResearchSpec

=============================================================================
