----------------------------- MODULE WeeklyReview -----------------------------
(***************************************************************************)
(* The weekly review (workers/review_tasks.py, agents/weekly_review,       *)
(* application/learning, domain/learning) next to the promotion it feeds   *)
(* (PolicyPromotion): it judges the decisions that have matured at its     *)
(* cutoff, files one lesson for each kind of error, and replays the        *)
(* lessons that were approved on the decisions made after them.            *)
(*                                                                         *)
(* A review is one transaction.  Its cutoff may lie behind the present,    *)
(* and reviews need not come in the order of their cutoffs.  A lesson is   *)
(* identified by its duplicate key, which is its error category.           *)
(***************************************************************************)
EXTENDS PolicyPromotion, FiniteSetsExt

CONSTANTS
  Decisions,    \* decision_snapshot rows
  Made,         \* Made[d]: when d was decided, and visible
  Opinion,      \* Opinion[d]
  Prices,       \* market_bar rows of the symbol: event, available, price
  Horizons,     \* days after which a decision is judged
  Today,        \* bounds the time
  Cutoffs,      \* cutoffs of the reviews
  MaxVerdicts,  \* bounds the times at which a lesson is decided
  Reviews       \* weekly review runs, numbered in the order in which they run

ASSUME ReviewAssumption ==
  /\ Made \in [Decisions -> Nat]
  /\ Opinion \in [Decisions -> {"BULLISH", "NEUTRAL", "BEARISH", "ABSTAIN"}]
  /\ Prices \subseteq [event : Nat, available : Nat, price : Nat \ {0}]
  /\ None \notin Nat
  /\ Horizons \subseteq Nat \ {0}
  /\ Today \in Nat
  /\ Cutoffs \subseteq 0..Today
  /\ MaxVerdicts \in Nat
  /\ Reviews \subseteq Nat
  /\ Lessons \subseteq {"THESIS_ERROR", "UNCONTROLLABLE_EVENT"}

VARIABLES
  now,
  review,    \* table weekly_review_run: review[w] is its cutoff
  outcomes,  \* tables decision_outcome and error_attribution
  book,      \* table candidate_lesson: book[l] is created_at
  decided,   \* table lesson_approval: decided[l][t] is the last verdict of time t
  replays    \* table replay_run

reviewVars == <<now, review, outcomes, book, decided, replays>>
allVars == <<policy, candidate, active, revision, audit, refused, lesson, tx,
             now, review, outcomes, book, decided, replays>>

ReviewInit ==
  /\ Init
  /\ now = 0
  /\ review = [w \in Reviews |-> None]
  /\ outcomes = {}
  /\ book = [l \in Lessons |-> None]
  /\ decided = [l \in Lessons |-> [t \in 0..Today |-> None]]
  /\ replays = {}

-----------------------------------------------------------------------------
(* domain/learning/outcome.py, attribution.py *)

\* _paper_prices: of one event, the revision that was available last.
Visible(c) ==
  {x \in Prices :
     /\ x.event <= c /\ x.available <= c
     /\ \A y \in Prices : y.event = x.event /\ y.available <= c => y.available <= x.available}

Latest(S) == CHOOSE x \in S : \A y \in S : y.event <= x.event

\* Of rows of one event that became available together the columns
\* ingested_at and content_hash pick one.
FirstOf(S) == {x \in S : \A y \in S : x.event <= y.event}
Earliest(S) == CHOOSE x \in FirstOf(S) : TRUE

\* The last price known when d was decided; d is left out if there is none.
HasReference(d) == Visible(Made[d]) # {}
Reference(d) == Latest(Visible(Made[d])).price

Frozen(c) == {d \in Decisions : Made[d] <= c /\ HasReference(d)}

\* Seeded fault: a horizon is judged on the last price there is.
ReturnOnLast(d, h, c) == (100 * Latest(Visible(c)).price) \div Reference(d) - 100

From(d, h, c) == {x \in Visible(c) : x.event >= Made[d] + h}

\* In percent, at the first price of the horizon's day or later.
Return(d, h, c) == (100 * Earliest(From(d, h, c)).price) \div Reference(d) - 100

MaturedHorizons(d, c) == {h \in Horizons : Made[d] + h <= c}

Matured(c) == {d \in Frozen(c) : MaturedHorizons(d, c) # {}}

Judged(d, c) == {h \in MaturedHorizons(d, c) : From(d, h, c) # {}}

\* 0 if the decision matured but no price tells how.
Terminal(d, c) == IF Judged(d, c) = {} THEN 0 ELSE Return(d, Max(Judged(d, c)), c)

Opposed(opinion, return) == \/ opinion = "BULLISH" /\ return < 0
                            \/ opinion = "BEARISH" /\ return > 0

\* attribute_error: the reviews pass no flag about the data.
Category(d, c) ==
  IF Opposed(Opinion[d], Terminal(d, c)) THEN "THESIS_ERROR" ELSE "UNCONTROLLABLE_EVENT"

Outcome(w, d, c) ==
  [review |-> w, decision |-> d, category |-> Category(d, c),
   status |-> IF Judged(d, c) = {} THEN "PENDING" ELSE "MATURED",
   returns |-> [h \in Judged(d, c) |-> Return(d, h, c)]]

-----------------------------------------------------------------------------
(* workers/review_tasks.py, application/learning *)

\* The verdict a reader as of c finds.
VerdictAt(l, c) ==
  LET times == {t \in 0..c : decided[l][t] # None}
  IN IF times = {} THEN None ELSE decided[l][Max(times)]

\* Seeded fault: a lesson may be replayed for the first time.
AlwaysReplayed(l, c) == c > 0

HasPriorReplay(l, c) == \E r \in replays : r.lesson = l /\ r.cutoff < c /\ r.at <= c

\* _validated_replay_candidates.
Replayable(c) ==
  {l \in Lessons : /\ book[l] # None /\ book[l] < c
                   /\ VerdictAt(l, c) = "APPROVE"
                   /\ HasPriorReplay(l, c)}

\* replay_lesson: only decisions made after the lesson count.
Eligible(l, c) == {d \in Matured(c) : Category(d, c) = l /\ book[l] < Made[d]}

Replay(l, c, S, author) ==
  [lesson |-> l, cutoff |-> c, decisions |-> S, at |-> now, author |-> author]

Unused(l, c) == \A r \in replays : r.lesson = l => r.cutoff # c

\* One row per lesson and cutoff.
NewReplays(c) ==
  {Replay(l, c, Eligible(l, c), "review") : l \in {k \in Replayable(c) : Unused(k, c)}}

Filed(c) == {Category(d, c) : d \in Matured(c)} \cap Lessons

Counted(new) ==
  [l \in Lessons |-> IF \E r \in new : r.lesson = l /\ r.decisions # {}
                     THEN [lesson[l] EXCEPT !.replays = @ + 1] ELSE lesson[l]]

\* execute_weekly_review_run and PostgresWeeklyReviewStore.persist.
ReviewRuns(w, c) ==
  /\ review[w] = None
  /\ \A v \in Reviews : v < w => review[v] # None
  /\ c <= now
  /\ review' = [review EXCEPT ![w] = c]
  /\ outcomes' = outcomes \cup {Outcome(w, d, c) : d \in Matured(c)}
  /\ book' = [l \in Lessons |-> IF l \in Filed(c) /\ book[l] = None THEN c ELSE book[l]]
  /\ replays' = replays \cup NewReplays(c)
  /\ lesson' = Counted(NewReplays(c))
  /\ UNCHANGED <<policy, candidate, control, audit, refused, tx, now, decided>>

\* No code writes the first replay of a lesson: it is brought from outside.
Seeds(l, S) ==
  /\ book[l] # None
  /\ \A r \in replays : r.lesson # l
  /\ replays' = replays \cup {Replay(l, now, S, "outside")}
  /\ lesson' = Counted({Replay(l, now, S, "outside")})
  /\ UNCHANGED <<policy, candidate, control, audit, refused, tx, now, review, outcomes, book, decided>>

\* A lesson is decided once it is in the book; of one moment's verdicts the last
\* counts, so there is one.
Decides(l, verdict) ==
  /\ book[l] # None
  /\ decided[l][now] = None
  /\ Cardinality({t \in 0..Today : decided[l][t] # None}) < MaxVerdicts
  /\ DecideLesson(l, verdict)
  /\ decided' = [decided EXCEPT ![l][now] = lesson'[l].verdict]
  /\ UNCHANGED <<now, review, outcomes, book, replays>>

Tick == /\ now < Today
        /\ now' = now + 1
        /\ UNCHANGED <<vars, review, outcomes, book, decided, replays>>

ReviewNext ==
  \/ Promotes /\ UNCHANGED reviewVars
  \/ \E l \in Lessons, verdict \in Verdicts : Decides(l, verdict)
  \/ \E l \in Lessons : Seeds(l, Decisions)
  \/ \E w \in Reviews, c \in Cutoffs : ReviewRuns(w, c)
  \/ Tick

ReviewSpec == ReviewInit /\ [][ReviewNext]_allVars

-----------------------------------------------------------------------------
(* Properties *)

\* A bar that counts for the horizon became available after a review as of b.
RevisedSince(d, h, b) ==
  \E x \in Prices : /\ b < x.available
                   /\ Made[d] + h <= x.event
                   /\ x.event <= Earliest(From(d, h, b)).event

\* In whatever order reviews run, two that judged a decision agree on its return
\* over a horizon, unless a bar of that time was revised between their cutoffs;
\* each outcome's error is in the book, and a lesson is replayed only on
\* decisions made after it was written.
ReviewsAgree ==
  /\ \A o, p \in outcomes : o.decision = p.decision =>
       \A h \in DOMAIN o.returns \cap DOMAIN p.returns :
         \/ o.returns[h] = p.returns[h]
         \/ RevisedSince(o.decision, h, Min({review[o.review], review[p.review]}))
  /\ \A o \in outcomes : o.category \in Lessons => book[o.category] # None
  /\ \A r \in replays : r.author = "review" => \A d \in r.decisions : book[r.lesson] < Made[d]

\* The first replay of a lesson is never written by a review: a policy that goes
\* through rests on lessons whose first replay was brought from outside.
OnlySeededLessonsBack ==
  LET Seeded(l) == \E r \in replays : r.lesson = l /\ r.author = "outside"
  IN /\ \A r \in replays : Seeded(r.lesson)
     /\ \A c \in Candidates : candidate[c].status \in {"APPROVED", "ACTIVE", "ROLLED_BACK"} =>
          \A l \in policy[c].lessons : Seeded(l)
=============================================================================
