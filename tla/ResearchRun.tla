----------------------------- MODULE ResearchRun -----------------------------
(***************************************************************************)
(* The research runs: agents/research (the graph and its nodes), the reads *)
(* of application/market_data/repositories.py, the judgement of            *)
(* application/research and domain/research, and the rows of               *)
(* application/research/persistence.py.                                    *)
(*                                                                         *)
(* Each action is one superstep of the graph: its state is checkpointed    *)
(* after it, so that a later attempt of the run goes on where the lost one *)
(* was.  The feeds are read one by one, each over a connection of its own, *)
(* while pages of provider records are committed.  What a run decides is   *)
(* stored by one transaction, which looks up the rows it shares with other *)
(* runs (evidence, policy versions) before it inserts the missing ones.    *)
(***************************************************************************)
EXTENDS Integers, FiniteSets, FiniteSetsExt

CONSTANTS
  Runs,        \* research runs of one symbol
  Cutoff,      \* Cutoff[r]: the run's data_cutoff
  Admissions,  \* Admissions[r]: the coverage of bars it may be admitted with
  Feeds,       \* the feeds the task allows, out of RESEARCH_FEEDS
  Records,     \* normalized provider records
  MaxAge,      \* MaxAge[f]: the freshness limit of a feed
  Reflections, \* budgets.reflections
  MaxAttempts, \* agent_run.max_attempts
  Pins         \* policy versions, the same for all runs

\* from_source: all records of a page, and of one provider and feed, have one id.
Id(x) == <<x.provider, x.feed, x.page>>

\* The records of a page become available together, with the batch or the raw
\* object; `event` is their order, which is that of their times as the page's
\* rows are read; a raw object has one record of targets.
ASSUME RecordsAssumption ==
  /\ IsFiniteSet(Records)
  /\ \A x \in Records : x.event \in Nat /\ x.available \in Nat /\ Id(x) \notin Pins
  /\ \A x, y \in Records : Id(x) = Id(y) =>
       /\ x.available = y.available
       /\ x.event = y.event => x = y
       /\ x.feed = "target_consensus" => x = y

ASSUME ResearchAssumption ==
  /\ IsFiniteSet(Runs)
  /\ Cutoff \in [Runs -> Nat]
  /\ Admissions \in [Runs -> SUBSET {"full", "gap", "none"}]
  /\ Feeds \subseteq {"company_facts", "price_bars", "company_news",
                      "option_aggregates", "target_consensus"}
  /\ MaxAge \in [Feeds -> Nat]
  /\ Reflections \in Nat
  /\ MaxAttempts \in Nat \ {0}

VARIABLES
  pages,      \* the content hashes whose records are committed
  research,   \* research[r]: the run's row and the checkpoint of its graph
  rows        \* evidence_item, claim, policy versions, decision_snapshot, decision_diff

researchVars == <<pages, research, rows>>

-----------------------------------------------------------------------------
PositiveFeeds == {"company_facts", "price_bars", "company_news"}
AlpacaFeeds == {"price_bars", "company_news"}

NoGraph == [status |-> "QUEUED", attempts |-> 0, pc |-> "planner", admission |-> "full",
            targets |-> {}, responses |-> {}, evidence |-> {}, claims |-> {}, gaps |-> {},
            conflict |-> {}, reflections |-> 0, confidence |-> 0, opinion |-> "NONE",
            known |-> {}]

NoRows == [evidence |-> {}, claims |-> {}, pins |-> {}, decisions |-> {}, diffs |-> {}]

ResearchInit ==
  /\ pages = {}
  /\ \E admission \in [Runs -> UNION {Admissions[r] : r \in Runs}] :
       /\ \A r \in Runs : admission[r] \in Admissions[r]
       /\ research = [r \in Runs |-> [NoGraph EXCEPT !.admission = admission[r]]]
  /\ rows = NoRows

At(r, pc) == research[r].status = "RUNNING" /\ research[r].pc = pc

Becomes(r, g) == research' = [research EXCEPT ![r] = g] /\ UNCHANGED <<pages, rows>>

-----------------------------------------------------------------------------
(* The store the feeds are read from *)

Stored == {x \in Records : x.page \in pages}

Seen(f, cutoff) == {x \in Stored : x.feed = f /\ x.event <= cutoff /\ x.available <= cutoff}

\* select_latest_visible_revisions: of one provider and event, the latest.
LatestVisible(f, cutoff) ==
  {x \in Seen(f, cutoff) :
     \A y \in Seen(f, cutoff) :
       y.event = x.event /\ y.provider = x.provider => y.available <= x.available}

Response(f, provider, records) ==
  [feed |-> f, provider |-> provider, records |-> records, degraded |-> FALSE,
   status |-> IF records = {} THEN "NOT_FOUND" ELSE "OK"]

\* The bars of the coverage the run was admitted with, if it got any.
FetchBars(r) ==
  LET found == Response("price_bars", "ALPACA", LatestVisible("price_bars", Cutoff[r]))
  IN CASE research[r].admission = "full" -> found
       [] research[r].admission = "gap"  -> [found EXCEPT !.degraded = TRUE]
       [] research[r].admission = "none" -> [found EXCEPT !.records = {}, !.status = "UNAVAILABLE"]

\* News are Alpaca's; a feed without a record is labelled MULTIPLE.
FetchRecords(r, f) ==
  LET found == LatestVisible(f, Cutoff[r])
      permitted == {x \in found : f \in AlpacaFeeds => x.provider = "ALPACA"}
      providers == {x.provider : x \in found}
      label == IF Cardinality(providers) # 1 THEN "MULTIPLE"
               ELSE IF f \in AlpacaFeeds THEN "ALPACA" ELSE CHOOSE p \in providers : TRUE
  IN Response(f, label, permitted)

Fetch(r, f) == IF f = "price_bars" THEN FetchBars(r) ELSE FetchRecords(r, f)

\* merge_responses: one response per feed and provider, the later one stays.
Merge(old, new) == {o \in old : o.feed # new.feed \/ o.provider # new.provider} \cup {new}

-----------------------------------------------------------------------------
(* The nodes of the graph *)

\* execute_run claims the run; a checkpoint, if there is one, is resumed.
Claims(r) ==
  /\ research[r].status = "QUEUED"
  /\ research[r].attempts < MaxAttempts
  /\ Becomes(r, [research[r] EXCEPT !.status = "RUNNING", !.attempts = @ + 1])

Plans(r) ==
  /\ At(r, "planner")
  /\ Becomes(r, [research[r] EXCEPT !.pc = "collect", !.targets = Feeds])

Collects(r, f) ==
  /\ At(r, "collect")
  /\ f \in research[r].targets
  /\ Becomes(r, [research[r] EXCEPT !.targets = @ \ {f},
                                    !.responses = Merge(@, Fetch(r, f))])

\* merge_by_id keeps the last of them, in the order of their events.
Evidence(r) ==
  LET found == {x \in UNION {p.records : p \in research[r].responses} :
                  x.available <= Cutoff[r]}
  IN {x \in found : \A y \in found : Id(y) = Id(x) => y.event <= x.event}

Gap(kind, field) == [kind |-> kind, field |-> field]

GapsOf(p) ==
  IF p.degraded THEN {Gap("UNAVAILABLE", p.feed)}
  ELSE IF p.status = "OK" THEN {}
  ELSE {Gap(IF p.status = "UNAVAILABLE" THEN "UNAVAILABLE" ELSE "MISSING", p.feed)}

ClaimFor(x) == [evidence |-> Id(x), value |-> x.value]

\* normalize_freshness_lineage, and the analysts' claim for each item.
Normalizes(r) ==
  /\ At(r, "collect")
  /\ research[r].targets = {}
  /\ Becomes(r, [research[r] EXCEPT
       !.pc = "judge",
       !.evidence = Evidence(r),
       !.claims = {ClaimFor(x) : x \in Evidence(r)},
       !.gaps = UNION {GapsOf(p) : p \in research[r].responses}])

\* The targets, all of them, once two of them differ.
Conflicts(g) ==
  LET targets == {x \in g.evidence : x.feed = "target_consensus"}
  IN IF Cardinality({x.value : x \in targets}) > 1 THEN {Id(x) : x \in targets} ELSE {}

WithConflicts(g) ==
  [g EXCEPT !.conflict = Conflicts(g),
            !.gaps = @ \cup (IF Conflicts(g) = {} THEN {} ELSE {Gap("CONFLICTED", "median_target")})]

Judges(r) ==
  /\ At(r, "judge")
  /\ LET g == WithConflicts(research[r])
         again == (g.gaps # {} \/ g.conflict # {}) /\ g.reflections < Reflections
     IN Becomes(r, [g EXCEPT !.pc = IF again THEN "reflect" ELSE "score"])

\* Seeded fault: a reflection is not counted.
ReflectsUncounted(r) ==
  /\ At(r, "reflect")
  /\ Becomes(r, [research[r] EXCEPT
       !.pc = "collect",
       !.targets = {f \in Feeds : \E gap \in research[r].gaps : gap.field = f}])

\* The feeds with a gap, and the targets in conflict, are collected again.
Reflects(r) ==
  /\ At(r, "reflect")
  /\ Becomes(r, [research[r] EXCEPT
       !.pc = "collect",
       !.reflections = @ + 1,
       !.targets = {f \in Feeds : \/ \E gap \in research[r].gaps : gap.field = f
                                  \/ f = "target_consensus" /\ research[r].conflict # {}}])

\* In hundredths, ROUND_HALF_UP.
Score(g) ==
  LET n == Cardinality(g.evidence)
      positive == Cardinality({x \in g.evidence : x.feed \in PositiveFeeds})
  IN IF n = 0 THEN 0 ELSE (200 * positive + n) \div (2 * n)

\* In tenths.
Confidence(g) ==
  IF g.evidence = {} THEN 0
  ELSE Max({0, 8 - Cardinality(g.gaps) - (IF g.conflict = {} THEN 0 ELSE 1)})

\* deterministic_score_confidence, investment_thesis, research_opinion.
Concludes(r) ==
  /\ At(r, "score")
  /\ LET g == research[r]
     IN Becomes(r, [g EXCEPT
          !.pc = "verify",
          !.confidence = Confidence(g),
          !.opinion = CASE g.evidence = {}  -> "ABSTAIN"
                        [] g.evidence # {} /\ Score(g) > 50  -> "BULLISH"
                        [] g.evidence # {} /\ Score(g) <= 50 -> "NEUTRAL"])

Cited(g, c) == {x \in g.evidence : Id(x) = c.evidence}

\* Seeded fault: freshness is rounded up to the next unit.
CitationsVerifiedRounded(r) ==
  LET g == research[r]
  IN \A c \in g.claims : \E x \in Cited(g, c) :
       /\ x.available <= Cutoff[r]
       /\ Cutoff[r] - x.available <= MaxAge[x.feed] + 1
       /\ Id(x) \notin g.conflict

CitationsVerified(r) ==
  LET g == research[r]
  IN \A c \in g.claims : \E x \in Cited(g, c) :
       /\ x.available <= Cutoff[r]
       /\ Cutoff[r] - x.available <= MaxAge[x.feed]
       /\ Id(x) \notin g.conflict

NumbersVerified(g) == \A c \in g.claims : \E x \in Cited(g, c) : c.value = x.value

\* ReportRenderer.render: an opinion on claims that do not hold is an abstention.
Rendered(opinion, verified) == IF verified THEN opinion ELSE "ABSTAIN"

\* writer, citation_verifier, degrade_unverified_decision.
Verifies(r) ==
  /\ At(r, "verify")
  /\ LET verified == CitationsVerified(r) /\ NumbersVerified(research[r])
     IN Becomes(r, [research[r] EXCEPT !.pc = "diff", !.opinion = Rendered(@, verified)])

\* decision_diff and persist_decision: what is decided stays as it is from here.
Freezes(r) ==
  /\ At(r, "diff")
  /\ Becomes(r, [research[r] EXCEPT !.pc = "frozen"])

-----------------------------------------------------------------------------
(* PostgresResearchStore.persist, in the run's transaction *)

Shared(g) == {Id(x) : x \in g.evidence} \cup Pins

Present == {e.id : e \in rows.evidence} \cup rows.pins

LooksUp(r) ==
  /\ At(r, "frozen")
  /\ Becomes(r, [research[r] EXCEPT !.pc = "storing", !.known = Present])

EvidenceRow(x) == [id |-> Id(x), value |-> x.value, available |-> x.available]

Link(g, x) == [evidence |-> Id(x),
               relation |-> IF Id(x) \in g.conflict THEN "CONTRADICTS" ELSE "SUPPORTS"]

Decision(r) ==
  LET g == research[r]
  IN [run |-> r, opinion |-> g.opinion, confidence |-> g.confidence, gaps |-> g.gaps,
      links |-> {Link(g, x) : x \in g.evidence}, claims |-> g.claims,
      visible |-> Cardinality(rows.decisions) + 1]

\* Another run may have inserted the same row meanwhile: the key rejects it,
\* the error is none that is retried, and the transaction takes all back.
Collides(r) == (Shared(research[r]) \ research[r].known) \cap Present # {}

Stores(r) ==
  /\ At(r, "storing")
  /\ ~Collides(r)
  /\ LET g == research[r]
     IN rows' = [rows EXCEPT
          !.evidence = @ \cup {EvidenceRow(x) : x \in {y \in g.evidence : Id(y) \notin g.known}},
          !.claims = @ \cup g.claims,
          !.pins = @ \cup Pins,
          !.decisions = @ \cup {Decision(r)}]
  /\ research' = [research EXCEPT ![r].status = "COMPLETED", ![r].known = {}]
  /\ UNCHANGED pages

StoreFails(r) ==
  /\ At(r, "storing")
  /\ Collides(r)
  /\ Becomes(r, [research[r] EXCEPT !.status = "FAILED", !.pc = "frozen", !.known = {}])

-----------------------------------------------------------------------------
(* The surroundings of a run *)

\* The worker is lost; the recovery queues the run again while it has attempts.
Crashes(r) ==
  /\ research[r].status = "RUNNING"
  /\ Becomes(r, [research[r] EXCEPT
       !.status = IF research[r].attempts < MaxAttempts THEN "QUEUED" ELSE "FAILED",
       !.pc = IF @ = "storing" THEN "frozen" ELSE @,
       !.known = {}])

\* requeue_failed_run, by an operator.
Requeues(r) ==
  /\ research[r].status = "FAILED"
  /\ research[r].attempts < MaxAttempts
  /\ Becomes(r, [research[r] EXCEPT !.status = "QUEUED"])

\* A page of records is committed, late or not, by the ingestion.
Ingests(p) ==
  /\ p \notin pages
  /\ pages' = pages \cup {p}
  /\ UNCHANGED <<research, rows>>

-----------------------------------------------------------------------------
(* application/research/supersession.py *)

Correction(d, e, at) == [previous |-> d.run, next |-> e.run, at |-> at]

Replaced(d) == \E c \in rows.diffs : c.previous = d.run

\* Seeded fault: any earlier or later cutoff will do.
SupersedesAny(d, e, at) ==
  /\ d # e
  /\ ~Replaced(d)
  /\ at >= e.visible
  /\ rows' = [rows EXCEPT !.diffs = @ \cup {Correction(d, e, at)}]
  /\ UNCHANGED <<pages, research>>

\* A second replacement of a decision is refused, a repeated one is no news.
Supersedes(d, e, at) ==
  /\ d # e
  /\ ~Replaced(d)
  /\ Cutoff[e.run] >= Cutoff[d.run]
  /\ at >= e.visible
  /\ rows' = [rows EXCEPT !.diffs = @ \cup {Correction(d, e, at)}]
  /\ UNCHANGED <<pages, research>>

\* decision_is_active_at, for the decisions a reader sees at time t.
Active(t) ==
  {d \in rows.decisions :
     /\ d.visible <= t
     /\ \A c \in rows.diffs : \A e \in rows.decisions :
          c.previous = d.run /\ e.run = c.next => c.at > t \/ e.visible > t}

-----------------------------------------------------------------------------
Works(r) ==
  \/ Plans(r) \/ Normalizes(r) \/ Judges(r) \/ Reflects(r) \/ Concludes(r) \/ Verifies(r) \/ Freezes(r)
  \/ LooksUp(r) \/ Stores(r) \/ StoreFails(r)
  \/ \E f \in Feeds : Collects(r, f)

ResearchNext ==
  \/ \E r \in Runs : Claims(r) \/ Works(r) \/ Crashes(r) \/ Requeues(r)
  \/ \E p \in {x.page : x \in Records} : Ingests(p)
  \/ \E d, e \in rows.decisions, at \in 1..Cardinality(Runs) : Supersedes(d, e, at)

\* Attempts are bounded, so a run that is claimed and worked on must end.
ResearchSpec ==
  /\ ResearchInit /\ [][ResearchNext]_researchVars
  /\ \A r \in Runs : WF_researchVars(Claims(r)) /\ WF_researchVars(Works(r))

-----------------------------------------------------------------------------
(* Properties *)

RowsOf(d) == {e \in rows.evidence : \E l \in d.links : l.evidence = e.id}

\* Whatever is committed while it collects, and wherever it was interrupted, a
\* run that completes, and no other, leaves one decision; a decision that takes
\* a side rests on stored evidence that was known by its cutoff, was fresh, and
\* shows no two targets.
DecisionSound ==
  /\ \A r \in Runs : Cardinality({d \in rows.decisions : d.run = r})
                       = IF research[r].status = "COMPLETED" THEN 1 ELSE 0
  /\ \A d \in rows.decisions :
       /\ Cardinality(RowsOf(d)) = Cardinality(d.links)
       /\ d.claims \subseteq rows.claims
       /\ \A e \in RowsOf(d) : e.available <= Cutoff[d.run]
       /\ d.opinion # "ABSTAIN" =>
            /\ RowsOf(d) # {}
            /\ \A e \in RowsOf(d) : Cutoff[d.run] - e.available <= MaxAge[e.id[2]]
            /\ Cardinality({e.value : e \in {f \in RowsOf(d) : f.id[2] = "target_consensus"}}) < 2

\* What a decision did not have is on record: a feed without evidence has its
\* gap, as has a conflict, and each takes its part of the confidence.
GapsAreTold ==
  \A d \in rows.decisions :
    /\ \A f \in Feeds : (\A l \in d.links : l.evidence[2] # f) =>
                           \E gap \in d.gaps : gap.field = f
    /\ (\E l \in d.links : l.relation = "CONTRADICTS") =>
         Gap("CONFLICTED", "median_target") \in d.gaps /\ d.opinion = "ABSTAIN"
    /\ d.confidence <= 8 - Cardinality(d.gaps) \/ d.confidence = 0

\* A decision can be trusted as it is stored: it is the run's only one, it rests on
\* what was known, and it says what it lacked.
DecisionsHold == DecisionSound /\ GapsAreTold

\* Each of the decisions has been replaced by another of them and of its cutoff.
GoesRound(S, t) ==
  \A d \in S : \E e \in S : /\ Cutoff[e.run] = Cutoff[d.run]
                          /\ \E c \in rows.diffs : /\ c.previous = d.run /\ c.next = e.run
                                                   /\ c.at <= t

\* Corrections never leave a reader without a decision: whatever was replaced
\* by whatever, at each time at which one is visible one is active, unless
\* decisions of the same cutoff replaced one another, which nothing forbids.
SomeDecisionActive ==
  \A t \in 1..Cardinality(Runs) :
    LET visible == {d \in rows.decisions : d.visible <= t}
    IN visible # {} =>
         Active(t) # {} \/ \E S \in SUBSET visible : S # {} /\ GoesRound(S, t)

\* Interrupted or in each other's way, all runs end.
RunsEnd == \A r \in Runs : <>(research[r].status \in {"COMPLETED", "FAILED"})
=============================================================================
