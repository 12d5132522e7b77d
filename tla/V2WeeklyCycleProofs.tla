-------------------------- MODULE V2WeeklyCycleProofs --------------------------
(***************************************************************************)
(* What holds of V2WeeklyCycle for any number of threads, cycles and       *)
(* securities, any market, target and prices: the review slate, the steps  *)
(* offered, the implementation of V2Lifecycle, and that an executed batch  *)
(* turns the portfolio it was planned for into its target.                 *)
(***************************************************************************)
EXTENDS V2WeeklyCycle, ArithmeticTheorems, TLAPS

-----------------------------------------------------------------------------
(* The screening takes the best candidates *)

Before(S, rank, s) == {o \in S : rank[o] < rank[s]}

FirstOf(S, rank, n) == {s \in S : Cardinality(Before(S, rank, s)) < n}

(* Of elements with distinct ranks, those with fewer than n before them    *)
(* are all of them, or they are n and come before the others.              *)
LEMMA FirstOfARanking ==
  ASSUME NEW S, IsFiniteSet(S), NEW rank, NEW n \in Nat \ {0},
         \A s \in S : rank[s] \in Nat,
         \A s, o \in S : rank[s] = rank[o] => s = o,
         FirstOf(S, rank, n) # S
  PROVE  /\ FirstOf(S, rank, n) \subseteq S
         /\ Cardinality(FirstOf(S, rank, n)) = n
         /\ \A s \in FirstOf(S, rank, n), o \in S \ FirstOf(S, rank, n) :
              rank[s] < rank[o]
<1> DEFINE B(s) == Before(S, rank, s)
           F    == FirstOf(S, rank, n)
<1>1. \A s \in S : IsFiniteSet(B(s)) /\ Cardinality(B(s)) \in Nat
  <2> SUFFICES ASSUME NEW s \in S
               PROVE  IsFiniteSet(B(s)) /\ Cardinality(B(s)) \in Nat
    OBVIOUS
  <2>1. B(s) \in SUBSET S
    BY DEF Before
  <2> QED
    BY <2>1, FS_Subset, FS_CardinalityType
<1>2. \A s : s \in F <=> s \in S /\ Cardinality(B(s)) < n
  BY DEF FirstOf
<1>3. \A s, m \in S : rank[s] >= rank[m] => B(m) \subseteq B(s)
  BY DEF Before
<1>4. \A s, m \in S : rank[s] >= rank[m] => Cardinality(B(m)) <= Cardinality(B(s))
  <2> SUFFICES ASSUME NEW s \in S, NEW m \in S, rank[s] >= rank[m]
               PROVE  Cardinality(B(m)) <= Cardinality(B(s))
    OBVIOUS
  <2> QED
    BY <1>1, <1>3, FS_Subset
<1> HIDE DEF F, B
<1>5. \A s \in F, o \in S \ F : rank[s] < rank[o]
  <2> SUFFICES ASSUME NEW s \in F, NEW o \in S \ F, rank[s] >= rank[o]
               PROVE  FALSE
    BY <1>2
  <2>1. s \in S /\ o \in S
    BY <1>2
  <2>2. Cardinality(B(o)) <= Cardinality(B(s))
    BY <1>4, <2>1
  <2> QED
    BY <1>1, <1>2, <2>1, <2>2
<1>6. F \subseteq S /\ F # S
  BY <1>2 DEF F
<1>7. PICK m \in S \ F : \A o \in S \ F : rank[m] <= rank[o]
  <2> DEFINE R == {rank[o] : o \in S \ F}
  <2>1. R \in SUBSET Nat
    OBVIOUS
  <2>2. R # {}
    BY <1>6
  <2>3. PICK x \in R : \A y \in R : x <= y
    BY <2>1, <2>2, LeastExists
  <2> QED
    BY <2>3
<1>8. B(m) = F
  <2>1. \A o \in F : o \in B(m)
    BY <1>5, <1>6 DEF B, Before
  <2>2. \A o \in B(m) : o \in F
    <3> SUFFICES ASSUME NEW o \in S, rank[o] < rank[m] PROVE o \in F
      BY DEF B, Before
    <3> QED
      BY <1>7
  <2> QED
    BY <2>1, <2>2
<1>9. Cardinality(F) >= n /\ IsFiniteSet(F) /\ Cardinality(F) \in Nat
  BY <1>1, <1>2, <1>8
<1>10. PICK g \in F : \A s \in F : rank[s] <= rank[g]
  <2> DEFINE R == {rank[s] : s \in F}
  <2>1. rank[m] \in Nat /\ \A s \in F : rank[s] \in 0..rank[m]
    BY <1>5, <1>6
  <2>2. R \in SUBSET (0..rank[m])
    BY <2>1
  <2>3. R # {}
    BY <1>9, FS_EmptySet
  <2>4. PICK x \in R : \A y \in R : y <= x
    <3> HIDE DEF R
    <3> QED
      BY <2>1, <2>2, <2>3, GreatestExists
  <2> QED
    BY <2>4
<1>11. B(g) = F \ {g}
  <2>1. ASSUME NEW o \in B(g)
        PROVE  o \in F \ {g}
    <3>1. o \in S /\ rank[o] < rank[g] /\ g \in S
      BY <1>6 DEF B, Before
    <3>2. rank[o] \in Nat /\ rank[g] \in Nat
      BY <3>1
    <3>3. o \in F
      BY <1>5, <3>1, <3>2
    <3> QED
      BY <3>1, <3>2, <3>3
  <2>2. ASSUME NEW o \in F \ {g}
        PROVE  o \in B(g)
    <3>1. o \in S /\ g \in S /\ rank[o] <= rank[g] /\ rank[o] # rank[g]
      BY <1>6, <1>10
    <3>2. rank[o] \in Nat /\ rank[g] \in Nat
      BY <3>1
    <3> QED
      BY <3>1, <3>2 DEF B, Before
  <2> QED
    BY <2>1, <2>2
<1>12. Cardinality(F \ {g}) = Cardinality(F) - 1
  BY <1>9, FS_RemoveElement
<1>13. Cardinality(F) - 1 < n
  BY <1>2, <1>11, <1>12
<1>14. Cardinality(F) = n
  BY <1>9, <1>13
<1> QED
  BY <1>5, <1>6, <1>14 DEF F

(* No two securities that advance have the same rank.                      *)
LEMMA RanksAreDistinct ==
  ASSUME NEW market \in Markets
  PROVE  /\ Ranking(market) \in [Securities -> Nat]
         /\ \A s, o \in Securities :
              Ranking(market)[s] > 0 /\ Ranking(market)[s] = Ranking(market)[o]
                => s = o
<1> DEFINE A        == Advanced(market)
           Ahead(s) == {o \in A : RanksBefore(market, o, s)}
           rank     == Ranking(market)
<1>1. A \subseteq Securities /\ \A s \in A : market.bars[s].score \in Int
  BY CycleAssumption DEF Advanced
<1>2. IsFiniteSet(A)
  BY <1>1, ScreeningAssumption, FS_Subset
<1>3. \A s \in A : IsFiniteSet(Ahead(s)) /\ Cardinality(Ahead(s)) \in Nat
  <2> SUFFICES ASSUME NEW s \in A
               PROVE  IsFiniteSet(Ahead(s)) /\ Cardinality(Ahead(s)) \in Nat
    OBVIOUS
  <2>1. Ahead(s) \in SUBSET A
    OBVIOUS
  <2> HIDE DEF Ahead
  <2> QED
    BY <1>2, <2>1, FS_Subset, FS_CardinalityType
<1>4. rank = [s \in Securities |-> IF s \notin A THEN 0 ELSE 1 + Cardinality(Ahead(s))]
  BY DEF Ranking
<1>5. ASSUME NEW s \in A, NEW o \in A, RanksBefore(market, s, o)
      PROVE  Cardinality(Ahead(s)) < Cardinality(Ahead(o))
  <2>1. /\ Ticker[s] \in Nat /\ Ticker[o] \in Nat
        /\ market.bars[s].score \in Int /\ market.bars[o].score \in Int
    BY <1>1, ScreeningAssumption
  <2>2. \A x \in A : RanksBefore(market, x, s) => RanksBefore(market, x, o)
    <3> SUFFICES ASSUME NEW x \in A, RanksBefore(market, x, s)
                 PROVE  RanksBefore(market, x, o)
      OBVIOUS
    <3>1. Ticker[x] \in Nat /\ market.bars[x].score \in Int
      BY <1>1, ScreeningAssumption
    <3> QED
      BY <1>5, <2>1, <3>1 DEF RanksBefore
  <2>3. ~RanksBefore(market, s, s)
    BY <2>1 DEF RanksBefore
  <2>4. Ahead(s) \in SUBSET Ahead(o) /\ s \in Ahead(o) /\ s \notin Ahead(s)
    BY <1>5, <2>2, <2>3
  <2> HIDE DEF Ahead
  <2>5. /\ Cardinality(Ahead(s)) <= Cardinality(Ahead(o))
        /\ Cardinality(Ahead(o)) = Cardinality(Ahead(s)) => Ahead(o) = Ahead(s)
    BY <1>3, <2>4, FS_Subset
  <2> QED
    BY <1>3, <2>4, <2>5
<1>6. \A s, o \in A : s # o => RanksBefore(market, s, o) \/ RanksBefore(market, o, s)
  <2> SUFFICES ASSUME NEW s \in A, NEW o \in A, s # o
               PROVE  RanksBefore(market, s, o) \/ RanksBefore(market, o, s)
    OBVIOUS
  <2>1. /\ Ticker[s] \in Nat /\ Ticker[o] \in Nat /\ Ticker[s] # Ticker[o]
        /\ market.bars[s].score \in Int /\ market.bars[o].score \in Int
    BY <1>1, ScreeningAssumption
  <2> QED
    BY <2>1 DEF RanksBefore
<1> HIDE DEF Ahead, A, rank
<1>7. rank \in [Securities -> Nat]
  <2>1. \A s \in Securities :
          (IF s \notin A THEN 0 ELSE 1 + Cardinality(Ahead(s))) \in Nat
    BY <1>3
  <2> QED
    BY <1>4, <2>1
<1>8. ASSUME NEW s \in Securities, NEW o \in Securities,
             rank[s] > 0, rank[s] = rank[o]
      PROVE  s = o
  <2>1. s \in A /\ o \in A
    BY <1>4, <1>8
  <2>2. Cardinality(Ahead(s)) = Cardinality(Ahead(o))
    BY <1>3, <1>4, <1>8, <2>1
  <2> QED
    BY <1>3, <1>5, <1>6, <2>1, <2>2
<1> QED
  BY <1>7, <1>8 DEF rank

(* What ReviewsCoverThePortfolio demands of one cycle.                     *)
IsReviewed(c) ==
  LET held  == Held(c.plan.original)
      new   == NewSubjects(c.screening, c.plan.original)
      ideas == {s \in Securities \ held : c.screening.rank[s] > 0}
  IN /\ c.screening.holdings = held
     /\ \/ new = ideas
        \/ /\ new \subseteq ideas /\ Cardinality(new) = CandidateLimit
           /\ \A s \in new, o \in ideas \ new :
                c.screening.rank[s] < c.screening.rank[o]
     /\ {s \in Securities : c.plan.weights[s] > 0} \subseteq held \cup new

(* A target accepted after a screening for the portfolio of the plan.      *)
LEMMA AcceptedTargetIsReviewed ==
  ASSUME NEW market \in Markets, NEW allocation \in Allocations, NEW c,
         c.screening = Screen(market, Held(c.plan.original)),
         c.plan.weights = allocation.weights,
         IsResearchBounded(allocation, c.screening, c.plan.original)
  PROVE  IsReviewed(c)
<1> DEFINE held  == Held(c.plan.original)
           rank  == Ranking(market)
           new   == NewCandidates(rank, held)
           ideas == {s \in Securities \ held : rank[s] > 0}
<1>1. /\ c.screening.rank = rank /\ c.screening.holdings = held
      /\ c.screening.new = new
  BY DEF Screen
<1>2. /\ rank \in [Securities -> Nat]
      /\ \A s, o \in Securities : rank[s] > 0 /\ rank[s] = rank[o] => s = o
  BY RanksAreDistinct
<1>3. CandidateLimit \in Nat \ {0} /\ IsFiniteSet(Securities)
  BY ScreeningAssumption
<1> HIDE DEF rank
<1>4. new = FirstOf(ideas, rank, CandidateLimit)
  BY DEF NewCandidates, FirstOf, Before
<1>5. ideas \in SUBSET Securities
  OBVIOUS
<1>6. new \subseteq ideas
  BY <1>4 DEF FirstOf
<1>7. /\ \A s \in ideas : rank[s] \in Nat
      /\ \A s, o \in ideas : rank[s] = rank[o] => s = o
  BY <1>2
<1> HIDE DEF ideas, new
<1>8. IsFiniteSet(ideas)
  BY <1>3, <1>5, FS_Subset
<1>9. new # ideas => /\ Cardinality(new) = CandidateLimit
                     /\ \A s \in new, o \in ideas \ new : rank[s] < rank[o]
  BY <1>3, <1>4, <1>7, <1>8, FirstOfARanking
<1>10. NewSubjects(c.screening, c.plan.original) = new
  BY <1>1, <1>6 DEF NewSubjects, ideas
<1>11. {s \in Securities : c.plan.weights[s] > 0} \subseteq held \cup new
  <2>1. {s \in Securities : allocation.weights[s] > 0} \subseteq allocation.named
    BY CycleAssumption DEF IsAllocation
  <2>2. allocation.named \subseteq new \cup held
    BY <1>10 DEF IsResearchBounded, Subjects
  <2> QED
    BY <2>1, <2>2
<1> QED
  BY <1>1, <1>6, <1>9, <1>10, <1>11 DEF IsReviewed, ideas

-----------------------------------------------------------------------------
(* The inductive invariant *)

(* A recorded cycle: nothing is filled in before its time, and an approval *)
(* is only given to a plan that System Safety let through.                 *)
IsSoundCycle(c) ==
  /\ c = [id |-> c.id, created |-> c.created, screening |-> c.screening,
          plan |-> c.plan, safe |-> c.safe, outcome |-> c.outcome,
          decided |-> c.decided, by |-> c.by, executed |-> c.executed]
  /\ c.id \in Cycles /\ c.executed \in Nat
  /\ c.outcome \in {"NONE", "APPROVED", "REJECTED"}
  /\ c.outcome = "NONE" => c.decided = 0 /\ c.by = NoId /\ c.executed = 0
  /\ c.outcome # "NONE" => Legs(c.plan) # {}
  /\ c.outcome = "APPROVED" => c.safe
  /\ c.executed > 0 => c.outcome = "APPROVED"

UniqueIds(cycles) == \A a, b \in cycles : a.id = b.id => a = b

IsSound(r) ==
  /\ r = [managed |-> r.managed, quotes |-> r.quotes,
          records |-> r.records, cycles |-> r.cycles]
  /\ \E S : r.managed \in Seq(S)
  /\ \A c \in r.cycles : IsSoundCycle(c)
  /\ UniqueIds(r.cycles)

(* What the store allows a cycle to become.                                *)
IsLater(old, new) ==
  /\ SameArtifacts(old, new)
  /\ old.outcome # "NONE" =>
       new.outcome = old.outcome /\ new.decided = old.decided /\ new.by = old.by
  /\ old.executed > 0 => new.executed = old.executed

(* What prepare has read is part of the run.                               *)
IsCopy(p, r) ==
  /\ Len(p.managed) > 0 /\ RequireHistoryPrefix(p.managed, r.managed)
  /\ \A c \in p.cycles :
       IsReviewed(c) /\ \E now \in r.cycles : IsLater(c, now)

(* A proposal whose history still fits was screened for its portfolio; it  *)
(* executes and decides cycles that are there; all its cycles but one are  *)
(* no further than those of the run.                                       *)
IsPending(p, r) ==
  /\ RequireHistoryPrefix(r.managed, p.managed) => \A c \in p.cycles : IsReviewed(c)
  /\ \A c \in p.cycles : c.outcome # "NONE" =>
       \E old \in r.cycles : /\ old.id = c.id
                             /\ c.executed > 0 => old.outcome # "NONE"
  /\ \E id \in Cycles \cup {NoId} : \A c \in p.cycles :
       c.id # id => \E now \in r.cycles : IsLater(c, now)

Inv ==
  /\ IsSound(run) /\ Len(run.managed) > 0
  /\ \A c \in run.cycles : IsReviewed(c)
  /\ proposals = [t \in Threads |-> proposals[t]]
  /\ \A t \in Threads : IsSound(proposals[t])
  /\ \A t \in Threads : IF t \in preparing THEN IsCopy(proposals[t], run)
                                           ELSE IsPending(proposals[t], run)

(* A run that has come after another one.                                  *)
Follows(r, q) ==
  /\ RequireHistoryPrefix(r.managed, q.managed)
  /\ \A old \in r.cycles : \E new \in q.cycles : IsLater(old, new)

-----------------------------------------------------------------------------

LEMMA LaterIsTransitive ==
  ASSUME NEW a, NEW b, NEW c, IsLater(a, b), IsLater(b, c)
  PROVE  IsLater(a, c)
BY DEF IsLater, SameArtifacts

LEMMA PrefixIsTransitive ==
  ASSUME NEW a, NEW b, NEW c, Len(a) \in Nat, Len(b) \in Nat, Len(c) \in Nat,
         RequireHistoryPrefix(a, b), RequireHistoryPrefix(b, c)
  PROVE  RequireHistoryPrefix(a, c)
BY DEF RequireHistoryPrefix

(* Two cycles each later than the other are the same.                      *)
LEMMA LaterIsAntisymmetric ==
  ASSUME NEW a, NEW b, IsSoundCycle(a), IsSoundCycle(b), IsLater(a, b), IsLater(b, a)
  PROVE  a = b
<1>1. /\ a.id = b.id /\ a.created = b.created /\ a.screening = b.screening
      /\ a.plan = b.plan /\ a.safe = b.safe
  BY DEF IsLater, SameArtifacts
<1>2. /\ a.outcome = b.outcome /\ a.decided = b.decided /\ a.by = b.by
      /\ a.executed = b.executed
  BY DEF IsLater, IsSoundCycle
<1> QED
  BY <1>1, <1>2 DEF IsSoundCycle

LEMMA HistoryHasALength ==
  ASSUME NEW r, IsSound(r)
  PROVE  Len(r.managed) \in Nat
BY DEF IsSound

LEMMA CopyIsKept ==
  ASSUME NEW p, NEW r, NEW q, IsSound(p), IsSound(r), IsSound(q),
         Follows(r, q), IsCopy(p, r)
  PROVE  IsCopy(p, q)
<1>1. RequireHistoryPrefix(p.managed, q.managed)
  BY HistoryHasALength, PrefixIsTransitive DEF Follows, IsCopy
<1>2. ASSUME NEW c \in p.cycles
      PROVE  \E now \in q.cycles : IsLater(c, now)
  <2>1. PICK old \in r.cycles : IsLater(c, old)
    BY DEF IsCopy
  <2>2. PICK now \in q.cycles : IsLater(old, now)
    BY DEF Follows
  <2> QED
    BY <2>1, <2>2, LaterIsTransitive
<1> QED
  BY <1>1, <1>2 DEF IsCopy

LEMMA PendingIsKept ==
  ASSUME NEW p, NEW r, NEW q, IsSound(p), IsSound(r), IsSound(q),
         Follows(r, q), IsPending(p, r)
  PROVE  IsPending(p, q)
<1>1. RequireHistoryPrefix(q.managed, p.managed) => \A c \in p.cycles : IsReviewed(c)
  BY HistoryHasALength, PrefixIsTransitive DEF Follows, IsPending
<1>2. ASSUME NEW c \in p.cycles, c.outcome # "NONE"
      PROVE  \E old \in q.cycles : /\ old.id = c.id
                                   /\ c.executed > 0 => old.outcome # "NONE"
  <2>1. PICK old \in r.cycles : /\ old.id = c.id
                                /\ c.executed > 0 => old.outcome # "NONE"
    BY <1>2 DEF IsPending
  <2>2. PICK now \in q.cycles : IsLater(old, now)
    BY DEF Follows
  <2> QED
    BY <2>1, <2>2 DEF IsLater, SameArtifacts
<1>3. \E id \in Cycles \cup {NoId} : \A c \in p.cycles :
        c.id # id => \E now \in q.cycles : IsLater(c, now)
  <2>1. PICK id \in Cycles \cup {NoId} : \A c \in p.cycles :
          c.id # id => \E now \in r.cycles : IsLater(c, now)
    BY DEF IsPending
  <2>2. ASSUME NEW c \in p.cycles, c.id # id
        PROVE  \E now \in q.cycles : IsLater(c, now)
    <3>1. PICK old \in r.cycles : IsLater(c, old)
      BY <2>1, <2>2
    <3>2. PICK now \in q.cycles : IsLater(old, now)
      BY DEF Follows
    <3> QED
      BY <3>1, <3>2, LaterIsTransitive
  <2> QED
    BY <2>2
<1> QED
  BY <1>1, <1>2, <1>3 DEF IsPending

-----------------------------------------------------------------------------
(* The aggregates commands compute *)

(* A command that leaves the cycles alone.                                 *)
LEMMA SameCyclesArePending ==
  ASSUME NEW p, NEW r, IsSound(r), \A c \in r.cycles : IsReviewed(c),
         p.cycles = r.cycles
  PROVE  IsPending(p, r)
<1>1. \A c \in r.cycles : IsLater(c, c)
  BY DEF IsLater, SameArtifacts
<1>2. \A c \in r.cycles : c.executed > 0 => c.outcome # "NONE"
  BY DEF IsSound, IsSoundCycle
<1> QED
  BY <1>1, <1>2 DEF IsPending

LEMMA SnapshotIsSound ==
  ASSUME NEW r, IsSound(r), NEW at, NEW book
  PROVE  IsSound(WithSnapshot(r, at, book)) /\ WithSnapshot(r, at, book).cycles = r.cycles
<1> DEFINE x == [at |-> at, book |-> book]
           p == WithSnapshot(r, at, book)
<1>1. PICK S : r.managed \in Seq(S)
  BY DEF IsSound
<1>2. r.managed \in Seq(S \cup {x}) /\ x \in S \cup {x}
  BY <1>1
<1>3. Append(r.managed, x) \in Seq(S \cup {x})
  BY <1>2
<1>4. p = [managed |-> Append(r.managed, x), quotes |-> r.quotes,
           records |-> r.records, cycles |-> r.cycles]
  <2>1. r = [managed |-> r.managed, quotes |-> r.quotes,
             records |-> r.records, cycles |-> r.cycles]
    BY DEF IsSound
  <2>2. p = [r EXCEPT !.managed = Append(r.managed, x)]
    BY DEF WithSnapshot
  <2> HIDE DEF p, x
  <2> QED
    BY <2>1, <2>2
<1> QED
  BY <1>3, <1>4 DEF IsSound

LEMMA QuotedIsSound ==
  ASSUME NEW r, IsSound(r), NEW quotes
  PROVE  LET p == [r EXCEPT !.quotes = quotes]
         IN IsSound(p) /\ p.cycles = r.cycles /\ p.managed = r.managed
<1> DEFINE p == [r EXCEPT !.quotes = quotes]
<1>1. p = [managed |-> r.managed, quotes |-> quotes,
           records |-> r.records, cycles |-> r.cycles]
  BY DEF IsSound
<1> QED
  BY <1>1 DEF IsSound

LEMMA RecordedIsSound ==
  ASSUME NEW r, IsSound(r), NEW at
  PROVE  LET p == WithRecord(r, at)
         IN /\ IsSound(p) /\ p.cycles = r.cycles /\ p.managed = r.managed
            /\ p.quotes = r.quotes /\ p.records = r.records \cup {at}
<1> DEFINE records == r.records \cup {at}
           p       == WithRecord(r, at)
<1>1. r = [managed |-> r.managed, quotes |-> r.quotes,
           records |-> r.records, cycles |-> r.cycles]
  BY DEF IsSound
<1>2. p = [r EXCEPT !.records = records]
  BY DEF WithRecord
<1> HIDE DEF records, p
<1>3. p = [managed |-> r.managed, quotes |-> r.quotes,
           records |-> records, cycles |-> r.cycles]
  BY <1>1, <1>2
<1>4. IsSound(p)
  BY <1>3 DEF IsSound
<1> QED
  BY <1>3, <1>4 DEF p, records

(* An outcome is given to a cycle that has none.                           *)
LEMMA DecidedIsSound ==
  ASSUME NEW c, IsSoundCycle(c), NEW at, MayDecide(c, at), NEW t,
         NEW outcome \in {"APPROVED", "REJECTED"},
         outcome = "APPROVED" => c.safe
  PROVE  LET d == Decided(c, outcome, at, t)
         IN IsSoundCycle(d) /\ SameArtifacts(c, d) /\ d.executed = 0
<1> DEFINE d == Decided(c, outcome, at, t)
<1>1. d = [id |-> c.id, created |-> c.created, screening |-> c.screening,
           plan |-> c.plan, safe |-> c.safe, outcome |-> outcome,
           decided |-> at, by |-> t, executed |-> c.executed]
  <2>1. c = [id |-> c.id, created |-> c.created, screening |-> c.screening,
             plan |-> c.plan, safe |-> c.safe, outcome |-> c.outcome,
             decided |-> c.decided, by |-> c.by, executed |-> c.executed]
    BY DEF IsSoundCycle
  <2>2. d = [c EXCEPT !.outcome = outcome, !.decided = at, !.by = t]
    BY DEF Decided
  <2> HIDE DEF d
  <2> QED
    BY <2>1, <2>2
<1>2. c.id \in Cycles /\ c.executed = 0 /\ Legs(c.plan) # {}
  BY DEF IsSoundCycle, MayDecide
<1> HIDE DEF d
<1>3. IsSoundCycle(d)
  BY <1>1, <1>2 DEF IsSoundCycle
<1>4. SameArtifacts(c, d) /\ d.executed = 0
  BY <1>1, <1>2 DEF SameArtifacts
<1> QED
  BY <1>3, <1>4 DEF d

(* One cycle takes a step that IsLater allows and that is recorded soundly. *)
LEMMA ReplacedIsPending ==
  ASSUME NEW r, IsSound(r), \A c \in r.cycles : IsReviewed(c),
         NEW c \in r.cycles, NEW d, IsSoundCycle(d), SameArtifacts(c, d),
         d.executed > 0 => c.outcome # "NONE"
  PROVE  /\ IsSound(ReplaceCycle(r, c, d))
         /\ \A p : p.cycles = ReplaceCycle(r, c, d).cycles => IsPending(p, r)
<1> DEFINE cycles == (r.cycles \ {c}) \cup {d}
<1>1. ReplaceCycle(r, c, d) = [managed |-> r.managed, quotes |-> r.quotes,
                               records |-> r.records, cycles |-> cycles]
  <2>1. r = [managed |-> r.managed, quotes |-> r.quotes,
             records |-> r.records, cycles |-> r.cycles]
    BY DEF IsSound
  <2>2. ReplaceCycle(r, c, d) = [r EXCEPT !.cycles = cycles]
    BY DEF ReplaceCycle
  <2> HIDE DEF cycles
  <2> QED
    BY <2>1, <2>2
<1>2. d.id = c.id /\ d.screening = c.screening /\ d.plan = c.plan
  BY DEF SameArtifacts
<1>3. IsSound(ReplaceCycle(r, c, d))
  <2>1. UniqueIds(cycles)
    BY <1>2 DEF IsSound, UniqueIds
  <2>2. \A x \in cycles : IsSoundCycle(x)
    BY DEF IsSound
  <2> HIDE DEF cycles
  <2> QED
    BY <1>1, <2>1, <2>2 DEF IsSound
<1>4. IsReviewed(d)
  BY <1>2 DEF IsReviewed, NewSubjects
<1>5. c.id \in Cycles
  BY DEF IsSound, IsSoundCycle
<1>6. ASSUME NEW p, p.cycles = cycles
      PROVE  IsPending(p, r)
  <2>1. \A x \in p.cycles : IsReviewed(x)
    BY <1>4, <1>6
  <2>2. \A x \in p.cycles : x.outcome # "NONE" =>
          \E old \in r.cycles : /\ old.id = x.id
                                /\ x.executed > 0 => old.outcome # "NONE"
    <3>1. \A x \in r.cycles : x.executed > 0 => x.outcome # "NONE"
      BY DEF IsSound, IsSoundCycle
    <3> QED
      BY <1>2, <1>6, <3>1
  <2>3. \A x \in p.cycles : x.id # c.id => \E now \in r.cycles : IsLater(x, now)
    <3>1. \A x \in r.cycles : IsLater(x, x)
      BY DEF IsLater, SameArtifacts
    <3> QED
      BY <1>2, <1>6, <3>1
  <2> QED
    BY <1>5, <2>1, <2>2, <2>3 DEF IsPending
<1> QED
  BY <1>1, <1>3, <1>6

(* A thread serving no command has nothing to save.                        *)
LEMMA NoProposalIsHarmless ==
  ASSUME NEW r
  PROVE  /\ IsSound(NoProposal) /\ IsPending(NoProposal, r)
         /\ ~(Len(NoProposal.managed) > 0)
<1>1. NoProposal = [managed |-> <<>>, quotes |-> {}, records |-> {}, cycles |-> {}]
  <2> DEFINE first == <<[at |-> 0, book |-> [cash |-> InitialCash, held |-> InitialHeld]]>>
  <2>1. NewRun = [managed |-> first, quotes |-> {}, records |-> {}, cycles |-> {}]
    BY DEF NewRun
  <2>2. NoProposal = [NewRun EXCEPT !.managed = <<>>]
    BY DEF NoProposal
  <2> HIDE DEF first
  <2> QED
    BY <2>1, <2>2, Zenon
<1>2. <<>> \in Seq({})
  OBVIOUS
<1> QED
  BY <1>1, <1>2 DEF IsSound, UniqueIds, IsPending

(* What a command leaves in place of a thread's proposal.                  *)
LEMMA ProposalKeepsInv ==
  ASSUME Inv, NEW t \in Threads, NEW p, Proposes(t, p),
         IsSound(p), IsPending(p, run)
  PROVE  Inv'
<1>1. run' = run /\ preparing' = preparing
  BY DEF Proposes
<1>2. proposals' = [proposals EXCEPT ![t] = p]
  BY DEF Proposes
<1>3. /\ proposals' = [u \in Threads |-> proposals'[u]]
      /\ proposals'[t] = p
      /\ \A u \in Threads \ {t} : proposals'[u] = proposals[u]
  BY <1>2 DEF Inv
<1>4. t \notin preparing
  BY NoProposalIsHarmless DEF Proposes, Inv, IsCopy
<1> QED
  BY <1>1, <1>3, <1>4 DEF Inv

(* Only a save changes the run, to what a thread has computed.             *)
LEMMA OnlySavesChangeTheRun ==
  ASSUME [Next]_vars
  PROVE  \/ UNCHANGED run
         \/ \E t \in Threads \ preparing :
              Accepts(run, proposals[t]) /\ run' = proposals[t]
<1>1. ASSUME NEW t \in Threads, SaveTransition(t)
      PROVE  \/ UNCHANGED run
             \/ t \notin preparing /\ Accepts(run, proposals[t]) /\ run' = proposals[t]
  BY <1>1 DEF SaveTransition
<1> QED
  BY <1>1 DEF Next, vars, Proposes, StartPreparation, Prepare, Approve, Reject,
              Execute, ApplyCashEvent, ExecuteBuy, RefreshPrices

LEMMA AcceptedFollows ==
  ASSUME NEW r, NEW q, Accepts(r, q)
  PROVE  Follows(r, q)
BY DEF Accepts, Follows, RequireV2CycleTransitions, IsLater

(* The thread that prepares gets its cycle from what it has read.          *)
LEMMA PreparationKeepsInv ==
  ASSUME Inv, NEW t \in Threads, Prepare(t)
  PROVE  Inv'
<1> DEFINE read == proposals[t]
<1>1. t \in preparing /\ run' = run /\ preparing' = preparing \ {t}
  BY DEF Prepare
<1>2. IsSound(read) /\ IsCopy(read, run) /\ IsSound(run)
  BY <1>1 DEF Inv
<1>3. ASSUME NEW p, proposals' = [proposals EXCEPT ![t] = p],
             IsSound(p), IsPending(p, run)
      PROVE  Inv'
  <2>1. /\ proposals' = [u \in Threads |-> proposals'[u]]
        /\ proposals'[t] = p
        /\ \A u \in Threads \ {t} : proposals'[u] = proposals[u]
    BY <1>3 DEF Inv
  <2> QED
    BY <1>1, <1>3, <2>1 DEF Inv
<1>4. PICK id \in Fresh, market \in Markets, allocation \in Allocations,
           feed \in Feeds, now \in Times :
        LET book      == Managed(read)
            screening == ScreenNow(market)
            plan      == PlanFor(book, allocation, feed)
            cycle     == [id |-> id, created |-> now, screening |-> screening,
                          plan |-> plan, safe |-> IsSafe(plan), outcome |-> "NONE",
                          decided |-> 0, by |-> NoId, executed |-> 0]
        IN IF IsResearchBounded(allocation, screening, book)
           THEN proposals' = [proposals EXCEPT
                                ![t] = [read EXCEPT !.cycles = @ \cup {cycle}]]
           ELSE proposals' = [proposals EXCEPT ![t] = NoProposal]
  BY DEF Prepare
<1> DEFINE book      == Managed(read)
           screening == ScreenNow(market)
           plan      == PlanFor(book, allocation, feed)
           cycle     == [id |-> id, created |-> now, screening |-> screening,
                         plan |-> plan, safe |-> IsSafe(plan), outcome |-> "NONE",
                         decided |-> 0, by |-> NoId, executed |-> 0]
           p         == [read EXCEPT !.cycles = @ \cup {cycle}]
<1>5. CASE ~IsResearchBounded(allocation, screening, book)
  <2>1. proposals' = [proposals EXCEPT ![t] = NoProposal]
    BY <1>4, <1>5
  <2> QED
    BY <1>3, <2>1, NoProposalIsHarmless
<1>6. CASE IsResearchBounded(allocation, screening, book)
  <2>1. proposals' = [proposals EXCEPT ![t] = p]
    BY <1>4, <1>6
  <2>2. id \in Cycles /\ \A c \in read.cycles : c.id # id
    BY DEF Fresh
  <2>3. /\ cycle.id = id /\ cycle.screening = screening /\ cycle.plan = plan
        /\ cycle.outcome = "NONE" /\ cycle.executed = 0
    OBVIOUS
  <2>4. IsSoundCycle(cycle)
    BY <2>2 DEF IsSoundCycle
  <2>5. plan.original = book /\ plan.weights = allocation.weights
    BY DEF PlanFor
  <2>6. screening = Screen(market, Held(Managed(run)))
    BY DEF ScreenNow
  <2> HIDE DEF cycle, plan, screening
  <2>7. p = [managed |-> read.managed, quotes |-> read.quotes,
             records |-> read.records, cycles |-> read.cycles \cup {cycle}]
    <3>1. read = [managed |-> read.managed, quotes |-> read.quotes,
                  records |-> read.records, cycles |-> read.cycles]
      BY <1>2 DEF IsSound
    <3> HIDE DEF read
    <3> QED
      BY <3>1
  <2> HIDE DEF p, read
  <2>8. IsSound(p)
    <3>1. UniqueIds(read.cycles \cup {cycle})
      BY <1>2, <2>2, <2>3 DEF IsSound, UniqueIds
    <3> QED
      BY <1>2, <2>4, <2>7, <3>1 DEF IsSound
  <2>9. RequireHistoryPrefix(run.managed, p.managed) => \A c \in p.cycles : IsReviewed(c)
    <3> SUFFICES ASSUME RequireHistoryPrefix(run.managed, read.managed)
                 PROVE  IsReviewed(cycle)
      BY <1>2, <2>7 DEF IsCopy
    <3>1. Len(run.managed) = Len(read.managed) /\ Len(run.managed) \in Nat
      BY <1>2, HistoryHasALength DEF IsCopy, RequireHistoryPrefix
    <3>2. Len(run.managed) > 0
      BY DEF Inv
    <3>3. Managed(run) = Managed(read)
      BY <3>1, <3>2 DEF RequireHistoryPrefix, Managed, Newest
    <3> QED
      BY <1>6, <2>3, <2>5, <2>6, <3>3, AcceptedTargetIsReviewed
  <2>10. \A c \in p.cycles : c.outcome # "NONE" =>
           \E old \in run.cycles : /\ old.id = c.id
                                   /\ c.executed > 0 => old.outcome # "NONE"
    <3> SUFFICES ASSUME NEW c \in read.cycles, c.outcome # "NONE"
                 PROVE  \E old \in run.cycles : /\ old.id = c.id
                                                /\ c.executed > 0 => old.outcome # "NONE"
      BY <2>3, <2>7
    <3>1. PICK old \in run.cycles : IsLater(c, old)
      BY <1>2 DEF IsCopy
    <3> QED
      BY <3>1 DEF IsLater, SameArtifacts
  <2>11. \A c \in p.cycles : c.id # id => \E old \in run.cycles : IsLater(c, old)
    BY <1>2, <2>3, <2>7 DEF IsCopy
  <2>12. IsPending(p, run)
    BY <2>2, <2>9, <2>10, <2>11 DEF IsPending
  <2> QED
    BY <1>3, <2>1, <2>8, <2>12
<1> QED
  BY <1>5, <1>6

LEMMA InitIsSound ==
  ASSUME Init PROVE Inv
<1> DEFINE first == [at |-> 0, book |-> [cash |-> InitialCash, held |-> InitialHeld]]
<1>1. run = [managed |-> <<first>>, quotes |-> {}, records |-> {}, cycles |-> {}]
  BY DEF Init, NewRun
<1> HIDE DEF first
<1>2. <<first>> \in Seq({first}) /\ Len(<<first>>) > 0
  OBVIOUS
<1>3. IsSound(run)
  BY <1>1, <1>2 DEF IsSound, UniqueIds
<1>4. /\ proposals = [t \in Threads |-> NoProposal] /\ preparing = {}
      /\ run.cycles = {} /\ Len(run.managed) > 0
  BY <1>1, <1>2 DEF Init
<1>5. proposals = [t \in Threads |-> proposals[t]]
  BY <1>4
<1> QED
  BY <1>3, <1>4, <1>5, NoProposalIsHarmless DEF Inv

LEMMA InvIsInductive == Spec => []Inv
<1>1. Inv /\ [Next]_vars => Inv'
  <2> SUFFICES ASSUME Inv, [Next]_vars PROVE Inv'
    OBVIOUS
  <2>0. /\ IsSound(run) /\ Len(run.managed) > 0
        /\ \A c \in run.cycles : IsReviewed(c)
        /\ \A c \in run.cycles : IsSoundCycle(c)
    BY DEF Inv, IsSound
  <2>1. CASE UNCHANGED vars
    BY <2>1 DEF vars, Inv
  <2>2. ASSUME NEW t \in Threads, StartPreparation(t) PROVE Inv'
    <3>1. /\ run' = run /\ preparing' = preparing \cup {t}
          /\ proposals' = [proposals EXCEPT ![t] = run]
      BY <2>2 DEF StartPreparation
    <3>2. /\ proposals' = [u \in Threads |-> proposals'[u]]
          /\ proposals'[t] = run
          /\ \A u \in Threads \ {t} : proposals'[u] = proposals[u]
      BY <3>1 DEF Inv
    <3>3. IsCopy(run, run)
      <4>1. RequireHistoryPrefix(run.managed, run.managed)
        BY <2>0, HistoryHasALength DEF RequireHistoryPrefix
      <4>2. \A c \in run.cycles : IsLater(c, c)
        BY DEF IsLater, SameArtifacts
      <4> QED
        BY <2>0, <4>1, <4>2 DEF IsCopy
    <3> QED
      BY <2>0, <3>1, <3>2, <3>3 DEF Inv
  <2>3. ASSUME NEW t \in Threads, Prepare(t) PROVE Inv'
    BY <2>3, PreparationKeepsInv
  <2>4. ASSUME NEW t \in Threads, Approve(t) PROVE Inv'
    <3>1. PICK c \in run.cycles, at \in Times :
            /\ MayDecide(c, at) /\ c.safe
            /\ Proposes(t, ReplaceCycle(run, c, Decided(c, "APPROVED", at, t)))
      BY <2>4 DEF Approve
    <3> DEFINE d == Decided(c, "APPROVED", at, t)
    <3>2. IsSoundCycle(d) /\ SameArtifacts(c, d) /\ d.executed = 0
      BY <2>0, <3>1, DecidedIsSound
    <3>3. d.executed > 0 => c.outcome # "NONE"
      BY <3>2
    <3> HIDE DEF d
    <3>4. /\ IsSound(ReplaceCycle(run, c, d))
          /\ IsPending(ReplaceCycle(run, c, d), run)
      BY <2>0, <3>2, <3>3, ReplacedIsPending
    <3> QED
      BY <3>1, <3>4, ProposalKeepsInv DEF d
  <2>5. ASSUME NEW t \in Threads, Reject(t) PROVE Inv'
    <3>1. PICK c \in run.cycles, at \in Times :
            /\ MayDecide(c, at)
            /\ Proposes(t, ReplaceCycle(run, c, Decided(c, "REJECTED", at, t)))
      BY <2>5 DEF Reject
    <3> DEFINE d == Decided(c, "REJECTED", at, t)
    <3>2. IsSoundCycle(d) /\ SameArtifacts(c, d) /\ d.executed = 0
      BY <2>0, <3>1, DecidedIsSound
    <3>3. d.executed > 0 => c.outcome # "NONE"
      BY <3>2
    <3> HIDE DEF d
    <3>4. /\ IsSound(ReplaceCycle(run, c, d))
          /\ IsPending(ReplaceCycle(run, c, d), run)
      BY <2>0, <3>2, <3>3, ReplacedIsPending
    <3> QED
      BY <3>1, <3>4, ProposalKeepsInv DEF d
  <2>6. ASSUME NEW t \in Threads, Execute(t) PROVE Inv'
    <3>1. PICK c \in run.cycles, at \in Times :
            /\ c.outcome = "APPROVED"
            /\ Proposes(t, WithSnapshot(
                 [ReplaceCycle(run, c, [c EXCEPT !.executed = at])
                    EXCEPT !.quotes = @ \cup KeysOf(c.plan)],
                 at, Result(c.plan)))
      BY <2>6 DEF Execute
    <3> DEFINE d == [c EXCEPT !.executed = at]
               replaced == ReplaceCycle(run, c, d)
               quotes   == replaced.quotes \cup KeysOf(c.plan)
               quoted   == [replaced EXCEPT !.quotes = quotes]
               p        == WithSnapshot(quoted, at, Result(c.plan))
    <3>2. IsSoundCycle(d) /\ SameArtifacts(c, d)
      <4>1. IsSoundCycle(c) /\ at \in Nat
        BY <2>0, CycleAssumption DEF Times
      <4> QED
        BY <3>1, <4>1 DEF IsSoundCycle, SameArtifacts
    <3>3. Proposes(t, p)
      BY <3>1
    <3> HIDE DEF d
    <3>4. /\ IsSound(replaced)
          /\ \A x : x.cycles = replaced.cycles => IsPending(x, run)
      BY <2>0, <3>1, <3>2, ReplacedIsPending
    <3> HIDE DEF replaced, quotes
    <3>5. IsSound(quoted) /\ quoted.cycles = replaced.cycles
      BY <3>4, QuotedIsSound
    <3> HIDE DEF quoted
    <3>6. IsSound(p) /\ p.cycles = quoted.cycles
      BY <3>5, SnapshotIsSound
    <3> HIDE DEF p
    <3> QED
      BY <3>3, <3>4, <3>5, <3>6, ProposalKeepsInv
  <2>7. ASSUME NEW t \in Threads,
               ApplyCashEvent(t) \/ ExecuteBuy(t)
        PROVE  Inv'
    <3>1. PICK at, book : Proposes(t, WithSnapshot(WithRecord(run, at), at, book))
      BY <2>7 DEF ApplyCashEvent, ExecuteBuy
    <3> DEFINE recorded == WithRecord(run, at)
               p        == WithSnapshot(recorded, at, book)
    <3>2. Proposes(t, p)
      BY <3>1
    <3>3. IsSound(recorded) /\ recorded.cycles = run.cycles
      BY <2>0, RecordedIsSound
    <3> HIDE DEF recorded
    <3>4. IsSound(p) /\ p.cycles = run.cycles
      BY <3>3, SnapshotIsSound
    <3> HIDE DEF p
    <3>5. IsPending(p, run)
      BY <2>0, <3>4, SameCyclesArePending
    <3> QED
      BY <3>2, <3>4, <3>5, ProposalKeepsInv
  <2>8. ASSUME NEW t \in Threads, RefreshPrices(t) PROVE Inv'
    <3>1. PICK feed \in Feeds :
            LET keys   == {[security |-> s, at |-> feed[s].at] : s \in Securities}
                quoted == [run EXCEPT !.quotes = @ \cup keys]
            IN \/ Proposes(t, quoted)
               \/ \E at : Proposes(t, WithSnapshot(quoted, at, Managed(run)))
      BY <2>8 DEF RefreshPrices
    <3> DEFINE keys   == {[security |-> s, at |-> feed[s].at] : s \in Securities}
               quotes == run.quotes \cup keys
               quoted == [run EXCEPT !.quotes = quotes]
    <3>2. \/ Proposes(t, quoted)
          \/ \E at : Proposes(t, WithSnapshot(quoted, at, Managed(run)))
      BY <3>1
    <3> HIDE DEF quotes
    <3>3. IsSound(quoted) /\ quoted.cycles = run.cycles
      BY <2>0, QuotedIsSound
    <3> HIDE DEF quoted
    <3>4. IsPending(quoted, run)
      BY <2>0, <3>3, SameCyclesArePending
    <3>5. ASSUME NEW at, Proposes(t, WithSnapshot(quoted, at, Managed(run)))
          PROVE  Inv'
      <4> DEFINE p == WithSnapshot(quoted, at, Managed(run))
      <4>1. IsSound(p) /\ p.cycles = run.cycles
        BY <3>3, SnapshotIsSound
      <4> HIDE DEF p
      <4>2. IsPending(p, run)
        BY <2>0, <4>1, SameCyclesArePending
      <4>3. Proposes(t, p)
        BY <3>5 DEF p
      <4> QED
        BY <4>1, <4>2, <4>3, ProposalKeepsInv
    <3> QED
      BY <3>2, <3>3, <3>4, <3>5, ProposalKeepsInv
  <2>9. ASSUME NEW t \in Threads, SaveTransition(t) PROVE Inv'
    <3>1. /\ t \notin preparing /\ preparing' = preparing
          /\ \/ run' = run
             \/ run' = proposals[t] /\ Accepts(run, proposals[t])
          /\ proposals' = [proposals EXCEPT ![t] = NoProposal]
      BY <2>9 DEF SaveTransition
    <3>2. /\ proposals' = [u \in Threads |-> proposals'[u]]
          /\ proposals'[t] = NoProposal
          /\ \A u \in Threads \ {t} : proposals'[u] = proposals[u]
      BY <3>1 DEF Inv
    <3>3. CASE run' = run
      BY <3>1, <3>2, <3>3, NoProposalIsHarmless DEF Inv
    <3>4. CASE run' = proposals[t] /\ Accepts(run, proposals[t])
      <4>1. IsSound(run') /\ Follows(run, run') /\ IsPending(run', run)
        BY <3>1, <3>4, AcceptedFollows DEF Inv
      <4>2. /\ \A c \in run'.cycles : IsReviewed(c)
            /\ Len(run'.managed) > 0
        BY <2>0, <4>1, HistoryHasALength DEF Inv, Follows, IsPending, RequireHistoryPrefix
      <4>3. \A u \in Threads \ {t} : IF u \in preparing' THEN IsCopy(proposals'[u], run')
                                                   ELSE IsPending(proposals'[u], run')
        BY <2>0, <3>1, <3>2, <4>1, CopyIsKept, PendingIsKept DEF Inv
      <4> QED
        BY <3>1, <3>2, <4>1, <4>2, <4>3, NoProposalIsHarmless DEF Inv
    <3> QED
      BY <3>1, <3>3, <3>4
  <2> QED
    BY <2>1, <2>2, <2>3, <2>4, <2>5, <2>6, <2>7, <2>8, <2>9 DEF Next
<1> QED
  BY <1>1, InitIsSound, PTL DEF Spec

-----------------------------------------------------------------------------
(* Theorems *)

(***************************************************************************)
(* Although prepare reads the run twice, a recorded cycle was screened for *)
(* the portfolio it plans to trade, and takes the best candidates.         *)
(***************************************************************************)
THEOREM ReviewsAreComplete == Spec => []ReviewsCoverThePortfolio
<1>1. Inv => ReviewsCoverThePortfolio
  BY DEF Inv, ReviewsCoverThePortfolio, IsReviewed
<1> QED
  BY <1>1, InvIsInductive, PTL

(* A cycle that differs from the recorded one is one step further.         *)
LEMMA RecordedStep ==
  ASSUME NEW r, NEW q, IsSound(r), IsSound(q), Follows(r, q), IsPending(q, r),
         NEW old \in r.cycles, NEW new \in q.cycles, old.id = new.id, old # new
  PROVE  /\ SameArtifacts(old, new) /\ old.executed = 0
         /\ \/ old.outcome = "NONE" /\ new.outcome # "NONE" /\ new.executed = 0
            \/ old.outcome = "APPROVED" /\ new.executed > 0
<1>1. IsSoundCycle(old) /\ IsSoundCycle(new)
  BY DEF IsSound
<1>2. IsLater(old, new)
  <2>1. PICK x \in q.cycles : IsLater(old, x)
    BY DEF Follows
  <2>2. x = new
    BY <2>1 DEF IsSound, UniqueIds, IsLater, SameArtifacts
  <2> QED
    BY <2>1, <2>2
<1>3. ~IsLater(new, old)
  BY <1>1, <1>2, LaterIsAntisymmetric
<1>4. old.executed = 0
  BY <1>1, <1>2, <1>3 DEF IsLater, SameArtifacts, IsSoundCycle
<1>5. new.executed > 0 => old.outcome # "NONE"
  <2> SUFFICES ASSUME new.executed > 0 PROVE old.outcome # "NONE"
    OBVIOUS
  <2>1. new.outcome # "NONE"
    BY <1>1 DEF IsSoundCycle
  <2>2. PICK x \in r.cycles : x.id = new.id /\ x.outcome # "NONE"
    BY <2>1 DEF IsPending
  <2> QED
    BY <2>2 DEF IsSound, UniqueIds
<1>6. CASE old.outcome = "NONE"
  <2>1. new.executed = 0
    BY <1>1, <1>5, <1>6 DEF IsSoundCycle
  <2>2. new.outcome # "NONE"
    BY <1>1, <1>2, <1>3, <1>6, <2>1 DEF IsLater, SameArtifacts
  <2> QED
    BY <1>2, <1>4, <1>6, <2>1, <2>2 DEF IsLater
<1>7. CASE old.outcome # "NONE"
  <2>1. new.executed # 0
    BY <1>1, <1>2, <1>3, <1>4, <1>7 DEF IsLater, SameArtifacts, IsSoundCycle
  <2>2. new.executed > 0 /\ new.outcome = "APPROVED"
    BY <1>1, <2>1 DEF IsSoundCycle
  <2> QED
    BY <1>2, <1>4, <1>7, <2>2 DEF IsLater
<1> QED
  BY <1>6, <1>7

(* What a save finds and leaves behind.                                    *)
LEMMA SavedRun ==
  ASSUME Inv, Inv', [Next]_vars, run' # run
  PROVE  /\ IsSound(run) /\ IsSound(run')
         /\ Follows(run, run') /\ IsPending(run', run)
<1>1. PICK t \in Threads \ preparing : Accepts(run, proposals[t]) /\ run' = proposals[t]
  BY OnlySavesChangeTheRun
<1> QED
  BY <1>1, AcceptedFollows DEF Inv

(***************************************************************************)
(* A recorded cycle only ever takes a step its readiness offers, or keeps  *)
(* the terminal status it is shown with.                                   *)
(***************************************************************************)
THEOREM StepsWereOffered == Spec => OnlyOfferedSteps
<1>1. Inv /\ Inv' /\ [Next]_vars =>
        \A old \in run.cycles, new \in run'.cycles :
          old.id = new.id /\ old # new =>
            \/ (IF new.executed > 0 THEN "EXECUTED" ELSE new.outcome)
                 \in AvailableNext(old)
            \/ AvailableNext(old) = {} /\ ApprovalStatus(new) = ApprovalStatus(old)
  <2> SUFFICES ASSUME Inv, Inv', [Next]_vars,
                      NEW old \in run.cycles, NEW new \in run'.cycles,
                      old.id = new.id, old # new
               PROVE  \/ (IF new.executed > 0 THEN "EXECUTED" ELSE new.outcome)
                           \in AvailableNext(old)
                      \/ /\ AvailableNext(old) = {}
                         /\ ApprovalStatus(new) = ApprovalStatus(old)
    OBVIOUS
  <2>1. run' # run
    BY DEF Inv, IsSound, UniqueIds
  <2>2. /\ SameArtifacts(old, new) /\ old.executed = 0
        /\ \/ old.outcome = "NONE" /\ new.outcome # "NONE" /\ new.executed = 0
           \/ old.outcome = "APPROVED" /\ new.executed > 0
    BY <2>1, SavedRun, RecordedStep
  <2>3. IsSoundCycle(old) /\ IsSoundCycle(new)
    BY DEF Inv, IsSound
  <2>4. old.plan = new.plan /\ old.safe = new.safe /\ Legs(old.plan) # {}
    BY <2>2, <2>3 DEF SameArtifacts, IsSoundCycle
  <2>5. CASE old.outcome = "APPROVED" /\ new.executed > 0
    <3>1. AvailableNext(old) = {"EXECUTED"}
      BY <2>2, <2>3, <2>4, <2>5 DEF AvailableNext, ApprovalStatus, IsSoundCycle
    <3> QED
      BY <2>5, <3>1
  <2>6. CASE old.outcome = "NONE" /\ new.outcome # "NONE" /\ new.executed = 0
    <3>1. CASE old.safe
      <4>1. AvailableNext(old) = {"APPROVED", "REJECTED"}
        BY <2>4, <2>6, <3>1 DEF AvailableNext, ApprovalStatus
      <4>2. new.outcome \in {"APPROVED", "REJECTED"}
        BY <2>3, <2>6 DEF IsSoundCycle
      <4> QED
        BY <2>6, <4>1, <4>2
    <3>2. CASE ~old.safe
      BY <2>4, <2>6, <3>2 DEF AvailableNext, ApprovalStatus
    <3> QED
      BY <3>1, <3>2
  <2> QED
    BY <2>2, <2>5, <2>6
<1> QED
  BY <1>1, InvIsInductive, PTL DEF Spec, OnlyOfferedSteps

(* The stage of a recorded cycle.                                          *)
LEMMA StageOfCycle ==
  ASSUME NEW r, IsSound(r), NEW c \in r.cycles
  PROVE  Stage(r, c.id) = IF c.executed > 0 THEN "EXECUTED"
                          ELSE IF c.outcome = "NONE" THEN "PLANNED" ELSE c.outcome
<1>1. (CHOOSE x \in r.cycles : x.id = c.id) = c
  BY DEF IsSound, UniqueIds
<1> QED
  BY <1>1 DEF Stage

LEMMA StageOfNone ==
  ASSUME NEW r, NEW id, \A c \in r.cycles : c.id # id
  PROVE  Stage(r, id) = "ABSENT"
BY DEF Stage

(* A cycle that is no further than the run has it keeps its stage.         *)
LEMMA StageIsKept ==
  ASSUME NEW r, NEW q, IsSound(r), IsSound(q), Follows(r, q), NEW id,
         \A c \in q.cycles : c.id = id => \E now \in r.cycles : IsLater(c, now)
  PROVE  Stage(q, id) = Stage(r, id)
<1>1. CASE \E c \in r.cycles : c.id = id
  <2>1. PICK c \in r.cycles : c.id = id
    BY <1>1
  <2>2. PICK d \in q.cycles : IsLater(c, d)
    BY DEF Follows
  <2>3. d.id = id
    BY <2>1, <2>2 DEF IsLater, SameArtifacts
  <2>4. PICK e \in r.cycles : IsLater(d, e)
    BY <2>3
  <2>5. e = c
    BY <2>1, <2>3, <2>4 DEF IsSound, UniqueIds, IsLater, SameArtifacts
  <2>6. d = c
    BY <2>2, <2>4, <2>5, LaterIsAntisymmetric DEF IsSound
  <2> QED
    BY <2>1, <2>6, StageOfCycle
<1>2. CASE \A c \in r.cycles : c.id # id
  <2>1. \A c \in q.cycles : c.id # id
    BY <1>2 DEF IsLater, SameArtifacts
  <2> QED
    BY <1>2, <2>1, StageOfNone
<1> QED
  BY <1>1, <1>2

(***************************************************************************)
(* Whatever is computed on stale snapshots, each cycle gets one human      *)
(* outcome and at most one execution, which only an approval leads to.     *)
(***************************************************************************)
THEOREM LifecycleIsFollowed == Spec => LifecycleIsImplemented
<1> DEFINE stages == [id \in Cycles |-> Stage(run, id)]
<1>1. Init => Lifecycle!Init
  <2> SUFFICES ASSUME Init PROVE Lifecycle!Init
    OBVIOUS
  <2>1. run.cycles = {}
    BY DEF Init, NewRun
  <2> QED
    BY <2>1, StageOfNone DEF Lifecycle!Init
<1>2. Inv /\ Inv' /\ [Next]_vars => [Lifecycle!Next]_stages
  <2> SUFFICES ASSUME Inv, Inv', [Next]_vars PROVE [Lifecycle!Next]_stages
    OBVIOUS
  <2>0. stages' = [c \in Cycles |-> Stage(run', c)]
    BY DEF Stage
  <2>1. CASE run' = run
    BY <2>0, <2>1
  <2>2. CASE run' # run
    <3>1. /\ IsSound(run) /\ IsSound(run')
          /\ Follows(run, run') /\ IsPending(run', run)
      BY <2>2, SavedRun
    <3>2. PICK id \in Cycles \cup {NoId} : \A c \in run'.cycles :
            c.id # id => \E now \in run.cycles : IsLater(c, now)
      BY <3>1 DEF IsPending
    <3>3. \A other \in Cycles : other # id => Stage(run', other) = Stage(run, other)
      BY <3>1, <3>2, StageIsKept
    <3>4. CASE id \notin Cycles \/ Stage(run', id) = Stage(run, id)
      <4>1. \A other \in Cycles : Stage(run', other) = Stage(run, other)
        BY <3>3, <3>4
      <4> QED
        BY <2>0, <4>1
    <3>5. CASE id \in Cycles /\ Stage(run', id) # Stage(run, id)
      <4>1. PICK new \in run'.cycles : new.id = id
        <5> SUFFICES ASSUME \A c \in run'.cycles : c.id # id PROVE FALSE
          OBVIOUS
        <5>1. Stage(run', id) = Stage(run, id)
          BY <3>1, StageIsKept
        <5> QED
          BY <3>5, <5>1
      <4>2. IsSoundCycle(new)
        BY <3>1 DEF IsSound
      <4>3. Stage(run', id) = IF new.executed > 0 THEN "EXECUTED"
              ELSE IF new.outcome = "NONE" THEN "PLANNED" ELSE new.outcome
        BY <3>1, <4>1, StageOfCycle
      <4>4. \/ Stage(run, id) = "ABSENT" /\ Stage(run', id) = "PLANNED"
            \/ Stage(run, id) = "PLANNED" /\ Stage(run', id) \in {"APPROVED", "REJECTED"}
            \/ Stage(run, id) = "APPROVED" /\ Stage(run', id) = "EXECUTED"
        <5>1. CASE \A c \in run.cycles : c.id # id
          <6>1. new.outcome = "NONE"
            BY <3>1, <4>1, <5>1 DEF IsPending
          <6>2. new.executed = 0
            BY <4>2, <6>1 DEF IsSoundCycle
          <6> QED
            BY <4>3, <5>1, <6>1, <6>2, StageOfNone
        <5>2. CASE \E c \in run.cycles : c.id = id
          <6>1. PICK old \in run.cycles : old.id = id
            BY <5>2
          <6>2. Stage(run, id) = IF old.executed > 0 THEN "EXECUTED"
                  ELSE IF old.outcome = "NONE" THEN "PLANNED" ELSE old.outcome
            BY <3>1, <6>1, StageOfCycle
          <6>3. old # new
            BY <3>5, <4>3, <6>2
          <6>4. /\ old.executed = 0
                /\ \/ old.outcome = "NONE" /\ new.outcome # "NONE" /\ new.executed = 0
                   \/ old.outcome = "APPROVED" /\ new.executed > 0
            BY <3>1, <4>1, <6>1, <6>3, RecordedStep
          <6> QED
            BY <4>2, <4>3, <6>2, <6>4 DEF IsSoundCycle
        <5> QED
          BY <5>1, <5>2
      <4>5. stages' = [stages EXCEPT ![id] = Stage(run', id)]
        BY <2>0, <3>3, <3>5
      <4>6. stages[id] = Stage(run, id)
        BY <3>5
      <4> HIDE DEF stages
      <4> QED
        BY <3>5, <4>4, <4>5, <4>6 DEF Lifecycle!Next, Lifecycle!Advance, stages
    <3> QED
      BY <3>4, <3>5
  <2> QED
    BY <2>1, <2>2
<1> QED
  BY <1>1, <1>2, InvIsInductive, PTL DEF Spec, LifecycleIsImplemented, Lifecycle!Spec

-----------------------------------------------------------------------------
(* The batch of a plan *)

(* Rounding is off by at most half a unit.                                 *)
LEMMA HalfEvenIsNearest ==
  ASSUME NEW n \in Nat, NEW d \in Nat \ {0}
  PROVE  LET off == 2 * (HalfEven(n, d) * d - n)
         IN HalfEven(n, d) \in Nat /\ -d <= off /\ off <= d
<1> DEFINE q == n \div d
           r == n % d
           h == HalfEven(n, d)
<1>1. q \in Nat /\ r \in 0..(d - 1) /\ n = q * d + r
  BY DivTimes, ModOfDiv
<1>2. \/ h = q + 1 /\ 2 * r >= d
      \/ h = q /\ 2 * r <= d
  <2>1. h = IF 2 * r > d \/ (2 * r = d /\ q % 2 = 1) THEN q + 1 ELSE q
    BY DEF HalfEven
  <2> HIDE DEF h, q, r
  <2> QED
    BY <1>1, <2>1
<1> HIDE DEF h, q, r
<1>3. q * d \in Nat /\ (q + 1) * d = q * d + d
  BY <1>1
<1>4. CASE h = q + 1 /\ 2 * r >= d
  <2>1. h * d = q * d + d
    BY <1>3, <1>4
  <2> QED
    BY <1>1, <1>3, <1>4, <2>1 DEF h
<1>5. CASE h = q /\ 2 * r <= d
  <2>1. h * d = q * d
    BY <1>5
  <2> QED
    BY <1>1, <1>3, <1>5, <2>1 DEF h
<1> QED
  BY <1>2, <1>4, <1>5

(* The portfolio of a run: it never owes cash.                             *)
PaidBooks == [cash : Nat, held : [Securities -> Nat]]

(* A plan of a cycle: every security it holds or names has its price.      *)
IsPricedPlan(plan) ==
  /\ plan.original \in PaidBooks /\ plan.weights \in Targets
  /\ Held(plan.original) \subseteq Priced(plan)
  /\ Priced(plan) \subseteq Securities
  /\ \A s \in Priced(plan) : plan.prices[s].price \in Nat \ {0}
  /\ \E feed \in Feeds : \A s \in Priced(plan) : plan.prices[s] = feed[s]

(* What the positions of a portfolio are worth.                            *)
Worth(book, prices, S) == [s \in S |-> book.held[s] * prices[s].price]

LEMMA ValueOverPriced ==
  ASSUME NEW prices, NEW S \in SUBSET Securities,
         \A s \in S : prices[s].price \in Nat \ {0},
         NEW book, book.held \in [Securities -> Nat], Held(book) \subseteq S
  PROVE  Value(book, prices) = book.cash + SumFunctionOnSet(Worth(book, prices, S), S)
<1> DEFINE f == Worth(book, prices, S)
           g == Worth(book, prices, Held(book))
<1>1. IsFiniteSet(S) /\ IsFiniteSet(Held(book))
  BY ScreeningAssumption, FS_Subset
<1>2. \A s \in S : f[s] \in Int
  <2> SUFFICES ASSUME NEW s \in S PROVE f[s] \in Int
    OBVIOUS
  <2>1. book.held[s] \in Nat /\ prices[s].price \in Nat
    OBVIOUS
  <2> QED
    BY <2>1 DEF Worth
<1>3. \A s \in S \ Held(book) : f[s] = 0
  <2> SUFFICES ASSUME NEW s \in S \ Held(book) PROVE f[s] = 0
    OBVIOUS
  <2>1. book.held[s] = 0 /\ prices[s].price \in Nat
    <3>1. book.held[s] \in Nat /\ ~(book.held[s] > 0)
      BY DEF Held
    <3> QED
      BY <3>1
  <2> QED
    BY <2>1 DEF Worth
<1>4. \A s \in Held(book) : g[s] = f[s]
  BY DEF Worth
<1>5. Value(book, prices) = book.cash + SumFunctionOnSet(g, Held(book))
  BY DEF Value, SumFunction, Worth
<1> HIDE DEF f, g
<1>6. SumFunctionOnSet(f, S) = SumFunctionOnSet(f, Held(book))
  BY <1>1, <1>2, <1>3, SumOfNonzero
<1>7. SumFunctionOnSet(g, Held(book)) = SumFunctionOnSet(f, Held(book))
  BY <1>1, <1>4, SumCongruent
<1> QED
  BY <1>5, <1>6, <1>7 DEF f

(* A portfolio is worth a whole amount.                                    *)
LEMMA ValueIsNat ==
  ASSUME NEW prices, NEW S \in SUBSET Securities,
         \A s \in S : prices[s].price \in Nat \ {0},
         NEW book \in PaidBooks, Held(book) \subseteq S
  PROVE  Value(book, prices) \in Nat
<1> DEFINE f == Worth(book, prices, S)
<1>1. IsFiniteSet(S)
  BY ScreeningAssumption, FS_Subset
<1>2. \A s \in S : f[s] \in Nat
  <2> SUFFICES ASSUME NEW s \in S PROVE f[s] \in Nat
    OBVIOUS
  <2>1. book.held[s] \in Nat /\ prices[s].price \in Nat
    BY DEF PaidBooks
  <2> QED
    BY <2>1 DEF Worth
<1> HIDE DEF f
<1>3. SumFunctionOnSet(f, S) \in Nat
  BY <1>1, <1>2, SumNat
<1>4. Value(book, prices) = book.cash + SumFunctionOnSet(f, S)
  BY ValueOverPriced DEF f, PaidBooks
<1> QED
  BY <1>3, <1>4 DEF PaidBooks

(* The quantity of a priced security is its rounded target.                *)
LEMMA DesiredIsNearest ==
  ASSUME NEW plan, IsPricedPlan(plan), NEW s \in Priced(plan)
  PROVE  LET unit == WeightUnits * plan.prices[s].price
             off  == 2 * (Desired(plan, s) * unit
                            - Value(plan.original, plan.prices) * plan.weights[s])
         IN Desired(plan, s) \in Nat /\ -unit <= off /\ off <= unit
<1> DEFINE unit  == WeightUnits * plan.prices[s].price
           total == Value(plan.original, plan.prices)
           n     == total * plan.weights[s]
<1>1. total \in Nat
  <2> DEFINE prices == plan.prices
             book   == plan.original
             S      == Priced(plan)
  <2>1. /\ S \in SUBSET Securities /\ Held(book) \subseteq S /\ book \in PaidBooks
        /\ \A x \in S : prices[x].price \in Nat \ {0}
    BY DEF IsPricedPlan
  <2> HIDE DEF prices, book, S
  <2>2. Value(book, prices) \in Nat
    BY <2>1, ValueIsNat
  <2> QED
    BY <2>2 DEF prices, book
<1>2. plan.weights[s] \in Nat
  BY WeightAssumption DEF IsPricedPlan, Targets
<1>3. unit \in Nat \ {0}
  <2>1. plan.prices[s].price \in Nat \ {0}
    BY DEF IsPricedPlan
  <2> QED
    BY <2>1, WeightAssumption
<1>4. n \in Nat
  BY <1>1, <1>2
<1>5. Desired(plan, s) = HalfEven(n, unit)
  BY DEF Desired
<1> HIDE DEF n, unit
<1> QED
  BY <1>3, <1>4, <1>5, HalfEvenIsNearest DEF n, unit

(* The batch moves value between cash and positions, and makes none.       *)
LEMMA ResultIsWorthThePlan ==
  ASSUME NEW plan, IsPricedPlan(plan)
  PROVE  /\ Result(plan).cash \in Int
         /\ Result(plan).held \in [Securities -> Nat]
         /\ \A s \in Priced(plan) : Result(plan).held[s] = Desired(plan, s)
         /\ Held(Result(plan)) \subseteq Priced(plan)
         /\ Value(Result(plan), plan.prices) = Value(plan.original, plan.prices)
<1> DEFINE S      == Priced(plan)
           prices == plan.prices
           before == plan.original
           after  == Result(plan)
           f      == Worth(before, prices, S)
           g      == Worth(after, prices, S)
           d      == [s \in S |-> Delta(plan, s) * prices[s].price]
<1>1. /\ S \in SUBSET Securities /\ Held(before) \subseteq S
      /\ before.cash \in Nat /\ before.held \in [Securities -> Nat]
      /\ \A s \in S : prices[s].price \in Nat \ {0}
  BY DEF IsPricedPlan, PaidBooks
<1>2. \A s \in S : Desired(plan, s) \in Nat
  BY DesiredIsNearest
<1>3. /\ after.cash = before.cash - SumFunctionOnSet(d, S)
      /\ after.held = [s \in Securities |-> IF s \in S THEN Desired(plan, s) ELSE 0]
  BY DEF Result, SumFunction
<1>4. \A s \in S : Delta(plan, s) = Desired(plan, s) - before.held[s]
  BY DEF Delta
<1> HIDE DEF S, prices, before, after
<1>5. /\ after.held \in [Securities -> Nat] /\ Held(after) \subseteq S
      /\ \A s \in S : after.held[s] = Desired(plan, s)
  <2>1. \A s \in Securities : (IF s \in S THEN Desired(plan, s) ELSE 0) \in Nat
    BY <1>2
  <2>2. after.held \in [Securities -> Nat]
    BY <1>3, <2>1
  <2>3. \A s \in Securities : s \notin S => ~(after.held[s] > 0)
    BY <1>3
  <2>4. Held(after) \subseteq S
    BY <2>3 DEF Held
  <2> QED
    BY <1>1, <1>3, <2>2, <2>4
<1>6. IsFiniteSet(S)
  BY <1>1, ScreeningAssumption, FS_Subset
<1>7. \A s \in S : f[s] \in Int /\ d[s] \in Int /\ g[s] = f[s] + d[s]
  <2> SUFFICES ASSUME NEW s \in S PROVE f[s] \in Int /\ d[s] \in Int /\ g[s] = f[s] + d[s]
    OBVIOUS
  <2> DEFINE p == prices[s].price
             x == before.held[s]
             y == Desired(plan, s)
  <2>1. p \in Nat /\ x \in Nat /\ y \in Nat
    BY <1>1, <1>2
  <2>2. f[s] = x * p /\ g[s] = y * p /\ d[s] = (y - x) * p
    BY <1>4, <1>5 DEF Worth
  <2> HIDE DEF p, x, y, f, g, d
  <2>3. x * p \in Int /\ y * p \in Int /\ (y - x) * p = y * p - x * p
    BY <2>1
  <2> QED
    BY <2>2, <2>3
<1> HIDE DEF f, g, d
<1>8. SumFunctionOnSet(g, S) = SumFunctionOnSet(f, S) + SumFunctionOnSet(d, S)
  BY <1>6, <1>7, SumOfSums
<1>9. SumFunctionOnSet(f, S) \in Int /\ SumFunctionOnSet(d, S) \in Int
  BY <1>6, <1>7, SumInt
<1>10. Value(before, prices) = before.cash + SumFunctionOnSet(f, S)
  BY <1>1, ValueOverPriced DEF f
<1>11. Value(after, prices) = after.cash + SumFunctionOnSet(g, S)
  BY <1>1, <1>5, ValueOverPriced DEF g
<1>12. after.cash \in Int
  BY <1>1, <1>3, <1>9
<1>13. Value(after, prices) = Value(before, prices)
  BY <1>1, <1>3, <1>8, <1>9, <1>10, <1>11
<1> QED
  BY <1>5, <1>12, <1>13 DEF S, prices, before, after

(* The plan prepare makes of an allowed answer.                            *)
LEMMA PlanIsPriced ==
  ASSUME NEW book \in PaidBooks, NEW allocation \in Allocations, NEW feed \in Feeds
  PROVE  IsPricedPlan(PlanFor(book, allocation, feed))
<1> DEFINE plan == PlanFor(book, allocation, feed)
           S    == Held(book) \cup allocation.named
<1>1. /\ plan.original = book /\ plan.weights = allocation.weights
      /\ plan.prices = [s \in S |-> feed[s]]
  BY DEF PlanFor
<1>2. allocation.weights \in Targets /\ allocation.named \subseteq Securities
  BY CycleAssumption DEF IsAllocation
<1>3. S \subseteq Securities /\ Held(book) \subseteq S
  BY <1>2 DEF Held
<1>4. \A s \in Securities : feed[s].price \in Nat \ {0}
  BY CycleAssumption
<1> HIDE DEF plan, S
<1>5. Priced(plan) = S /\ \A s \in S : plan.prices[s] = feed[s]
  BY <1>1 DEF Priced
<1> QED
  BY <1>1, <1>2, <1>3, <1>4, <1>5 DEF IsPricedPlan, plan

-----------------------------------------------------------------------------
(* What the history of a run is made of *)

Snapshots == [at : Times, book : PaidBooks]

(* A snapshot marks the portfolio before it, is what a V1 command has      *)
(* recorded, or what an executed cycle made of the portfolio.              *)
IsStep(r, g, h) ==
  \/ h.book = g.book
  \/ h.at \in r.records
  \/ \E c \in r.cycles : c.executed = h.at

(* An executed cycle has left its result in the history.                   *)
HasResult(history, c) ==
  \E i \in 1..Len(history) :
    history[i] = [at |-> c.executed, book |-> Result(c.plan)]

IsTypedCycle(c) == IsCycle(c) /\ IsPricedPlan(c.plan)

IsAccounted(r) ==
  /\ r.managed \in Seq(Snapshots) /\ r.quotes \in SUBSET QuoteKeys
  /\ \A i, j \in 1..Len(r.managed) : i < j => r.managed[i].at < r.managed[j].at
  /\ \A i \in 2..Len(r.managed) : IsStep(r, r.managed[i - 1], r.managed[i])
  /\ r.records \in SUBSET Times
  /\ \A at \in r.records : at <= Newest(r.managed).at
  /\ \A c \in r.cycles :
       IsTypedCycle(c) /\ (c.executed > 0 => HasResult(r.managed, c))

(* A command that takes no snapshot executes nothing.                      *)
LEMMA SameHistoryIsAccounted ==
  ASSUME NEW r, NEW p, IsAccounted(r), p.managed = r.managed,
         p.records = r.records,
         p.quotes \in SUBSET QuoteKeys,
         \A c \in p.cycles : c \in r.cycles \/ (IsTypedCycle(c) /\ c.executed = 0),
         \A c \in r.cycles : c.executed > 0 => c \in p.cycles
  PROVE  IsAccounted(p)
<1>1. \A c \in p.cycles :
        IsTypedCycle(c) /\ (c.executed > 0 => HasResult(p.managed, c))
  BY DEF IsAccounted
<1>2. Len(r.managed) \in Nat
  BY DEF IsAccounted
<1>3. ASSUME NEW i \in 2..Len(r.managed)
      PROVE  IsStep(p, r.managed[i - 1], r.managed[i])
  <2>1. IsStep(r, r.managed[i - 1], r.managed[i])
    BY DEF IsAccounted
  <2>2. r.managed[i].at > 0
    <3>0. /\ i \in 1..Len(r.managed) /\ i - 1 \in 1..Len(r.managed) /\ i - 1 < i
          /\ r.managed \in Seq(Snapshots)
          /\ \A k, j \in 1..Len(r.managed) : k < j => r.managed[k].at < r.managed[j].at
      BY <1>2 DEF IsAccounted
    <3>1. /\ r.managed[i] \in Snapshots /\ r.managed[i - 1] \in Snapshots
          /\ r.managed[i - 1].at < r.managed[i].at
      BY <3>0
    <3> QED
      BY <3>1, CycleAssumption DEF Snapshots, Times
  <2> QED
    BY <2>1, <2>2 DEF IsStep
<1> QED
  BY <1>1, <1>3 DEF IsAccounted

(* A snapshot is appended, with the execution it is the result of.         *)
LEMMA AppendedIsAccounted ==
  ASSUME NEW r, NEW p, NEW x \in Snapshots,
         IsAccounted(r), Len(r.managed) > 0, x.at > Newest(r.managed).at,
         p.managed = Append(r.managed, x), p.quotes \in SUBSET QuoteKeys,
         \A c \in p.cycles :
           \/ c \in r.cycles
           \/ /\ IsTypedCycle(c)
              /\ x = [at |-> c.executed, book |-> Result(c.plan)],
         \A c \in r.cycles : c.executed > 0 => c \in p.cycles,
         p.records \in SUBSET Times, r.records \subseteq p.records,
         p.records \subseteq r.records \cup {x.at},
         IsStep(p, Newest(r.managed), x)
  PROVE  IsAccounted(p)
<1> DEFINE h == r.managed
           n == Len(r.managed)
<1>1. h \in Seq(Snapshots) /\ n \in Nat /\ n > 0 /\ n = Len(h) /\ Newest(h) = h[n]
  BY DEF IsAccounted, Newest
<1>2. \A i, j \in 1..n : i < j => h[i].at < h[j].at
  BY DEF IsAccounted
<1>3. \A i \in 2..n : IsStep(r, h[i - 1], h[i])
  BY DEF IsAccounted
<1>4. p.managed = Append(h, x) /\ x.at > h[n].at
  BY <1>1
<1> HIDE DEF h, n
<1>5. /\ p.managed \in Seq(Snapshots) /\ Len(p.managed) = n + 1
      /\ p.managed[n + 1] = x /\ \A i \in 1..n : p.managed[i] = h[i]
  BY <1>1, <1>4
<1>6. \A i \in 1..n : h[i].at \in Nat /\ h[i].at <= h[n].at
  <2> SUFFICES ASSUME NEW i \in 1..n PROVE h[i].at \in Nat /\ h[i].at <= h[n].at
    OBVIOUS
  <2>1. h[i].at \in Nat /\ h[n].at \in Nat
    <3>1. h[i] \in Snapshots /\ h[n] \in Snapshots
      BY <1>1
    <3> QED
      BY <3>1, CycleAssumption DEF Snapshots, Times
  <2>2. i = n \/ h[i].at < h[n].at
    BY <1>1, <1>2
  <2> QED
    BY <2>1, <2>2
<1>7. x.at \in Nat
  BY CycleAssumption DEF Snapshots, Times
<1>8. ASSUME NEW i \in 1..(n + 1), NEW j \in 1..(n + 1), i < j
      PROVE  p.managed[i].at < p.managed[j].at
  <2>1. i \in 1..n
    BY <1>1, <1>8
  <2>2. CASE j \in 1..n
    BY <1>2, <1>5, <1>8, <2>1, <2>2
  <2>3. CASE j = n + 1
    <3>1. h[i].at <= h[n].at /\ h[i].at \in Nat /\ h[n].at \in Nat
      BY <1>1, <1>6, <2>1
    <3> QED
      BY <1>4, <1>5, <1>7, <2>1, <2>3, <3>1
  <2>4. n \in Nat
    BY <1>1
  <2>5. j \in 1..n \/ j = n + 1
    BY <2>4
  <2> QED
    BY <2>2, <2>3, <2>5
<1>9. ASSUME NEW i \in 2..(n + 1)
      PROVE  IsStep(p, p.managed[i - 1], p.managed[i])
  <2>1. CASE i = n + 1
    <3>1. p.managed[i - 1] = h[n] /\ p.managed[i] = x
      BY <1>1, <1>5, <2>1
    <3> QED
      BY <1>1, <3>1 DEF h
  <2>2. CASE i # n + 1
    <3>1. i \in 2..n /\ i \in 1..n /\ i - 1 \in 1..n /\ i - 1 < i
      BY <1>1, <2>2
    <3>2. p.managed[i - 1] = h[i - 1] /\ p.managed[i] = h[i]
      BY <1>5, <3>1
    <3>3. IsStep(r, h[i - 1], h[i])
      BY <1>3, <3>1
    <3>4. h[i].at > 0
      <4>1. h[i - 1].at < h[i].at /\ h[i - 1].at \in Nat /\ h[i].at \in Nat
        BY <1>2, <1>6, <3>1
      <4> QED
        BY <4>1
    <3> QED
      BY <3>2, <3>3, <3>4 DEF IsStep
  <2> QED
    BY <2>1, <2>2
<1>10. \A c \in r.cycles : HasResult(h, c) => HasResult(p.managed, c)
  BY <1>1, <1>5 DEF HasResult
<1>11. \A c \in p.cycles :
         IsTypedCycle(c) /\ (c.executed > 0 => HasResult(p.managed, c))
  <2> SUFFICES ASSUME NEW c \in p.cycles
               PROVE  IsTypedCycle(c) /\ (c.executed > 0 => HasResult(p.managed, c))
    OBVIOUS
  <2>1. CASE c \in r.cycles
    BY <1>10, <2>1 DEF IsAccounted, h
  <2>2. CASE IsTypedCycle(c) /\ x = [at |-> c.executed, book |-> Result(c.plan)]
    <3>1. n + 1 \in 1..Len(p.managed)
      BY <1>1, <1>5
    <3> QED
      BY <1>5, <2>2, <3>1 DEF HasResult
  <2> QED
    BY <2>1, <2>2
<1>12. \A at \in p.records : at <= Newest(p.managed).at
  <2>1. Newest(p.managed) = x
    BY <1>5 DEF Newest
  <2>2. \A at \in r.records : at \in Nat /\ at <= h[n].at
    BY <1>1, CycleAssumption DEF IsAccounted, Times, h
  <2>3. h[n].at \in Nat
    BY <1>1, <1>6
  <2>4. ASSUME NEW at \in p.records PROVE at <= x.at
    <3>1. at = x.at \/ at \in r.records
      OBVIOUS
    <3>2. CASE at \in r.records
      BY <1>4, <1>7, <2>2, <2>3, <3>2
    <3> QED
      BY <1>7, <3>1, <3>2
  <2> QED
    BY <2>1, <2>4
<1> QED
  BY <1>5, <1>8, <1>9, <1>11, <1>12 DEF IsAccounted

-----------------------------------------------------------------------------
(* The invariant on histories *)

Accounted ==
  /\ IsAccounted(run) /\ \A t \in Threads : IsAccounted(proposals[t])
  /\ preparing \subseteq {t \in Threads : proposals[t] # NoProposal}

LEMMA InitialRunsAreAccounted == IsAccounted(NewRun) /\ IsAccounted(NoProposal)
<1> DEFINE x == [at |-> 0, book |-> [cash |-> InitialCash, held |-> InitialHeld]]
<1>1. /\ NewRun = [managed |-> <<x>>, quotes |-> {}, records |-> {}, cycles |-> {}]
      /\ NoProposal = [NewRun EXCEPT !.managed = <<>>]
  BY DEF NewRun, NoProposal
<1>2. x \in Snapshots
  BY CycleAssumption DEF Snapshots, PaidBooks, Times
<1> HIDE DEF x
<1>3. NoProposal = [managed |-> <<>>, quotes |-> {}, records |-> {}, cycles |-> {}]
  BY <1>1, Zenon
<1>4. <<x>> \in Seq(Snapshots) /\ Len(<<x>>) = 1
  BY <1>2
<1>5. <<>> \in Seq(Snapshots) /\ Len(<<>>) = 0
  OBVIOUS
<1>6. IsAccounted(NewRun)
  BY <1>1, <1>4 DEF IsAccounted
<1>7. IsAccounted(NoProposal)
  BY <1>3, <1>5 DEF IsAccounted
<1> QED
  BY <1>6, <1>7

LEMMA NewestOfAccounted ==
  ASSUME NEW r, IsAccounted(r), Len(r.managed) > 0
  PROVE  /\ Newest(r.managed) \in Snapshots
         /\ Newest(r.managed).at \in Nat
         /\ Managed(r) \in PaidBooks
         /\ \A i \in 1..Len(r.managed) :
              /\ r.managed[i].at \in Nat /\ r.managed[i].at <= Newest(r.managed).at
              /\ r.managed[i].at = Newest(r.managed).at => i = Len(r.managed)
<1> DEFINE h == r.managed
           n == Len(r.managed)
<1>1. h \in Seq(Snapshots) /\ n \in Nat /\ n > 0 /\ Newest(h) = h[n] /\ n = Len(h)
  BY DEF IsAccounted, Newest
<1>2. \A i, j \in 1..n : i < j => h[i].at < h[j].at
  BY DEF IsAccounted
<1> HIDE DEF h, n
<1>3. h[n] \in Snapshots /\ n \in 1..n
  BY <1>1
<1>4. \A i \in 1..n : h[i].at \in Nat
  <2> SUFFICES ASSUME NEW i \in 1..n PROVE h[i].at \in Nat
    OBVIOUS
  <2>1. h[i] \in Snapshots
    BY <1>1
  <2> QED
    BY <2>1, CycleAssumption DEF Snapshots, Times
<1>5. \A i \in 1..n : h[i].at <= h[n].at /\ (h[i].at = h[n].at => i = n)
  <2> SUFFICES ASSUME NEW i \in 1..n
               PROVE  h[i].at <= h[n].at /\ (h[i].at = h[n].at => i = n)
    OBVIOUS
  <2>1. i = n \/ h[i].at < h[n].at
    BY <1>1, <1>2, <1>3
  <2>2. h[i].at \in Nat /\ h[n].at \in Nat
    BY <1>3, <1>4
  <2> QED
    BY <2>1, <2>2
<1>6. Managed(r) \in PaidBooks
  BY <1>1, <1>3 DEF Managed, Snapshots, h
<1> QED
  BY <1>1, <1>3, <1>4, <1>5, <1>6 DEF h, n

LEMMA ProposalKeepsAccounts ==
  ASSUME Inv, Accounted, NEW t \in Threads, NEW p, Proposes(t, p), IsAccounted(p)
  PROVE  Accounted'
<1>1. run' = run /\ preparing' = preparing /\ proposals[t] = NoProposal
      /\ proposals' = [proposals EXCEPT ![t] = p]
  BY DEF Proposes
<1>2. /\ proposals' = [u \in Threads |-> proposals'[u]]
      /\ proposals'[t] = p
      /\ \A u \in Threads \ {t} : proposals'[u] = proposals[u]
  BY <1>1 DEF Inv
<1>3. \A u \in preparing : u \in Threads /\ proposals'[u] # NoProposal
  BY <1>1, <1>2 DEF Accounted
<1>4. IsAccounted(run') /\ \A u \in Threads : IsAccounted(proposals'[u])
  BY <1>1, <1>2 DEF Accounted
<1>5. (\A u \in Threads : IsAccounted(proposals[u]))'
  BY <1>4 DEF IsAccounted
<1>6. IsAccounted(run)'
  BY <1>4 DEF IsAccounted
<1> QED
  BY <1>1, <1>3, <1>5, <1>6 DEF Accounted

(* Decisions leave the plan alone.                                         *)
LEMMA DecidedIsTyped ==
  ASSUME NEW c, IsSoundCycle(c), IsTypedCycle(c), NEW at \in Times,
         NEW t \in Threads, NEW outcome \in {"APPROVED", "REJECTED"},
         MayDecide(c, at)
  PROVE  LET d == Decided(c, outcome, at, t)
         IN IsTypedCycle(d) /\ d.executed = 0 /\ d.plan = c.plan
<1> DEFINE d == Decided(c, outcome, at, t)
<1>1. c = [id |-> c.id, created |-> c.created, screening |-> c.screening,
           plan |-> c.plan, safe |-> c.safe, outcome |-> c.outcome,
           decided |-> c.decided, by |-> c.by, executed |-> c.executed]
  BY DEF IsSoundCycle
<1>2. d = [c EXCEPT !.outcome = outcome, !.decided = at, !.by = t]
  BY DEF Decided
<1> HIDE DEF d
<1>3. d = [id |-> c.id, created |-> c.created, screening |-> c.screening,
           plan |-> c.plan, safe |-> c.safe, outcome |-> outcome,
           decided |-> at, by |-> t, executed |-> c.executed]
  BY <1>1, <1>2
<1>4. c.executed = 0
  BY DEF IsSoundCycle, MayDecide
<1>5. /\ d.id = c.id /\ d.created = c.created /\ d.screening = c.screening
      /\ d.plan = c.plan /\ d.safe = c.safe /\ d.outcome = outcome
      /\ d.decided = at /\ d.by = t /\ d.executed = c.executed
  BY <1>3
<1>6. IsTypedCycle(d)
  BY <1>5 DEF IsTypedCycle, IsCycle
<1> QED
  BY <1>4, <1>5, <1>6 DEF d

LEMMA DecisionsKeepAccounts ==
  ASSUME Inv, Accounted, NEW t \in Threads, Approve(t) \/ Reject(t)
  PROVE  Accounted'
<1>1. PICK c \in run.cycles, at \in Times, outcome \in {"APPROVED", "REJECTED"} :
        /\ MayDecide(c, at)
        /\ Proposes(t, ReplaceCycle(run, c, Decided(c, outcome, at, t)))
  BY DEF Approve, Reject
<1> DEFINE d == Decided(c, outcome, at, t)
           p == ReplaceCycle(run, c, d)
<1>2. /\ IsAccounted(run) /\ IsSound(run) /\ IsSoundCycle(c) /\ IsTypedCycle(c)
  BY DEF Inv, Accounted, IsAccounted, IsSound
<1>3. IsTypedCycle(d) /\ d.executed = 0
  BY <1>1, <1>2, DecidedIsTyped
<1>4. c.executed = 0
  BY <1>1, <1>2 DEF IsSoundCycle, MayDecide
<1>5. Proposes(t, p)
  BY <1>1
<1> HIDE DEF d
<1>6. /\ p.managed = run.managed /\ p.quotes = run.quotes /\ p.records = run.records
      /\ p.cycles = (run.cycles \ {c}) \cup {d}
  <2>1. run = [managed |-> run.managed, quotes |-> run.quotes,
               records |-> run.records, cycles |-> run.cycles]
    BY <1>2 DEF IsSound
  <2> QED
    BY <2>1 DEF ReplaceCycle
<1> HIDE DEF p
<1>7. IsAccounted(p)
  <2>1. run.quotes \in SUBSET QuoteKeys
    BY <1>2 DEF IsAccounted
  <2>2. ASSUME NEW x \in p.cycles
        PROVE  x \in run.cycles \/ (IsTypedCycle(x) /\ x.executed = 0)
    <3>1. x \in run.cycles \/ x = d
      BY <1>6
    <3> QED
      BY <1>3, <3>1
  <2>3. \A x \in run.cycles : x.executed > 0 => x \in p.cycles
    BY <1>4, <1>6
  <2> QED
    BY <1>2, <1>6, <2>1, <2>2, <2>3, SameHistoryIsAccounted
<1> QED
  BY <1>5, <1>7, ProposalKeepsAccounts

LEMMA SnapshotFields ==
  ASSUME NEW r, IsSound(r), NEW at, NEW book
  PROVE  LET p == WithSnapshot(r, at, book)
         IN /\ p.managed = Append(r.managed, [at |-> at, book |-> book])
            /\ p.quotes = r.quotes /\ p.records = r.records /\ p.cycles = r.cycles
<1> DEFINE x == [at |-> at, book |-> book]
           p == WithSnapshot(r, at, book)
<1>1. r = [managed |-> r.managed, quotes |-> r.quotes,
           records |-> r.records, cycles |-> r.cycles]
  BY DEF IsSound
<1>2. p = [r EXCEPT !.managed = Append(r.managed, x)]
  BY DEF WithSnapshot
<1> HIDE DEF p, x
<1>3. p = [managed |-> Append(r.managed, x), quotes |-> r.quotes,
           records |-> r.records, cycles |-> r.cycles]
  BY <1>1, <1>2
<1> QED
  BY <1>3 DEF p, x

(* A mark, or what a V1 command records with its snapshot.                 *)
LEMMA SnapshotIsAccounted ==
  ASSUME NEW r, IsAccounted(r), Len(r.managed) > 0,
         NEW at \in Times, MayAppend(r, at), NEW book \in PaidBooks,
         NEW q, IsSound(q), q.managed = r.managed, q.cycles = r.cycles,
         q.quotes \in SUBSET QuoteKeys, q.records \in SUBSET Times,
         r.records \subseteq q.records, q.records \subseteq r.records \cup {at},
         book = Managed(r) \/ at \in q.records
  PROVE  IsAccounted(WithSnapshot(q, at, book))
<1> DEFINE x == [at |-> at, book |-> book]
           p == WithSnapshot(q, at, book)
<1>1. x \in Snapshots /\ x.at = at /\ x.book = book
  BY DEF Snapshots
<1>2. /\ p.managed = Append(r.managed, x) /\ p.quotes = q.quotes
      /\ p.records = q.records /\ p.cycles = r.cycles
  BY SnapshotFields
<1>3. x.at > Newest(r.managed).at
  BY DEF MayAppend
<1> HIDE DEF x, p
<1>4. IsStep(p, Newest(r.managed), x)
  BY <1>1, <1>2 DEF IsStep, Managed
<1>5. p.quotes \in SUBSET QuoteKeys /\ p.records \in SUBSET Times
  BY <1>2
<1>6. r.records \subseteq p.records /\ p.records \subseteq r.records \cup {x.at}
  BY <1>1, <1>2
<1>7. \A c \in p.cycles : c \in r.cycles
  BY <1>2
<1>8. \A c \in r.cycles : c \in p.cycles
  BY <1>2
<1>9. IsAccounted(p)
  BY <1>1, <1>2, <1>3, <1>4, <1>5, <1>6, <1>7, <1>8, AppendedIsAccounted
<1> QED
  BY <1>9 DEF p

LEMMA OthersKeepAccounts ==
  ASSUME Inv, Accounted, NEW t \in Threads,
         ApplyCashEvent(t) \/ ExecuteBuy(t) \/ RefreshPrices(t)
  PROVE  Accounted'
<1>1. /\ IsAccounted(run) /\ IsSound(run) /\ Len(run.managed) > 0
      /\ Managed(run) \in PaidBooks /\ run.quotes \in SUBSET QuoteKeys
      /\ run.records \in SUBSET Times
  BY NewestOfAccounted DEF Inv, Accounted, IsAccounted
<1>2. ASSUME NEW at \in Times, MayAppend(run, at), NEW book \in PaidBooks,
             Proposes(t, WithSnapshot(WithRecord(run, at), at, book))
      PROVE  Accounted'
  <2> DEFINE q == WithRecord(run, at)
  <2>1. /\ IsSound(q) /\ q.managed = run.managed /\ q.cycles = run.cycles
        /\ q.quotes = run.quotes /\ q.records = run.records \cup {at}
    BY <1>1, RecordedIsSound
  <2>2. Proposes(t, WithSnapshot(q, at, book))
    BY <1>2
  <2> HIDE DEF q
  <2>3. IsAccounted(WithSnapshot(q, at, book))
    <3>1. q.quotes \in SUBSET QuoteKeys /\ q.records \in SUBSET Times
      BY <1>1, <2>1
    <3>2. /\ run.records \subseteq q.records /\ at \in q.records
          /\ q.records \subseteq run.records \cup {at}
      BY <2>1
    <3> QED
      BY <1>1, <1>2, <2>1, <3>1, <3>2, SnapshotIsAccounted
  <2> QED
    BY <2>2, <2>3, ProposalKeepsAccounts
<1> DEFINE book == Managed(run)
<1>3. /\ book.cash \in Nat /\ book.held \in [Securities -> Nat]
      /\ book = [cash |-> book.cash, held |-> book.held]
  BY <1>1 DEF PaidBooks
<1>4. CASE ApplyCashEvent(t)
  <2> DEFINE new == [book EXCEPT !.cash = @ + Deposit]
  <2>1. PICK at \in Times : /\ MayAppend(run, at)
                            /\ Proposes(t, WithSnapshot(WithRecord(run, at), at, new))
    BY <1>4 DEF ApplyCashEvent
  <2>2. new \in PaidBooks
    <3>1. Deposit \in Nat
      BY CycleAssumption
    <3> HIDE DEF book
    <3> QED
      BY <1>3, <3>1 DEF PaidBooks
  <2> HIDE DEF new
  <2> QED
    BY <1>2, <2>1, <2>2
<1>5. CASE ExecuteBuy(t)
  <2> DEFINE new == [book EXCEPT !.cash = @ - Purchase.cost,
                                 !.held[Purchase.security] = @ + Purchase.quantity]
  <2>1. PICK at \in Times : /\ MayAppend(run, at) /\ book.cash >= Purchase.cost
                            /\ Proposes(t, WithSnapshot(WithRecord(run, at), at, new))
    BY <1>5 DEF ExecuteBuy
  <2>2. new \in PaidBooks
    <3>1. /\ Purchase.cost \in Nat /\ Purchase.quantity \in Nat
          /\ Purchase.security \in Securities
      BY CycleAssumption
    <3>2. book.cash >= Purchase.cost
      BY <2>1
    <3> HIDE DEF book
    <3>3. book.cash - Purchase.cost \in Nat
      BY <1>3, <3>1, <3>2
    <3>4. [book.held EXCEPT ![Purchase.security] = @ + Purchase.quantity]
            \in [Securities -> Nat]
      BY <1>3, <3>1
    <3> QED
      BY <1>3, <3>3, <3>4 DEF PaidBooks
  <2> HIDE DEF new
  <2> QED
    BY <1>2, <2>1, <2>2
<1>6. CASE RefreshPrices(t)
  <2>1. PICK feed \in Feeds :
          LET keys   == {[security |-> s, at |-> feed[s].at] : s \in Securities}
              quoted == [run EXCEPT !.quotes = @ \cup keys]
          IN \/ Proposes(t, quoted)
             \/ \E at \in {feed[s].at : s \in Securities} :
                  /\ MayAppend(run, at)
                  /\ Proposes(t, WithSnapshot(quoted, at, Managed(run)))
    BY <1>6 DEF RefreshPrices
  <2> DEFINE keys   == {[security |-> s, at |-> feed[s].at] : s \in Securities}
             quotes == run.quotes \cup keys
             quoted == [run EXCEPT !.quotes = quotes]
  <2>2. \A s \in Securities : feed[s].at \in Times
    BY CycleAssumption DEF Times
  <2>3. quotes \in SUBSET QuoteKeys
    BY <1>1, <2>2 DEF QuoteKeys
  <2>4. \/ Proposes(t, quoted)
        \/ \E at \in Times : /\ MayAppend(run, at)
                             /\ Proposes(t, WithSnapshot(quoted, at, Managed(run)))
    BY <2>1, <2>2
  <2> HIDE DEF quotes
  <2>5. /\ quoted.managed = run.managed /\ quoted.quotes = quotes
        /\ quoted.records = run.records /\ quoted.cycles = run.cycles
    BY <1>1 DEF IsSound
  <2>6. IsSound(quoted)
    BY <1>1, QuotedIsSound
  <2> HIDE DEF quoted
  <2>7. IsAccounted(quoted)
    <3>1. \A c \in quoted.cycles : c \in run.cycles
      BY <2>5
    <3>2. \A c \in run.cycles : c \in quoted.cycles
      BY <2>5
    <3>3. quoted.quotes \in SUBSET QuoteKeys
      BY <2>3, <2>5
    <3> QED
      BY <1>1, <2>5, <3>1, <3>2, <3>3, SameHistoryIsAccounted
  <2>8. ASSUME NEW at \in Times, MayAppend(run, at)
        PROVE  IsAccounted(WithSnapshot(quoted, at, Managed(run)))
    <3>1. quoted.quotes \in SUBSET QuoteKeys /\ quoted.records \in SUBSET Times
      BY <1>1, <2>3, <2>5
    <3>2. run.records \subseteq quoted.records
          /\ quoted.records \subseteq run.records \cup {at}
      BY <2>5
    <3> QED
      BY <1>1, <2>5, <2>6, <2>8, <3>1, <3>2, SnapshotIsAccounted
  <2> QED
    BY <2>4, <2>7, <2>8, ProposalKeepsAccounts
<1> QED
  BY <1>4, <1>5, <1>6

(* What prepare reads is the run, later what it makes of it.               *)
LEMMA PreparationKeepsAccounts ==
  ASSUME Inv, Accounted, NEW t \in Threads, StartPreparation(t) \/ Prepare(t)
  PROVE  Accounted'
<1>1. ASSUME NEW p, proposals' = [proposals EXCEPT ![t] = p], IsAccounted(p),
             run' = run, preparing' \subseteq preparing \cup {t},
             p = NoProposal => t \notin preparing'
      PROVE  Accounted'
  <2>1. /\ proposals' = [u \in Threads |-> proposals'[u]]
        /\ proposals'[t] = p
        /\ \A u \in Threads \ {t} : proposals'[u] = proposals[u]
    BY <1>1 DEF Inv
  <2>2. \A u \in preparing' : u \in Threads /\ proposals'[u] # NoProposal
    BY <1>1, <2>1 DEF Accounted
  <2>3. IsAccounted(run') /\ \A u \in Threads : IsAccounted(proposals'[u])
    BY <1>1, <2>1 DEF Accounted
  <2>4. (\A u \in Threads : IsAccounted(proposals[u]))'
    BY <2>3 DEF IsAccounted
  <2>5. IsAccounted(run)'
    BY <2>3 DEF IsAccounted
  <2> QED
    BY <2>2, <2>4, <2>5 DEF Accounted
<1>2. CASE StartPreparation(t)
  <2>1. run # NoProposal
    BY NoProposalIsHarmless DEF Inv
  <2>2. IsAccounted(run)
    BY DEF Accounted
  <2>3. /\ proposals' = [proposals EXCEPT ![t] = run]
        /\ run' = run /\ preparing' = preparing \cup {t}
    BY <1>2 DEF StartPreparation
  <2> QED
    BY <1>1, <2>1, <2>2, <2>3
<1>3. CASE Prepare(t)
  <2> DEFINE read == proposals[t]
             book == Managed(read)
  <2>1. t \in preparing /\ run' = run /\ preparing' = preparing \ {t}
    BY <1>3 DEF Prepare
  <2>2. /\ IsSound(read) /\ IsAccounted(read) /\ Len(read.managed) > 0
        /\ IsSound(run) /\ IsAccounted(run) /\ Len(run.managed) > 0
    BY <2>1 DEF Inv, Accounted, IsCopy
  <2>3. book \in PaidBooks /\ Managed(run) \in PaidBooks
    BY <2>2, NewestOfAccounted
  <2>4. PICK id \in Fresh, market \in Markets, allocation \in Allocations,
             feed \in Feeds, now \in Times :
          LET screening == ScreenNow(market)
              plan      == PlanFor(book, allocation, feed)
              cycle     == [id |-> id, created |-> now, screening |-> screening,
                            plan |-> plan, safe |-> IsSafe(plan), outcome |-> "NONE",
                            decided |-> 0, by |-> NoId, executed |-> 0]
          IN \/ proposals' = [proposals EXCEPT
                                ![t] = [read EXCEPT !.cycles = @ \cup {cycle}]]
             \/ proposals' = [proposals EXCEPT ![t] = NoProposal]
    BY <1>3 DEF Prepare
  <2> DEFINE screening == ScreenNow(market)
             plan      == PlanFor(book, allocation, feed)
             cycle     == [id |-> id, created |-> now, screening |-> screening,
                           plan |-> plan, safe |-> IsSafe(plan), outcome |-> "NONE",
                           decided |-> 0, by |-> NoId, executed |-> 0]
             cycles    == read.cycles \cup {cycle}
             p         == [read EXCEPT !.cycles = cycles]
  <2>5. \/ proposals' = [proposals EXCEPT ![t] = p]
        \/ proposals' = [proposals EXCEPT ![t] = NoProposal]
    BY <2>4
  <2>6. screening.rank \in [Securities -> Nat] /\ screening.holdings \subseteq Securities
        /\ screening.new \subseteq Securities
    BY RanksAreDistinct DEF ScreenNow, Screen, NewCandidates, Held
  <2>7. IsPricedPlan(plan)
    BY <2>3, PlanIsPriced
  <2>8. plan.original \in Books /\ plan.weights \in Targets /\ Priced(plan) \subseteq Securities
    BY <2>7 DEF IsPricedPlan, PaidBooks, Books
  <2>9. IsSafe(plan) \in BOOLEAN
    BY DEF IsSafe
  <2>10. id \in Cycles /\ 0 \in Times
    BY CycleAssumption DEF Fresh, Times
  <2> HIDE DEF plan, screening
  <2>11. IsTypedCycle(cycle) /\ cycle.executed = 0
    BY <2>6, <2>7, <2>8, <2>9, <2>10 DEF IsTypedCycle, IsCycle
  <2> HIDE DEF cycle
  <2>12. /\ p.managed = read.managed /\ p.quotes = read.quotes
         /\ p.records = read.records
         /\ p.cycles = read.cycles \cup {cycle}
    <3>1. read = [managed |-> read.managed, quotes |-> read.quotes,
                  records |-> read.records, cycles |-> read.cycles]
      BY <2>2 DEF IsSound
    <3> HIDE DEF read
    <3> QED
      BY <3>1
  <2> HIDE DEF p
  <2>13. IsAccounted(p)
    <3>1. \A c \in p.cycles : c \in read.cycles \/ (IsTypedCycle(c) /\ c.executed = 0)
      BY <2>11, <2>12
    <3>2. \A c \in read.cycles : c \in p.cycles
      BY <2>12
    <3>3. p.quotes \in SUBSET QuoteKeys
      BY <2>2, <2>12 DEF IsAccounted
    <3> QED
      BY <2>2, <2>12, <3>1, <3>2, <3>3, SameHistoryIsAccounted
  <2>14. t \notin preparing' /\ preparing' \subseteq preparing \cup {t}
    BY <2>1
  <2> QED
    BY <1>1, <2>1, <2>5, <2>13, <2>14, InitialRunsAreAccounted
<1> QED
  BY <1>2, <1>3

(* The batch of an executed cycle is recorded with it.                     *)
LEMMA ExecutionKeepsAccounts ==
  ASSUME Inv, Accounted, NEW t \in Threads, Execute(t)
  PROVE  Accounted'
<1>1. PICK c \in run.cycles, at \in Times :
        /\ c.executed = 0 /\ IsSafe(c.plan) /\ MayAppend(run, at)
        /\ Proposes(t, WithSnapshot(
             [ReplaceCycle(run, c, [c EXCEPT !.executed = at])
                EXCEPT !.quotes = @ \cup KeysOf(c.plan)],
             at, Result(c.plan)))
  BY DEF Execute
<1> DEFINE d        == [c EXCEPT !.executed = at]
           x        == [at |-> at, book |-> Result(c.plan)]
           replaced == ReplaceCycle(run, c, d)
           quotes   == replaced.quotes \cup KeysOf(c.plan)
           quoted   == [replaced EXCEPT !.quotes = quotes]
           p        == WithSnapshot(quoted, at, Result(c.plan))
<1>2. /\ IsSound(run) /\ IsAccounted(run) /\ Len(run.managed) > 0
      /\ IsSoundCycle(c) /\ IsTypedCycle(c)
  BY DEF Inv, Accounted, IsSound, IsAccounted
<1>3. /\ d.id = c.id /\ d.created = c.created /\ d.screening = c.screening
      /\ d.plan = c.plan /\ d.safe = c.safe /\ d.outcome = c.outcome
      /\ d.decided = c.decided /\ d.by = c.by /\ d.executed = at
  <2>1. c = [id |-> c.id, created |-> c.created, screening |-> c.screening,
             plan |-> c.plan, safe |-> c.safe, outcome |-> c.outcome,
             decided |-> c.decided, by |-> c.by, executed |-> c.executed]
    BY <1>2 DEF IsSoundCycle
  <2> QED
    BY <2>1
<1>4. Proposes(t, p)
  BY <1>1
<1>5. IsPricedPlan(c.plan)
  BY <1>2 DEF IsTypedCycle
<1>6. x \in Snapshots
  <2>1. Result(c.plan).cash \in Nat
    <3>1. Result(c.plan).cash \in Int
      BY <1>5, ResultIsWorthThePlan
    <3> QED
      BY <1>1, <3>1 DEF IsSafe
  <2>2. Result(c.plan).held \in [Securities -> Nat]
    BY <1>5, ResultIsWorthThePlan
  <2>3. Result(c.plan) = [cash |-> Result(c.plan).cash, held |-> Result(c.plan).held]
    BY DEF Result
  <2>4. Result(c.plan) \in PaidBooks
    BY <2>1, <2>2, <2>3 DEF PaidBooks
  <2> QED
    BY <2>4 DEF Snapshots
<1>7. x.at = at /\ x = [at |-> d.executed, book |-> Result(d.plan)]
  BY <1>3
<1>8. KeysOf(c.plan) \in SUBSET QuoteKeys
  <2>1. PICK feed \in Feeds : \A s \in Priced(c.plan) : c.plan.prices[s] = feed[s]
    BY <1>5 DEF IsPricedPlan
  <2>2. \A s \in Priced(c.plan) : s \in Securities /\ c.plan.prices[s].at \in Times
    BY <1>5, <2>1, CycleAssumption DEF IsPricedPlan, Times
  <2> QED
    BY <2>2 DEF KeysOf, QuoteKeys
<1>9. IsTypedCycle(d)
  BY <1>2, <1>3 DEF IsTypedCycle, IsCycle
<1> HIDE DEF d
<1>10. replaced = [managed |-> run.managed, quotes |-> run.quotes,
                   records |-> run.records,
                   cycles |-> (run.cycles \ {c}) \cup {d}]
  <2>1. run = [managed |-> run.managed, quotes |-> run.quotes,
             records |-> run.records, cycles |-> run.cycles]
    BY <1>2 DEF IsSound
  <2> QED
    BY <2>1 DEF ReplaceCycle
<1> HIDE DEF replaced
<1>11. quotes = run.quotes \cup KeysOf(c.plan)
  BY <1>10
<1> HIDE DEF quotes
<1>12. quoted = [managed |-> run.managed, quotes |-> quotes,
                 records |-> run.records,
                 cycles |-> (run.cycles \ {c}) \cup {d}]
  BY <1>10
<1> HIDE DEF quoted
<1>13. /\ p.managed = Append(run.managed, x) /\ p.quotes = quotes
       /\ p.records = run.records
       /\ p.cycles = (run.cycles \ {c}) \cup {d}
  BY <1>12 DEF WithSnapshot
<1> HIDE DEF p, x
<1>14. IsAccounted(p)
  <2>1. x.at > Newest(run.managed).at
    BY <1>1, <1>7 DEF MayAppend
  <2>2. p.quotes \in SUBSET QuoteKeys
    BY <1>2, <1>8, <1>11, <1>13 DEF IsAccounted
  <2>3. ASSUME NEW e \in p.cycles
        PROVE  \/ e \in run.cycles
               \/ /\ IsTypedCycle(e)
                  /\ x = [at |-> e.executed, book |-> Result(e.plan)]
    <3>1. e \in run.cycles \/ e = d
      BY <1>13
    <3> QED
      BY <1>7, <1>9, <3>1
  <2>4. \A e \in run.cycles : e.executed > 0 => e \in p.cycles
    <3>1. ~(c.executed > 0)
      BY <1>1
    <3> QED
      BY <1>13, <3>1
  <2>5. IsStep(p, Newest(run.managed), x)
    <3>1. d \in p.cycles /\ d.executed = x.at
      BY <1>3, <1>7, <1>13
    <3> QED
      BY <3>1 DEF IsStep
  <2>6. /\ p.records \in SUBSET Times /\ run.records \subseteq p.records
        /\ p.records \subseteq run.records \cup {x.at}
    BY <1>2, <1>13 DEF IsAccounted
  <2> QED
    BY <1>2, <1>6, <1>13, <2>1, <2>2, <2>3, <2>4, <2>5, <2>6, AppendedIsAccounted
<1> QED
  BY <1>4, <1>14, ProposalKeepsAccounts

LEMMA AccountsAreInductive == Spec => []Accounted
<1>1. ASSUME Init PROVE Accounted
  <2>1. run = NewRun /\ proposals = [t \in Threads |-> NoProposal] /\ preparing = {}
    BY <1>1 DEF Init
  <2> QED
    BY <2>1, InitialRunsAreAccounted DEF Accounted
<1>2. ASSUME Inv, Accounted, [Next]_vars PROVE Accounted'
  <2>1. CASE UNCHANGED vars
    BY <1>2, <2>1 DEF vars, Accounted, IsAccounted
  <2>2. ASSUME NEW t \in Threads, SaveTransition(t) PROVE Accounted'
    <3>1. /\ t \notin preparing /\ preparing' = preparing
          /\ run' = run \/ run' = proposals[t]
          /\ proposals' = [proposals EXCEPT ![t] = NoProposal]
      BY <2>2 DEF SaveTransition
    <3>2. /\ proposals' = [u \in Threads |-> proposals'[u]]
          /\ proposals'[t] = NoProposal
          /\ \A u \in Threads \ {t} : proposals'[u] = proposals[u]
      BY <1>2, <3>1 DEF Inv
    <3>3. IsAccounted(run') /\ \A u \in Threads : IsAccounted(proposals'[u])
      BY <1>2, <3>1, <3>2, InitialRunsAreAccounted DEF Accounted
    <3>4. (\A u \in Threads : IsAccounted(proposals[u]))'
      BY <3>3 DEF IsAccounted
    <3>5. IsAccounted(run)'
      BY <3>3 DEF IsAccounted
    <3>6. \A u \in preparing' : u \in Threads /\ proposals'[u] # NoProposal
      BY <1>2, <3>1, <3>2 DEF Accounted
    <3> QED
      BY <3>4, <3>5, <3>6 DEF Accounted
  <2> QED
    BY <1>2, <2>1, <2>2, PreparationKeepsAccounts, DecisionsKeepAccounts,
       ExecutionKeepsAccounts, OthersKeepAccounts DEF Next
<1> QED
  BY <1>1, <1>2, InvIsInductive, PTL DEF Spec

-----------------------------------------------------------------------------

(***************************************************************************)
(* The run and what every command proposes are well formed: a portfolio    *)
(* owes no cash, a history belongs to the universe, and no two cycles      *)
(* share an id.                                                            *)
(***************************************************************************)
THEOREM CycleTypes == Spec => []TypeOK
<1>1. ASSUME NEW r, IsSound(r), IsAccounted(r) PROVE IsRun(r)
  <2>1. r.managed \in Seq([at : Times, book : [cash : Nat, held : [Securities -> Nat]]])
    BY <1>1 DEF IsAccounted, Snapshots, PaidBooks
  <2> QED
    BY <1>1, <2>1 DEF IsAccounted, IsSound, UniqueIds, IsTypedCycle, IsRun
<1>2. ASSUME Inv, Accounted PROVE TypeOK
  <2>1. IsRun(run) /\ \A t \in Threads : IsRun(proposals[t])
    BY <1>1, <1>2 DEF Inv, Accounted
  <2>2. DOMAIN proposals = Threads
    BY <1>2 DEF Inv
  <2> QED
    BY <1>2, <2>1, <2>2 DEF TypeOK, Accounted
<1> QED
  BY <1>2, InvIsInductive, AccountsAreInductive, PTL

(***************************************************************************)
(* Right after an execution every position is within half a unit of its    *)
(* target, and trading has neither made nor lost value.                    *)
(***************************************************************************)
THEOREM ExecutionsReachTargets == Spec => []ExecutionReachesTheTarget
<1>1. ASSUME Inv, Accounted PROVE ExecutionReachesTheTarget
  <2> SUFFICES ASSUME NEW c \in run.cycles, c.executed > 0,
                      Newest(run.managed).at = c.executed
               PROVE  LET total == Value(c.plan.original, c.plan.prices)
                          book  == Managed(run)
                      IN /\ Value(book, c.plan.prices) = total
                         /\ \A s \in Priced(c.plan) :
                              LET unit == WeightUnits * c.plan.prices[s].price
                                  off  == 2 * (book.held[s] * unit
                                                 - total * c.plan.weights[s])
                              IN -unit <= off /\ off <= unit
    BY DEF ExecutionReachesTheTarget
  <2>1. IsAccounted(run) /\ Len(run.managed) > 0
    BY <1>1 DEF Inv, Accounted
  <2>2. IsPricedPlan(c.plan) /\ HasResult(run.managed, c)
    BY <2>1 DEF IsAccounted, IsTypedCycle
  <2>3. PICK i \in 1..Len(run.managed) :
          run.managed[i] = [at |-> c.executed, book |-> Result(c.plan)]
    BY <2>2 DEF HasResult
  <2>4. i = Len(run.managed)
    BY <2>1, <2>3, NewestOfAccounted
  <2>5. Managed(run) = Result(c.plan)
    BY <2>3, <2>4 DEF Managed, Newest
  <2>6. Value(Managed(run), c.plan.prices) = Value(c.plan.original, c.plan.prices)
    BY <2>2, <2>5, ResultIsWorthThePlan
  <2>7. \A s \in Priced(c.plan) : Managed(run).held[s] = Desired(c.plan, s)
    BY <2>2, <2>5, ResultIsWorthThePlan
  <2> QED
    BY <2>2, <2>6, <2>7, DesiredIsNearest
<1> QED
  BY <1>1, InvIsInductive, AccountsAreInductive, PTL

-----------------------------------------------------------------------------
(* A batch is applied to the portfolio it was planned for *)

(* An execution the run has already.                                       *)
IsDone(c, r) == \E d \in r.cycles : d.id = c.id /\ d.executed > 0

(* An execution a proposal adds: its batch comes right after the portfolio *)
(* of its plan in a history the run goes on from, and after everything     *)
(* else that the proposal has executed or recorded.                        *)
IsDue(c, p, r) ==
  \E m \in Seq(Snapshots) :
    /\ Len(m) > 0 /\ RequireHistoryPrefix(m, r.managed)
    /\ p.managed = Append(m, [at |-> c.executed, book |-> Result(c.plan)])
    /\ Newest(m).book = c.plan.original /\ Newest(m).at < c.executed
    /\ \A d \in p.cycles :
         d.executed > 0 /\ d.id # c.id => d.executed <= Newest(m).at
    /\ \A at \in p.records : at <= Newest(m).at

HasBasis(p, r) ==
  \A c \in p.cycles : c.executed > 0 => IsDone(c, r) \/ IsDue(c, p, r)

Based == \A t \in Threads : HasBasis(proposals[t], run)

LEMMA BasisIsKept ==
  ASSUME NEW p, NEW r, NEW q, IsSound(r), IsSound(q), Follows(r, q), HasBasis(p, r)
  PROVE  HasBasis(p, q)
<1> SUFFICES ASSUME NEW c \in p.cycles, c.executed > 0
             PROVE  IsDone(c, q) \/ IsDue(c, p, q)
  BY DEF HasBasis
<1>1. IsDone(c, r) \/ IsDue(c, p, r)
  BY DEF HasBasis
<1>2. CASE IsDone(c, r)
  <2>1. PICK d \in r.cycles : d.id = c.id /\ d.executed > 0
    BY <1>2 DEF IsDone
  <2>2. PICK e \in q.cycles : IsLater(d, e)
    BY DEF Follows
  <2> QED
    BY <2>1, <2>2 DEF IsDone, IsLater, SameArtifacts
<1>3. CASE IsDue(c, p, r)
  <2>1. PICK m \in Seq(Snapshots) :
          /\ Len(m) > 0 /\ RequireHistoryPrefix(m, r.managed)
          /\ p.managed = Append(m, [at |-> c.executed, book |-> Result(c.plan)])
          /\ Newest(m).book = c.plan.original /\ Newest(m).at < c.executed
          /\ \A d \in p.cycles :
               d.executed > 0 /\ d.id # c.id => d.executed <= Newest(m).at
          /\ \A at \in p.records : at <= Newest(m).at
    BY <1>3 DEF IsDue
  <2>2. Len(m) \in Nat
    OBVIOUS
  <2>3. RequireHistoryPrefix(m, q.managed)
    BY <2>1, <2>2, HistoryHasALength, PrefixIsTransitive DEF Follows
  <2> QED
    BY <2>1, <2>3 DEF IsDue
<1> QED
  BY <1>1, <1>2, <1>3

(* A command that executes nothing proposes what the run has executed.     *)
LEMMA DoneHasBasis ==
  ASSUME NEW p, NEW r,
         \A c \in p.cycles : c.executed > 0 => \E d \in r.cycles : IsLater(c, d)
  PROVE  HasBasis(p, r)
<1> SUFFICES ASSUME NEW c \in p.cycles, c.executed > 0 PROVE IsDone(c, r)
  BY DEF HasBasis
<1>1. PICK d \in r.cycles : IsLater(c, d)
  OBVIOUS
<1> QED
  BY <1>1 DEF IsDone, IsLater, SameArtifacts

LEMMA ExecutionHasBasis ==
  ASSUME Inv, Accounted, NEW t \in Threads, Execute(t)
  PROVE  \E p : Proposes(t, p) /\ HasBasis(p, run)
<1>1. PICK c \in run.cycles, at \in Times :
        /\ IsCurrent(run, c.plan) /\ MayAppend(run, at)
        /\ Proposes(t, WithSnapshot(
             [ReplaceCycle(run, c, [c EXCEPT !.executed = at])
                EXCEPT !.quotes = @ \cup KeysOf(c.plan)],
             at, Result(c.plan)))
  BY DEF Execute
<1> DEFINE d        == [c EXCEPT !.executed = at]
           x        == [at |-> at, book |-> Result(c.plan)]
           replaced == ReplaceCycle(run, c, d)
           quotes   == replaced.quotes \cup KeysOf(c.plan)
           quoted   == [replaced EXCEPT !.quotes = quotes]
           p        == WithSnapshot(quoted, at, Result(c.plan))
<1>2. /\ IsSound(run) /\ IsAccounted(run) /\ Len(run.managed) > 0 /\ IsSoundCycle(c)
  BY DEF Inv, Accounted, IsSound
<1>3. d.id = c.id /\ d.plan = c.plan /\ d.executed = at
  <2>1. c = [id |-> c.id, created |-> c.created, screening |-> c.screening,
             plan |-> c.plan, safe |-> c.safe, outcome |-> c.outcome,
             decided |-> c.decided, by |-> c.by, executed |-> c.executed]
    BY <1>2 DEF IsSoundCycle
  <2> QED
    BY <2>1
<1>4. Proposes(t, p)
  BY <1>1
<1>5. x = [at |-> d.executed, book |-> Result(d.plan)]
  BY <1>3
<1> HIDE DEF d
<1>6. replaced = [managed |-> run.managed, quotes |-> run.quotes,
                  records |-> run.records,
                  cycles |-> (run.cycles \ {c}) \cup {d}]
  <2>1. run = [managed |-> run.managed, quotes |-> run.quotes,
               records |-> run.records, cycles |-> run.cycles]
    BY <1>2 DEF IsSound
  <2> QED
    BY <2>1 DEF ReplaceCycle
<1> HIDE DEF replaced, quotes
<1>7. quoted = [managed |-> run.managed, quotes |-> quotes,
                records |-> run.records,
                cycles |-> (run.cycles \ {c}) \cup {d}]
  BY <1>6
<1> HIDE DEF quoted
<1>8. /\ p.managed = Append(run.managed, x) /\ p.records = run.records
      /\ p.cycles = (run.cycles \ {c}) \cup {d}
  BY <1>7 DEF WithSnapshot
<1> HIDE DEF p, x
<1>9. \A e \in run.cycles : e.executed > 0 => e.executed <= Newest(run.managed).at
  <2> SUFFICES ASSUME NEW e \in run.cycles, e.executed > 0
               PROVE  e.executed <= Newest(run.managed).at
    OBVIOUS
  <2>1. PICK i \in 1..Len(run.managed) :
          run.managed[i] = [at |-> e.executed, book |-> Result(e.plan)]
    BY <1>2 DEF IsAccounted, HasResult
  <2>2. run.managed[i].at <= Newest(run.managed).at
    BY <1>2, <2>1, NewestOfAccounted
  <2> QED
    BY <2>1, <2>2
<1>10. IsDue(d, p, run)
  <2>1. run.managed \in Seq(Snapshots) /\ RequireHistoryPrefix(run.managed, run.managed)
    BY <1>2, HistoryHasALength DEF IsAccounted, RequireHistoryPrefix
  <2>2. Newest(run.managed).book = d.plan.original
    BY <1>1, <1>3 DEF IsCurrent, Managed
  <2>3. Newest(run.managed).at < d.executed
    <3>1. Newest(run.managed).at \in Nat /\ at \in Nat
      BY <1>2, NewestOfAccounted, CycleAssumption DEF Times
    <3> QED
      BY <1>1, <1>3, <3>1 DEF MayAppend
  <2>4. \A e \in p.cycles :
          e.executed > 0 /\ e.id # d.id => e.executed <= Newest(run.managed).at
    BY <1>8, <1>9
  <2>5. \A stamp \in p.records : stamp <= Newest(run.managed).at
    BY <1>2, <1>8 DEF IsAccounted
  <2> QED
    BY <1>2, <1>5, <1>8, <2>1, <2>2, <2>3, <2>4, <2>5 DEF IsDue
<1>11. HasBasis(p, run)
  <2> SUFFICES ASSUME NEW e \in p.cycles, e.executed > 0
               PROVE  IsDone(e, run) \/ IsDue(e, p, run)
    BY DEF HasBasis
  <2>1. e \in run.cycles \/ e = d
    BY <1>8
  <2>2. e \in run.cycles => IsDone(e, run)
    BY DEF IsDone
  <2> QED
    BY <1>10, <2>1, <2>2
<1> QED
  BY <1>4, <1>11

LEMMA OthersHaveBasis ==
  ASSUME Inv, NEW t \in Threads,
         Approve(t) \/ Reject(t) \/ ApplyCashEvent(t) \/ ExecuteBuy(t) \/ RefreshPrices(t)
  PROVE  \E p : Proposes(t, p) /\ HasBasis(p, run)
<1>0. \A c \in run.cycles : IsLater(c, c)
  BY DEF IsLater, SameArtifacts
<1>1. IsSound(run) /\ \A c \in run.cycles : IsSoundCycle(c)
  BY DEF Inv, IsSound
<1>2. ASSUME NEW p, p.cycles = run.cycles PROVE HasBasis(p, run)
  BY <1>0, <1>2, DoneHasBasis
<1>3. CASE Approve(t) \/ Reject(t)
  <2>1. PICK c \in run.cycles, at \in Times, outcome \in {"APPROVED", "REJECTED"} :
          /\ MayDecide(c, at) /\ (outcome = "APPROVED" => c.safe)
          /\ Proposes(t, ReplaceCycle(run, c, Decided(c, outcome, at, t)))
    BY <1>3 DEF Approve, Reject
  <2> DEFINE d == Decided(c, outcome, at, t)
             p == ReplaceCycle(run, c, d)
  <2>2. d.executed = 0
    BY <1>1, <2>1, DecidedIsSound
  <2>3. Proposes(t, p)
    BY <2>1
  <2> HIDE DEF d
  <2>4. p.cycles = (run.cycles \ {c}) \cup {d}
    <3>1. run = [managed |-> run.managed, quotes |-> run.quotes,
                 records |-> run.records, cycles |-> run.cycles]
      BY <1>1 DEF IsSound
    <3> QED
      BY <3>1 DEF ReplaceCycle
  <2> HIDE DEF p
  <2>5. \A e \in p.cycles : e.executed > 0 => e \in run.cycles
    <3>1. ~(d.executed > 0)
      BY <2>2
    <3> QED
      BY <2>4, <3>1
  <2>6. HasBasis(p, run)
    BY <1>0, <2>5, DoneHasBasis
  <2> QED
    BY <2>3, <2>6
<1>4. CASE ApplyCashEvent(t) \/ ExecuteBuy(t)
  <2>1. PICK at, book : Proposes(t, WithSnapshot(WithRecord(run, at), at, book))
    BY <1>4 DEF ApplyCashEvent, ExecuteBuy
  <2>2. WithSnapshot(WithRecord(run, at), at, book).cycles = run.cycles
    BY <1>1, RecordedIsSound, SnapshotIsSound
  <2> QED
    BY <1>2, <2>1, <2>2
<1>5. CASE RefreshPrices(t)
  <2>1. PICK feed \in Feeds :
          LET keys   == {[security |-> s, at |-> feed[s].at] : s \in Securities}
              quoted == [run EXCEPT !.quotes = @ \cup keys]
          IN \/ Proposes(t, quoted)
             \/ \E at : Proposes(t, WithSnapshot(quoted, at, Managed(run)))
    BY <1>5 DEF RefreshPrices
  <2> DEFINE keys   == {[security |-> s, at |-> feed[s].at] : s \in Securities}
             quotes == run.quotes \cup keys
             quoted == [run EXCEPT !.quotes = quotes]
  <2>2. \/ Proposes(t, quoted)
        \/ \E at : Proposes(t, WithSnapshot(quoted, at, Managed(run)))
    BY <2>1
  <2> HIDE DEF quotes
  <2>3. IsSound(quoted) /\ quoted.cycles = run.cycles
    BY <1>1, QuotedIsSound
  <2> HIDE DEF quoted
  <2>4. \A at : WithSnapshot(quoted, at, Managed(run)).cycles = run.cycles
    BY <2>3, SnapshotIsSound
  <2> QED
    BY <1>2, <2>2, <2>3, <2>4
<1> QED
  BY <1>3, <1>4, <1>5

LEMMA BasisIsInductive == Spec => []Based
<1>0. HasBasis(NoProposal, run)
  <2>1. NoProposal.cycles = {}
    BY DEF NoProposal, NewRun
  <2> QED
    BY <2>1 DEF HasBasis
<1>1. ASSUME Init PROVE Based
  BY <1>0, <1>1 DEF Based, Init
<1>2. ASSUME Inv, Inv', Accounted, Based, [Next]_vars PROVE Based'
  <2>1. CASE UNCHANGED vars
    <3>1. run' = run /\ proposals' = proposals
      BY <2>1 DEF vars
    <3>2. \A t \in Threads : HasBasis(proposals'[t], run')
      BY <1>2, <3>1 DEF Based
    <3> QED
      BY <3>2 DEF Based, HasBasis, IsDone, IsDue
  <2>2. ASSUME NEW t \in Threads, NEW p, proposals' = [proposals EXCEPT ![t] = p],
               HasBasis(p, run), run' = run
        PROVE  Based'
    <3>1. /\ proposals'[t] = p
          /\ \A u \in Threads \ {t} : proposals'[u] = proposals[u]
      BY <1>2, <2>2 DEF Inv
    <3>2. \A u \in Threads : HasBasis(proposals'[u], run')
      BY <1>2, <2>2, <3>1 DEF Based
    <3> QED
      BY <3>2 DEF Based, HasBasis, IsDone, IsDue
  <2>3. ASSUME NEW t \in Threads, StartPreparation(t) PROVE Based'
    <3>1. \A c \in run.cycles : IsLater(c, c)
      BY DEF IsLater, SameArtifacts
    <3>2. HasBasis(run, run)
      BY <3>1, DoneHasBasis
    <3> QED
      BY <2>2, <2>3, <3>2 DEF StartPreparation
  <2>4. ASSUME NEW t \in Threads, Prepare(t) PROVE Based'
    <3> DEFINE read == proposals[t]
    <3>1. /\ run' = run /\ IsSound(read)
          /\ \A c \in read.cycles : \E now \in run.cycles : IsLater(c, now)
      BY <1>2, <2>4 DEF Prepare, Inv, IsCopy
    <3>2. \/ proposals' = [proposals EXCEPT ![t] = NoProposal]
          \/ \E cycle : /\ cycle.executed = 0
                        /\ proposals' = [proposals EXCEPT
                                           ![t] = [read EXCEPT !.cycles = @ \cup {cycle}]]
      BY <2>4 DEF Prepare
    <3>3. ASSUME NEW cycle, cycle.executed = 0
          PROVE  HasBasis([read EXCEPT !.cycles = @ \cup {cycle}], run)
      <4> DEFINE p == [read EXCEPT !.cycles = @ \cup {cycle}]
      <4>1. p.cycles = read.cycles \cup {cycle}
        BY <3>1 DEF IsSound
      <4> HIDE DEF p, read
      <4>2. ASSUME NEW c \in p.cycles, c.executed > 0 PROVE c \in read.cycles
        BY <3>3, <4>1, <4>2
      <4>3. HasBasis(p, run)
        BY <3>1, <4>2, DoneHasBasis
      <4> QED
        BY <4>3 DEF p
    <3> QED
      BY <1>0, <2>2, <3>1, <3>2, <3>3
  <2>5. ASSUME NEW t \in Threads, SaveTransition(t) PROVE Based'
    <3>1. /\ run' = run \/ (run' = proposals[t] /\ Accepts(run, proposals[t]))
          /\ proposals' = [proposals EXCEPT ![t] = NoProposal]
      BY <2>5 DEF SaveTransition
    <3>2. CASE run' = run
      BY <1>0, <2>2, <3>1, <3>2
    <3>3. CASE run' = proposals[t] /\ Accepts(run, proposals[t])
      <4>1. IsSound(run) /\ IsSound(run') /\ Follows(run, run')
        BY <1>2, <3>3, AcceptedFollows DEF Inv
      <4>2. /\ proposals'[t] = NoProposal
            /\ \A u \in Threads \ {t} : proposals'[u] = proposals[u]
        BY <1>2, <3>1 DEF Inv
      <4>3. HasBasis(NoProposal, run')
        <5>1. NoProposal.cycles = {}
          BY DEF NoProposal, NewRun
        <5> QED
          BY <5>1 DEF HasBasis
      <4>4. \A u \in Threads : HasBasis(proposals'[u], run')
        BY <1>2, <4>1, <4>2, <4>3, BasisIsKept DEF Based
      <4> QED
        BY <4>4 DEF Based, HasBasis, IsDone, IsDue
    <3> QED
      BY <3>1, <3>2, <3>3
  <2>6. ASSUME NEW t \in Threads, NEW p, Proposes(t, p), HasBasis(p, run)
        PROVE  Based'
    BY <2>2, <2>6 DEF Proposes
  <2>7. ASSUME NEW t \in Threads, Execute(t) PROVE Based'
    BY <1>2, <2>6, <2>7, ExecutionHasBasis
  <2>8. ASSUME NEW t \in Threads,
               \/ Approve(t) \/ Reject(t) \/ ApplyCashEvent(t) \/ ExecuteBuy(t)
               \/ RefreshPrices(t)
        PROVE  Based'
    BY <1>2, <2>6, <2>8, OthersHaveBasis
  <2> QED
    BY <1>2, <2>1, <2>3, <2>4, <2>5, <2>7, <2>8 DEF Next
<1> QED
  BY <1>1, <1>2, InvIsInductive, AccountsAreInductive, PTL DEF Spec

(* A batch of trades is not a mark.                                        *)
LEMMA BatchIsNoMark ==
  ASSUME NEW plan, IsPricedPlan(plan), Legs(plan) # {}
  PROVE  Result(plan) # plan.original
<1>1. PICK s \in Priced(plan) : Desired(plan, s) - plan.original.held[s] # 0
  BY DEF Legs, Delta
<1>2. Result(plan).held[s] = Desired(plan, s) /\ Desired(plan, s) \in Nat
  BY ResultIsWorthThePlan, DesiredIsNearest
<1> QED
  BY <1>1, <1>2

(* What a save that executes a cycle finds and leaves.  Had another command *)
(* put the snapshot of the batch there already, the proposal would lack     *)
(* what that command has recorded.                                          *)
LEMMA ExecutionIsApplied ==
  ASSUME Inv, Inv', Accounted, Accounted', Based, [Next]_vars,
         NEW c \in run'.cycles, c.executed > 0,
         \A old \in run.cycles : old.id = c.id => old.executed = 0
  PROVE  /\ Managed(run') = Result(c.plan)
         /\ c.outcome = "APPROVED" /\ c.safe
         /\ Managed(run) = c.plan.original
<1>1. ~IsDone(c, run)
  BY DEF IsDone
<1>2. run' # run
  BY <1>1 DEF IsDone
<1>3. PICK t \in Threads : run' = proposals[t] /\ Accepts(run, proposals[t])
  BY <1>2, OnlySavesChangeTheRun
<1>4. IsDue(c, run', run)
  BY <1>1, <1>3 DEF Based, HasBasis
<1> DEFINE x == [at |-> c.executed, book |-> Result(c.plan)]
<1>5. PICK m \in Seq(Snapshots) :
        /\ Len(m) > 0 /\ RequireHistoryPrefix(m, run.managed)
        /\ run'.managed = Append(m, x)
        /\ Newest(m).book = c.plan.original /\ Newest(m).at < c.executed
        /\ \A d \in run'.cycles :
             d.executed > 0 /\ d.id # c.id => d.executed <= Newest(m).at
        /\ \A at \in run'.records : at <= Newest(m).at
  BY <1>4 DEF IsDue
<1> DEFINE n == Len(m)
           h == run.managed
<1>6. n \in Nat /\ n > 0 /\ Newest(m) = m[n]
  BY <1>5 DEF Newest
<1>7. x.book = Result(c.plan) /\ x.at = c.executed
  OBVIOUS
<1> HIDE DEF x
<1>8. /\ Len(run'.managed) = n + 1 /\ run'.managed[n + 1] = x
      /\ \A i \in 1..n : run'.managed[i] = m[i]
  BY <1>5, <1>6
<1>9. Managed(run') = Result(c.plan)
  BY <1>7, <1>8 DEF Managed, Newest
<1>10. IsSoundCycle(c) /\ c.outcome = "APPROVED" /\ c.safe /\ Legs(c.plan) # {}
       /\ IsPricedPlan(c.plan)
  BY DEF Inv, IsSound, IsSoundCycle, Accounted, IsAccounted, IsTypedCycle
<1>11. /\ Len(h) \in Nat /\ n <= Len(h) /\ Len(h) <= n + 1
       /\ \A i \in 1..n : h[i] = m[i]
       /\ \A i \in 1..Len(h) : h[i] = run'.managed[i]
  BY <1>3, <1>5, <1>8, HistoryHasALength DEF Inv, Accepts, RequireHistoryPrefix
<1> HIDE DEF n, h
<1>12. CASE Len(h) = n
  <2>1. Managed(run) = c.plan.original
    BY <1>5, <1>6, <1>11, <1>12 DEF Managed, Newest, h
  <2> QED
    BY <1>9, <1>10, <2>1
<1>13. CASE Len(h) = n + 1
  <2>1. h[n + 1] = x /\ n + 1 \in 2..Len(h) /\ h[n] = m[n]
    BY <1>6, <1>8, <1>11, <1>13
  <2>2. IsStep(run, h[n], x)
    <3>1. IsStep(run, h[(n + 1) - 1], h[n + 1])
      BY <2>1 DEF Accounted, IsAccounted, h
    <3>2. (n + 1) - 1 = n
      BY <1>6
    <3> QED
      BY <2>1, <3>1, <3>2
  <2>3. ~(c.executed <= Newest(m).at)
    <3>1. Newest(m).at \in Nat /\ c.executed \in Nat
      <4>1. m[n] \in Snapshots
        BY <1>6 DEF n
      <4> QED
        BY <1>6, <1>10, <4>1, CycleAssumption DEF Snapshots, Times, IsSoundCycle
    <3> QED
      BY <1>5, <3>1
  <2>4. x.at \notin run.records
    BY <1>3, <1>5, <1>7, <2>3 DEF Accepts, RequireImmutableRecords
  <2>5. ~ \E d \in run.cycles : d.executed = x.at
    <3> SUFFICES ASSUME NEW d \in run.cycles, d.executed = x.at PROVE FALSE
      OBVIOUS
    <3>1. d.executed > 0 /\ d.id # c.id
      BY <1>7
    <3>2. PICK e \in run'.cycles : IsLater(d, e)
      BY <1>3, AcceptedFollows DEF Follows
    <3>3. e.executed = d.executed /\ e.id = d.id
      BY <3>1, <3>2 DEF IsLater, SameArtifacts
    <3> QED
      BY <1>5, <1>7, <2>3, <3>1, <3>3
  <2>6. h[n].book = c.plan.original
    BY <1>5, <1>6, <2>1
  <2>7. Result(c.plan) = c.plan.original
    BY <1>7, <2>2, <2>4, <2>5, <2>6 DEF IsStep
  <2> QED
    BY <1>10, <2>7, BatchIsNoMark
<1>14. Len(h) = n \/ Len(h) = n + 1
  BY <1>6, <1>11
<1> QED
  BY <1>12, <1>13, <1>14

(***************************************************************************)
(* Whatever deposits, purchases, marks and other batches are saved between *)
(* reading and saving, an execution finds the portfolio its plan was made  *)
(* and approved for, and turns it into the plan's whole result.            *)
(***************************************************************************)
THEOREM BatchesAreApplied == Spec => BatchesApplyToTheirPortfolio
<1>1. Inv /\ Inv' /\ Accounted /\ Accounted' /\ Based /\ [Next]_vars =>
        \A c \in run'.cycles :
          c.executed > 0 /\ (\A old \in run.cycles : old.id = c.id => old.executed = 0)
          => /\ Managed(run) = c.plan.original
             /\ Managed(run') = Result(c.plan)
             /\ c.outcome = "APPROVED" /\ c.safe
  BY ExecutionIsApplied
<1> QED
  BY <1>1, InvIsInductive, AccountsAreInductive, BasisIsInductive,
     PTL DEF Spec, BatchesApplyToTheirPortfolio
=============================================================================
