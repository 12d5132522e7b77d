------------------------ MODULE ResearchPipelineProofs ------------------------
(***************************************************************************)
(* What holds of ResearchPipeline for any number of builds, bootstraps,    *)
(* names and slots.                                                        *)
(***************************************************************************)
EXTENDS ResearchPipeline, ArithmeticTheorems, TLAPS

-----------------------------------------------------------------------------
(* Choices that are least or latest *)

(* Names are ordered by key, then by ticker.                               *)
LEMMA LeastByIsLeast ==
  ASSUME NEW names \in SUBSET Universe, names # {}, NEW key \in [names -> Nat]
  PROVE  /\ LeastBy(names, key) \in names
         /\ \A n \in names : key[LeastBy(names, key)] <= key[n]
<1>1. {key[n] : n \in names} \in SUBSET Nat /\ {key[n] : n \in names} # {}
  OBVIOUS
<1>2. PICK k \in {key[n] : n \in names} : \A j \in {key[n] : n \in names} : k <= j
  BY <1>1, LeastExists
<1> DEFINE least == {n \in names : key[n] = k}
<1>3. least \in SUBSET Nat /\ least # {}
  <2>1. \E n \in names : key[n] = k
    BY <1>2
  <2>2. names \in SUBSET Nat
    BY RecordAssumption DEF Universe
  <2> QED
    BY <2>1, <2>2
<1>4. PICK a \in least : \A b \in least : a <= b
  BY <1>3, LeastExists
<1>5. \A b \in names : k <= key[b] /\ key[b] \in Nat /\ k \in Nat
  BY <1>2, <1>1
<1>6. \A b \in names : key[a] < key[b] \/ (key[a] = key[b] /\ a <= b)
  BY <1>4, <1>5
<1>7. \E c \in names :
        \A b \in names : key[c] < key[b] \/ (key[c] = key[b] /\ c <= b)
  BY <1>4, <1>6
<1>8. /\ LeastBy(names, key) \in names
      /\ \A b \in names : \/ key[LeastBy(names, key)] < key[b]
                          \/ key[LeastBy(names, key)] = key[b]
  BY <1>7 DEF LeastBy
<1> QED
  BY <1>8, <1>5

LEMMA NewestIsOne ==
  ASSUME NEW S \in SUBSET Records, S # {}
  PROVE  Newest(S) \in S
<1> USE RecordAssumption
<1>1. {r.at : r \in S} \in SUBSET (0..MaxTime) /\ {r.at : r \in S} # {}
  BY DEF Records, Instants
<1>2. PICK t \in {r.at : r \in S} : \A u \in {r.at : r \in S} : u <= t
  BY <1>1, GreatestExists
<1> DEFINE last == {r \in S : r.at = t}
<1>3. {r.period : r \in last} \in SUBSET (0..MaxPeriod) /\ {r.period : r \in last} # {}
  BY <1>2 DEF Records, Periods
<1>4. PICK p \in {r.period : r \in last} : \A q \in {r.period : r \in last} : q <= p
  BY <1>3, GreatestExists
<1>5. PICK r \in last : r.period = p
  BY <1>4
<1>6. \A o \in S : o.at <= t /\ o.at \in Nat /\ t \in Nat
  BY <1>1, <1>2
<1>7. \A o \in S : o.at = t => o.period <= p
  BY <1>4
<1>8. \A o \in S : o.at < r.at \/ (o.at = r.at /\ o.period <= r.period)
  BY <1>5, <1>6, <1>7
<1>9. \E c \in S : \A o \in S : o.at < c.at \/ (o.at = c.at /\ o.period <= c.period)
  BY <1>5, <1>8
<1> QED
  BY <1>9 DEF Newest

-----------------------------------------------------------------------------
(* What the slots give out *)

LEMMA KeysAreNumbers ==
  ASSUME NEW rs \in SUBSET Records, NEW name
  PROVE  CoverageKey(rs, name) \in Nat /\ ReportingKey(rs, name) \in Nat
<1> USE RecordAssumption
<1>1. CoverageKey(rs, name) \in Nat
  <2> DEFINE fetches == StatementFetches(rs, name)
  <2>1. fetches \in SUBSET (0..MaxTime)
    BY DEF StatementFetches, Records, Instants
  <2>2. CASE fetches = {}
    BY <2>2 DEF CoverageKey
  <2>3. CASE fetches # {}
    <3>1. \E x \in fetches : \A y \in fetches : y <= x
      BY <2>1, <2>3, GreatestExists
    <3>2. \E x \in fetches : \A y \in fetches : x >= y
      BY <3>1, <2>1
    <3>3. Max(fetches) \in fetches
      BY <3>2 DEF Max
    <3>4. Max(fetches) \in Nat
      BY <3>3, <2>1
    <3> QED
      BY <3>4, <2>3 DEF CoverageKey
  <2> QED
    BY <2>2, <2>3
<1>2. ReportingKey(rs, name) \in Nat
  <2>1. CASE HasOverview(rs, name)
    <3>1. Newest(Of(rs, name, "OVERVIEW")) \in Of(rs, name, "OVERVIEW")
      BY <2>1, NewestIsOne DEF HasOverview, Of
    <3>2. Newest(Of(rs, name, "OVERVIEW")) \in Records
      BY <3>1 DEF Of
    <3> QED
      BY <3>2, <2>1 DEF ReportingKey, Records, Periods
  <2>2. CASE ~HasOverview(rs, name)
    BY <2>2 DEF ReportingKey
  <2> QED
    BY <2>1, <2>2
<1> QED
  BY <1>1, <1>2

(* A ranking lists at most MaxRanked names.                                *)
LEMMA RankingsAreShort ==
  ASSUME NEW eligible \in SUBSET Universe, NEW rs,
         NEW ranking \in Rankings(eligible, rs)
  PROVE  /\ ranking \in Seq(Universe)
         /\ Len(ranking) <= MaxRanked
<1> USE RecordAssumption
<1> DEFINE usable == {n \in eligible : HasOverview(rs, n)}
           c == Cardinality(usable)
           slots == Min({c, MaxRanked})
<1>1. c \in Nat
  <2>1. IsFiniteSet(Universe)
    BY FS_Interval DEF Universe
  <2>2. usable \in SUBSET Universe
    OBVIOUS
  <2>3. IsFiniteSet(usable)
    BY <2>1, <2>2, FS_Subset
  <2> QED
    BY <2>3, FS_CardinalityType
<1>2. slots \in Nat /\ slots <= MaxRanked
  <2>1. {c, MaxRanked} \in SUBSET Nat
    BY <1>1
  <2>2. \E x \in {c, MaxRanked} : \A y \in {c, MaxRanked} : x <= y
    BY <2>1, LeastExists
  <2>3. slots \in {c, MaxRanked} /\ \A y \in {c, MaxRanked} : slots <= y
    BY <2>2 DEF Min
  <2> QED
    BY <2>1, <2>3
<1>3. ranking \in [1..slots -> usable]
  BY DEF Rankings
<1>4. usable \in SUBSET Universe
  OBVIOUS
<1> HIDE DEF usable, slots
<1>5. ranking \in Seq(Universe) /\ DOMAIN ranking = 1..slots
  BY <1>2, <1>3, <1>4
<1>6. Len(ranking) = slots
  BY <1>2, <1>5
<1> QED
  BY <1>2, <1>5, <1>6

(* A screening selects at most the slots there are.                        *)
LEMMA SelectionFitsTheSlots ==
  ASSUME NEW eligible \in SUBSET Universe, NEW rs \in SUBSET Records,
         NEW ranking \in Rankings(eligible, rs)
  PROVE  /\ SelectedOrder(eligible, rs, ranking) \in Seq(Universe)
         /\ Len(SelectedOrder(eligible, rs, ranking)) <= MaxRanked + 2
<1> USE RecordAssumption
<1> DEFINE unranked  == eligible \ {ranking[i] : i \in DOMAIN ranking}
           coverageKeys == [n \in unranked |-> CoverageKey(rs, n)]
           coverage  == LeastBy(unranked, coverageKeys)
           rest      == unranked \ {coverage}
           reportingKeys == [n \in rest |-> ReportingKey(rs, n)]
           reporting == LeastBy(rest, reportingKeys)
<1>1. ranking \in Seq(Universe) /\ Len(ranking) \in Nat /\ Len(ranking) <= MaxRanked
  BY RankingsAreShort
<1>2. unranked # {} => coverage \in unranked /\ coverage \in Universe
  <2>1. unranked \in SUBSET Universe /\ coverageKeys \in [unranked -> Nat]
    BY KeysAreNumbers
  <2> HIDE DEF coverageKeys, unranked
  <2> QED
    BY <2>1, LeastByIsLeast
<1>3. rest # {} => reporting \in Universe
  <2>1. rest \in SUBSET Universe /\ reportingKeys \in [rest -> Nat]
    BY KeysAreNumbers
  <2> HIDE DEF reportingKeys, rest
  <2> QED
    BY <2>1, LeastByIsLeast
<1>4. SelectedOrder(eligible, rs, ranking) =
        IF unranked = {} THEN ranking
        ELSE IF rest = {} THEN Append(ranking, coverage)
        ELSE Append(Append(ranking, coverage), reporting)
  BY <1>2 DEF SelectedOrder
<1> HIDE DEF unranked, coverage, rest, reporting
<1>5. CASE unranked = {}
  BY <1>1, <1>4, <1>5
<1>6. CASE unranked # {} /\ rest = {}
  BY <1>1, <1>2, <1>4, <1>6
<1>7. CASE unranked # {} /\ rest # {}
  BY <1>1, <1>2, <1>3, <1>4, <1>7
<1> QED
  BY <1>5, <1>6, <1>7

(***************************************************************************)
(* The slot after the ranked ones goes to a name without statements for as *)
(* long as one is left unranked: what the ranks prefer cannot keep a name  *)
(* out of research for good.                                               *)
(***************************************************************************)
THEOREM NeverResearchedComesNext ==
  ASSUME NEW eligible \in SUBSET Universe, NEW rs \in SUBSET Records,
         NEW ranking \in Rankings(eligible, rs),
         NEW n \in eligible \ {ranking[i] : i \in DOMAIN ranking},
         StatementFetches(rs, n) = {}
  PROVE  LET order == SelectedOrder(eligible, rs, ranking)
         IN  /\ Len(ranking) + 1 \in DOMAIN order
             /\ StatementFetches(rs, order[Len(ranking) + 1]) = {}
<1> DEFINE unranked == eligible \ {ranking[i] : i \in DOMAIN ranking}
           key == [m \in unranked |-> CoverageKey(rs, m)]
           coverage == LeastBy(unranked, key)
           rest == unranked \ {coverage}
           reporting == LeastBy(rest, [m \in rest |-> ReportingKey(rs, m)])
           order == SelectedOrder(eligible, rs, ranking)
<1>1. unranked \in SUBSET Universe /\ key \in [unranked -> Nat] /\ n \in unranked
  BY KeysAreNumbers
<1>2. key[n] = 0
  BY <1>1 DEF CoverageKey
<1>3. coverage \in unranked /\ key[coverage] <= key[n]
  <2> HIDE DEF key, unranked
  <2> QED
    BY <1>1, LeastByIsLeast
<1>4. CoverageKey(rs, coverage) = 0
  <2>1. key[coverage] \in Nat /\ key[coverage] = CoverageKey(rs, coverage)
    BY <1>1, <1>3
  <2> QED
    BY <1>2, <1>3, <2>1
<1>5. StatementFetches(rs, coverage) = {}
  <2>1. ASSUME StatementFetches(rs, coverage) # {}
        PROVE  FALSE
    <3> DEFINE fetches == StatementFetches(rs, coverage)
    <3>1. fetches \in SUBSET (0..MaxTime)
      BY RecordAssumption DEF StatementFetches, Records, Instants
    <3>2. \E x \in fetches : \A y \in fetches : y <= x
      BY <2>1, <3>1, GreatestExists, RecordAssumption
    <3>3. \E x \in fetches : \A y \in fetches : x >= y
      BY <3>1, <3>2, RecordAssumption
    <3>4. Max(fetches) \in Nat
      <4>1. Max(fetches) \in fetches
        BY <3>3 DEF Max
      <4> QED
        BY <3>1, <4>1, RecordAssumption
    <3>5. CoverageKey(rs, coverage) = 1 + Max(fetches)
      BY <2>1 DEF CoverageKey
    <3> QED
      BY <1>4, <3>4, <3>5
  <2> QED
    BY <2>1
<1>6. ranking \in Seq(Universe)
  BY RankingsAreShort
<1>7. order = IF rest = {} THEN Append(ranking, coverage)
                           ELSE Append(Append(ranking, coverage), reporting)
  BY <1>1, <1>3 DEF SelectedOrder
<1> HIDE DEF unranked, coverage, rest, reporting, order
<1>8. /\ Len(ranking) + 1 \in DOMAIN order
      /\ order[Len(ranking) + 1] = coverage
  <2>1. coverage \in Universe
    BY <1>1, <1>3
  <2>2. CASE rest = {}
    BY <1>6, <1>7, <2>1, <2>2
  <2>3. CASE rest # {}
    <3>1. /\ Append(ranking, coverage) \in Seq(Universe)
          /\ Len(Append(ranking, coverage)) = Len(ranking) + 1
          /\ Append(ranking, coverage)[Len(ranking) + 1] = coverage
      BY <1>6, <2>1
    <3> QED
      BY <1>6, <1>7, <2>3, <3>1
  <2> QED
    BY <2>2, <2>3
<1> QED
  BY <1>5, <1>8 DEF order

-----------------------------------------------------------------------------
(* What a refresh shows *)

(* Every status of a refresh is typed; what it did not fetch was cached.   *)
LEMMA RefreshShowsCachedOrFetched ==
  ASSUME NEW name \in Universe, NEW rs \in SUBSET Records, NEW asOf \in Instants,
         NEW answer \in [Endpoints -> Periods], NEW now \in Instants,
         NEW s \in Refresh(name, rs, asOf, answer, now)
  PROVE  /\ s \in Statuses
         /\ s.reuse = "FETCHED_THIS_CYCLE" \/ s.record \in rs
<1> USE RecordAssumption
<1>1. ASSUME NEW e \in Endpoints
      PROVE  /\ Fetch(name, e, answer, now) \in Statuses
             /\ Fetch(name, e, answer, now).reuse = "FETCHED_THIS_CYCLE"
  BY DEF Fetch, Status, Statuses, Record, Records
<1>2. ASSUME NEW t \in FetchStatements(name, answer, now)
      PROVE  t \in Statuses /\ t.reuse = "FETCHED_THIS_CYCLE"
  BY <1>1 DEF FetchStatements, Endpoints
<1>3. ASSUME NEW t, NEW S \in SUBSET rs, S # {}, NEW label \in {"REUSED_CURRENT", "STALE"},
             t = Status(label, Newest(S))
      PROVE  t \in Statuses /\ t.record \in rs
  <2>1. Newest(S) \in rs /\ Newest(S) \in Records
    BY <1>3, NewestIsOne
  <2> QED
    BY <1>3, <2>1 DEF Status, Statuses
<1>4. CASE /\ ~HasCompleteStatementSet(name, rs)
           /\ FreshOverviews(name, rs, asOf) # {}
  <2> DEFINE fresh == FreshOverviews(name, rs, asOf)
  <2>1. fresh \in SUBSET rs /\ fresh # {}
    BY <1>4 DEF FreshOverviews, Of
  <2>2. s \in HydrateFromCachedOverview(name, Newest(fresh), answer, now)
    BY <1>4 DEF Refresh
  <2>3. \/ s \in FetchStatements(name, answer, now)
        \/ s = Status("STALE", Newest(fresh))
        \/ s = Status("REUSED_CURRENT", Newest(fresh))
    BY <2>2 DEF HydrateFromCachedOverview
  <2> HIDE DEF fresh
  <2> QED
    BY <1>2, <1>3, <2>1, <2>3
<1>5. CASE ~ (/\ ~HasCompleteStatementSet(name, rs)
              /\ FreshOverviews(name, rs, asOf) # {})
  <2> DEFINE OfTheQuarter(e) == {r \in Of(rs, name, e) : r.period = answer["OVERVIEW"]}
  <2>1. s \in RefreshWithLiveOverview(name, rs, answer, now)
    BY <1>5 DEF Refresh
  <2>2. \/ s = Fetch(name, "OVERVIEW", answer, now)
        \/ s \in FetchStatements(name, answer, now)
        \/ \E e \in Statements : /\ OfTheQuarter(e) # {}
                                /\ s = Status("REUSED_CURRENT", Newest(OfTheQuarter(e)))
    BY <2>1 DEF RefreshWithLiveOverview
  <2>3. \A e \in Statements : OfTheQuarter(e) \in SUBSET rs
    BY DEF Of
  <2> HIDE DEF OfTheQuarter
  <2> QED
    BY <1>1, <1>2, <1>3, <2>2, <2>3 DEF Endpoints
<1> QED
  BY <1>4, <1>5

-----------------------------------------------------------------------------
(* The inductive invariant *)

(* A build has no packets before it has read the run.                      *)
NothingYet ==
  \A b \in Builders : builds[b].phase # "refresh" => builds[b].packets = NoPackets

(* What a build has read, and what its packets reuse, is on record.        *)
BuildsAreBacked ==
  \A b \in Builders :
    /\ builds[b].inputs \subseteq records
    /\ \A n \in Universe : \A s \in builds[b].packets[n] :
         s.reuse = "FETCHED_THIS_CYCLE" \/ s.record \in records

(* Between two requests of a bootstrap nothing is left to save; after a    *)
(* request, one overview is.                                               *)
OneIsPending ==
  \A p \in Bootstrappers :
    /\ bootstraps[p].phase = "idle" => bootstraps[p].spent = {}
    /\ bootstraps[p].phase = "next" =>
         \A n \in bootstraps[p].spent : HasOverview(records, n)
    /\ bootstraps[p].phase = "persist" =>
         \E r \in Records :
           /\ bootstraps[p].pending = {r} /\ r.endpoint = "OVERVIEW"
           /\ \A n \in bootstraps[p].spent : n = r.name \/ HasOverview(records, n)

IInv == TypeOK /\ NothingYet /\ BuildsAreBacked /\ PacketsAreBacked /\ OneIsPending

LEMMA NothingResearched ==
  Researched(NoPackets) = {} /\ Cardinality(Researched(NoPackets)) = 0
  BY FS_EmptySet DEF Researched, NoPackets

LEMMA NamesAreFinite ==
  ASSUME NEW S \in SUBSET Universe
  PROVE  IsFiniteSet(S) /\ Cardinality(S) \in Nat
<1>1. IsFiniteSet(Universe)
  BY FS_Interval, RecordAssumption DEF Universe
<1> QED
  BY <1>1, FS_Subset, FS_CardinalityType

LEMMA OneMore ==
  ASSUME NEW S \in SUBSET Universe, NEW T \in SUBSET Universe, NEW x \in Universe,
         T \subseteq S \cup {x}
  PROVE  Cardinality(T) <= Cardinality(S) + 1
<1>1. /\ IsFiniteSet(S \cup {x})
      /\ Cardinality(S \cup {x}) <= Cardinality(S) + 1
  BY NamesAreFinite, FS_AddElement
<1>2. Cardinality(T) <= Cardinality(S \cup {x})
  BY <1>1, FS_Subset
<1>3. (S \cup {x}) \in SUBSET Universe
  OBVIOUS
<1> QED
  BY <1>1, <1>2, <1>3, NamesAreFinite

(* Idle builds and bootstraps, and answers, are typed.                     *)
LEMMA Typed ==
  /\ IdleBuild \in BuildStates
  /\ IdleBootstrap \in BootstrapStates
  /\ NoPackets \in [Universe -> SUBSET Statuses]
  BY RecordAssumption DEF IdleBuild, BuildStates, IdleBootstrap, BootstrapStates,
     NoPackets, Instants

LEMMA AnswersAreTyped ==
  ASSUME TypeOK, NEW name \in Universe
  PROVE  Answer(name) \in [Endpoints -> Periods]
<1>1. calendar \in [Instants -> [Universe -> [Endpoints -> Periods]]]
  BY PipelineAssumption DEF TypeOK
<1> QED
  BY <1>1 DEF TypeOK, Answer

LEMMA IdleStates ==
  /\ IdleBuild.todo = <<>> /\ IdleBuild.inputs = {} /\ IdleBuild.packets = NoPackets
  /\ IdleBuild.phase = "idle"
  /\ IdleBootstrap.spent = {} /\ IdleBootstrap.phase = "idle"
  BY DEF IdleBuild, IdleBootstrap

LEMMA InitIInv == Init => IInv
<1> SUFFICES ASSUME Init PROVE IInv
  OBVIOUS
<1> USE IdleStates
<1>1. \A b \in Builders : builds[b] = IdleBuild
  BY DEF Init
<1>2. \A p \in Bootstrappers : bootstraps[p] = IdleBootstrap
  BY DEF Init
<1>3. WithinLimits
  <2>1. Len(<<>>) = 0 /\ Cardinality({}) = 0 /\ Cardinality(Researched(NoPackets)) = 0
    BY NothingResearched, FS_EmptySet
  <2>2. MaxRanked \in Nat /\ RequestLimit \in Nat
    BY RecordAssumption, PipelineAssumption
  <2>3. \A b \in Builders : builds[b].todo = <<>> /\ builds[b].packets = NoPackets
    BY <1>1
  <2>4. \A p \in Bootstrappers : bootstraps[p].spent = {}
    BY <1>2
  <2>5. \A b \in Builders :
          Len(builds[b].todo) + Cardinality(Researched(builds[b].packets))
            <= MaxRanked + 2
    BY <2>1, <2>2, <2>3
  <2>6. ASSUME NEW p \in Bootstrappers
        PROVE  Cardinality(bootstraps[p].spent) <= RequestLimit
    <3>1. Cardinality(bootstraps[p].spent) = 0
      BY <2>1, <2>4
    <3> QED
      BY <3>1, <2>2
  <2> QED
    BY <2>5, <2>6 DEF WithinLimits
<1>4. TypeOK
  <2>1. clock \in Instants
    BY RecordAssumption DEF Init, Instants
  <2>2. builds \in [Builders -> BuildStates]
    BY Typed DEF Init
  <2>3. bootstraps \in [Bootstrappers -> BootstrapStates]
    BY Typed DEF Init
  <2> QED
    BY <1>3, <2>1, <2>2, <2>3, Typed DEF Init, TypeOK
<1>5. NothingYet /\ BuildsAreBacked
  BY <1>1 DEF NothingYet, BuildsAreBacked, NoPackets
<1>6. PacketsAreBacked
  BY DEF Init, PacketsAreBacked, NoPackets
<1>7. OneIsPending
  BY <1>2 DEF OneIsPending
<1> QED
  BY <1>4, <1>5, <1>6, <1>7 DEF IInv

-----------------------------------------------------------------------------
(* Each action preserves it *)

(* A step of one build that leaves the run alone: what there is to show    *)
(* about the new state of that build.                                      *)
LEMMA BuildStep ==
  ASSUME IInv, NEW b \in Builders, NEW now \in BuildStates, BuildProceeds,
         builds' = [builds EXCEPT ![b] = now],
         now.phase # "refresh" => now.packets = NoPackets,
         Len(now.todo) + Cardinality(Researched(now.packets)) <= MaxRanked + 2,
         now.inputs \subseteq records,
         \A n \in Universe : \A s \in now.packets[n] :
           s.reuse = "FETCHED_THIS_CYCLE" \/ s.record \in records
  PROVE  IInv'
<1> USE DEF IInv, BuildProceeds
<1>1. \A o \in Builders : builds'[o] = IF o = b THEN now ELSE builds[o]
  BY DEF TypeOK
<1>2. WithinLimits'
  BY <1>1 DEF TypeOK, WithinLimits
<1>3. TypeOK'
  BY <1>2 DEF TypeOK
<1>4. NothingYet'
  BY <1>1 DEF NothingYet
<1>5. BuildsAreBacked'
  BY <1>1 DEF BuildsAreBacked
<1>6. PacketsAreBacked'
  BY DEF PacketsAreBacked
<1>7. OneIsPending'
  BY DEF OneIsPending
<1> QED
  BY <1>3, <1>4, <1>5, <1>6, <1>7

LEMMA StartBuildKeeps ==
  ASSUME IInv, NEW b \in Builders, StartBuild(b)
  PROVE  IInv'
<1> USE DEF IInv, StartBuild
<1> DEFINE now == [builds[b] EXCEPT !.phase = "load", !.asOf = clock]
<1>1. builds[b] \in BuildStates /\ clock \in Instants
  BY DEF TypeOK
<1>2. /\ now \in BuildStates
      /\ now.phase = "load"
      /\ now.packets = builds[b].packets
      /\ now.todo = builds[b].todo
      /\ now.inputs = builds[b].inputs
  BY <1>1 DEF BuildStates
<1>3. builds' = [builds EXCEPT ![b] = now]
  BY DEF TypeOK
<1> HIDE DEF now
<1>4. \A o \in Builders : builds'[o] = IF o = b THEN now ELSE builds[o]
  BY <1>3 DEF TypeOK
<1>5. WithinLimits'
  BY <1>2, <1>4 DEF TypeOK, WithinLimits
<1>6. TypeOK'
  BY <1>2, <1>3, <1>5 DEF TypeOK
<1>7. NothingYet'
  BY <1>2, <1>4 DEF NothingYet
<1>8. BuildsAreBacked'
  BY <1>2, <1>4 DEF BuildsAreBacked
<1>9. PacketsAreBacked' /\ OneIsPending'
  BY DEF PacketsAreBacked, OneIsPending
<1> QED
  BY <1>6, <1>7, <1>8, <1>9

LEMMA LoadInputsKeeps ==
  ASSUME IInv, NEW b \in Builders, LoadInputs(b)
  PROVE  IInv'
<1> USE DEF IInv
<1>1. PICK ranking \in Rankings(Priced, records) :
        builds' = [builds EXCEPT ![b].phase = "refresh", ![b].inputs = records,
                     ![b].todo = SelectedOrder(Priced, records, ranking)]
  BY DEF LoadInputs
<1> DEFINE order == SelectedOrder(Priced, records, ranking)
           now == [builds[b] EXCEPT !.phase = "refresh", !.inputs = records,
                                    !.todo = order]
<1>2. records \in SUBSET Records /\ builds[b] \in BuildStates
  BY DEF TypeOK
<1>3. order \in Seq(Universe) /\ Len(order) <= MaxRanked + 2
  BY <1>2, SelectionFitsTheSlots, PipelineAssumption
<1> HIDE DEF order
<1>4. /\ now \in BuildStates
      /\ now.phase = "refresh"
      /\ now.packets = builds[b].packets
      /\ now.todo = order
      /\ now.inputs = records
  BY <1>2, <1>3 DEF BuildStates
<1>5. builds' = [builds EXCEPT ![b] = now]
  BY <1>1 DEF order, TypeOK
<1>6. now.packets = NoPackets
  BY <1>4 DEF LoadInputs, NothingYet
<1> HIDE DEF now
<1>7. Len(now.todo) + Cardinality(Researched(now.packets)) <= MaxRanked + 2
  <2>1. Len(order) \in Nat /\ Cardinality(Researched(now.packets)) = 0
    BY <1>3, <1>6, NothingResearched
  <2> QED
    BY <1>3, <1>4, <2>1, RecordAssumption
<1>8. \A n \in Universe : now.packets[n] = {}
  BY <1>6 DEF NoPackets
<1>9. BuildProceeds
  BY DEF LoadInputs
<1> QED
  BY <1>4, <1>5, <1>6, <1>7, <1>8, <1>9, BuildStep

LEMMA RefreshNameKeeps ==
  ASSUME IInv, NEW b \in Builders, NEW name \in Universe, RefreshName(b, name)
  PROVE  IInv'
<1> USE DEF IInv
<1> DEFINE was == builds[b]
           fresh == Refresh(name, was.inputs, was.asOf, Answer(name), clock)
           packets == [was.packets EXCEPT ![name] = fresh]
           now == [was EXCEPT !.todo = Tail(was.todo), !.packets = packets]
<1>1. /\ was \in BuildStates /\ records \in SUBSET Records /\ clock \in Instants
      /\ Answer(name) \in [Endpoints -> Periods]
  BY AnswersAreTyped DEF TypeOK
<1>2. was.inputs \in SUBSET Records /\ was.asOf \in Instants /\ was.inputs \subseteq records
  BY <1>1 DEF BuildStates, BuildsAreBacked
<1>3. \A s \in fresh : s \in Statuses /\ (s.reuse = "FETCHED_THIS_CYCLE" \/ s.record \in records)
  BY <1>1, <1>2, RefreshShowsCachedOrFetched
<1>4. builds' = [builds EXCEPT ![b] = now]
  BY DEF RefreshName, TypeOK
<1>5. BuildProceeds /\ was.todo # <<>> /\ was.phase = "refresh"
  BY DEF RefreshName
<1> HIDE DEF fresh
<1>6. packets \in [Universe -> SUBSET Statuses]
  BY <1>1, <1>3 DEF BuildStates
<1>7. \A n \in Universe : packets[n] = IF n = name THEN fresh ELSE was.packets[n]
  BY <1>1 DEF BuildStates
<1>8. was.todo \in Seq(Universe) /\ Tail(was.todo) \in Seq(Universe)
      /\ Len(Tail(was.todo)) = Len(was.todo) - 1 /\ Len(was.todo) \in Nat
  BY <1>1, <1>5 DEF BuildStates
<1>9. Cardinality(Researched(packets)) <= Cardinality(Researched(was.packets)) + 1
  <2>1. /\ Researched(packets) \in SUBSET Universe
        /\ Researched(was.packets) \in SUBSET Universe
        /\ Researched(packets) \subseteq Researched(was.packets) \cup {name}
    BY <1>7 DEF Researched
  <2> QED
    BY <2>1, OneMore
<1> HIDE DEF packets
<1>10. /\ now \in BuildStates
       /\ now.phase = "refresh"
       /\ now.packets = packets
       /\ now.todo = Tail(was.todo)
       /\ now.inputs = was.inputs
  BY <1>1, <1>5, <1>6, <1>8 DEF BuildStates
<1>11. Len(was.todo) + Cardinality(Researched(was.packets)) <= MaxRanked + 2
  BY DEF TypeOK, WithinLimits
<1>12. /\ Cardinality(Researched(packets)) \in Nat
       /\ Cardinality(Researched(was.packets)) \in Nat
  BY NamesAreFinite DEF Researched
<1>13. \A n \in Universe : \A s \in was.packets[n] :
         s.reuse = "FETCHED_THIS_CYCLE" \/ s.record \in records
  BY DEF BuildsAreBacked
<1> HIDE DEF now, was
<1>14. Len(now.todo) + Cardinality(Researched(now.packets)) <= MaxRanked + 2
  BY <1>8, <1>9, <1>10, <1>11, <1>12, RecordAssumption
<1>15. \A n \in Universe : \A s \in now.packets[n] :
         s.reuse = "FETCHED_THIS_CYCLE" \/ s.record \in records
  BY <1>3, <1>7, <1>10, <1>13
<1> QED
  BY <1>2, <1>4, <1>5, <1>10, <1>14, <1>15, BuildStep

LEMMA BuildRaisesKeeps ==
  ASSUME IInv, NEW b \in Builders, BuildRaises(b)
  PROVE  IInv'
<1>1. /\ Len(IdleBuild.todo) + Cardinality(Researched(IdleBuild.packets)) <= MaxRanked + 2
      /\ IdleBuild.inputs \subseteq records
      /\ \A n \in Universe : IdleBuild.packets[n] = {}
  BY IdleStates, NothingResearched, RecordAssumption DEF NoPackets
<1> QED
  BY <1>1, Typed, IdleStates, BuildStep DEF BuildRaises

(* More records break nothing that was on record.                          *)
LEMMA RecordsStay ==
  ASSUME NEW rs, NEW more, rs \subseteq more, NEW n, HasOverview(rs, n)
  PROVE  HasOverview(more, n)
  BY DEF HasOverview, Of

LEMMA PersistResearchCycleKeeps ==
  ASSUME IInv, NEW b \in Builders, PersistResearchCycle(b)
  PROVE  IInv'
<1> USE DEF IInv
<1> DEFINE packets == builds[b].packets
<1>1. packets \in [Universe -> SUBSET Statuses] /\ shown \in [Universe -> SUBSET Statuses]
      /\ records \in SUBSET Records
  BY DEF TypeOK, BuildStates
<1>2. \A n \in Universe : \A s \in packets[n] :
        s \in Statuses /\ s.record \in Records /\ (s.reuse = "FETCHED_THIS_CYCLE" \/ s.record \in records)
  BY <1>1 DEF BuildsAreBacked, Statuses
<1> HIDE DEF packets
<1>3. /\ records' = records \cup FetchedRecords(packets)
      /\ shown' = [n \in Universe |-> IF packets[n] # {} THEN packets[n] ELSE shown[n]]
      /\ builds' = [builds EXCEPT ![b] = IdleBuild]
      /\ UNCHANGED <<clock, calendar, bootstraps, overlapped>>
  BY DEF PersistResearchCycle, packets
<1>4. FetchedRecords(packets) \in SUBSET Records
  BY <1>2 DEF FetchedRecords
<1>5. records \subseteq records' /\ records' \in SUBSET Records
  BY <1>1, <1>3, <1>4
<1>6. \A n \in Universe : \A s \in packets[n] : s.record \in records'
  BY <1>2, <1>3 DEF FetchedRecords
<1>7. \A o \in Builders : builds'[o] = IF o = b THEN IdleBuild ELSE builds[o]
  BY <1>3 DEF TypeOK
<1>8. WithinLimits'
  <2>1. /\ Len(<<>>) = 0 /\ Cardinality(Researched(NoPackets)) = 0 /\ MaxRanked \in Nat
    BY NothingResearched, RecordAssumption
  <2>2. \A o \in Builders :
          Len(builds'[o].todo) + Cardinality(Researched(builds'[o].packets)) <= MaxRanked + 2
    <3>1. CASE Builders = {}
      BY <3>1
    <3>2. ASSUME NEW o \in Builders, o = b
          PROVE  /\ builds'[o].todo = <<>> /\ builds'[o].packets = NoPackets
      BY <1>7, <3>2, IdleStates
    <3>3. ASSUME NEW o \in Builders, o # b
          PROVE  Len(builds'[o].todo) + Cardinality(Researched(builds'[o].packets))
                   <= MaxRanked + 2
      BY <1>7, <3>3 DEF TypeOK, WithinLimits
    <3> QED
      BY <2>1, <3>2, <3>3
  <2> QED
    BY <1>3, <2>2 DEF TypeOK, WithinLimits
<1>9. TypeOK'
  <2>1. shown' \in [Universe -> SUBSET Statuses]
    BY <1>1, <1>3
  <2>2. builds' \in [Builders -> BuildStates]
    BY <1>3, Typed DEF TypeOK
  <2> QED
    BY <1>3, <1>5, <1>8, <2>1, <2>2 DEF TypeOK
<1>10. NothingYet'
  BY <1>7, IdleStates DEF NothingYet
<1>11. BuildsAreBacked'
  BY <1>5, <1>7, IdleStates DEF BuildsAreBacked, NoPackets
<1>12. PacketsAreBacked'
  BY <1>1, <1>3, <1>5, <1>6 DEF PacketsAreBacked
<1>13. OneIsPending'
  BY <1>3, <1>5, RecordsStay DEF OneIsPending
<1> QED
  BY <1>9, <1>10, <1>11, <1>12, <1>13

(* A step of one bootstrap that adds records the run does not have yet:    *)
(* what there is to show about its new state.                              *)
LEMMA BootstrapStep ==
  ASSUME IInv, NEW p \in Bootstrappers, NEW now \in BootstrapStates, BootstrapProceeds,
         bootstraps' = [bootstraps EXCEPT ![p] = now],
         records \subseteq records', records' \in SUBSET Records,
         Cardinality(now.spent) <= RequestLimit,
         now.phase = "idle" => now.spent = {},
         now.phase = "next" => \A n \in now.spent : HasOverview(records', n),
         now.phase = "persist" =>
           \E r \in Records :
             /\ now.pending = {r} /\ r.endpoint = "OVERVIEW"
             /\ \A n \in now.spent : n = r.name \/ HasOverview(records', n)
  PROVE  IInv'
<1> USE DEF IInv, BootstrapProceeds
<1>1. \A o \in Bootstrappers : bootstraps'[o] = IF o = p THEN now ELSE bootstraps[o]
  BY DEF TypeOK
<1>2. WithinLimits'
  BY <1>1 DEF TypeOK, WithinLimits
<1>3. TypeOK'
  BY <1>2 DEF TypeOK
<1>4. NothingYet'
  BY DEF NothingYet
<1>5. BuildsAreBacked' /\ PacketsAreBacked'
  BY DEF BuildsAreBacked, PacketsAreBacked
<1>6. OneIsPending'
  BY <1>1, RecordsStay DEF OneIsPending
<1> QED
  BY <1>3, <1>4, <1>5, <1>6

LEMMA StartBootstrapKeeps ==
  ASSUME IInv, NEW p \in Bootstrappers, StartBootstrap(p)
  PROVE  IInv'
<1> DEFINE now == [phase |-> "next", asOf |-> clock,
                   cached |-> {n \in Universe : HasOverview(records, n)},
                   spent |-> {}, pending |-> {}]
<1>1. now \in BootstrapStates /\ now.spent = {} /\ now.phase = "next"
  BY DEF IInv, TypeOK, BootstrapStates
<1>2. Cardinality(now.spent) <= RequestLimit
  BY FS_EmptySet, PipelineAssumption
<1>3. bootstraps' = [bootstraps EXCEPT ![p] = now] /\ BootstrapProceeds /\ records' = records
  BY DEF StartBootstrap
<1>4. records' \in SUBSET Records
  BY <1>3 DEF IInv, TypeOK
<1> HIDE DEF now
<1> QED
  BY <1>1, <1>2, <1>3, <1>4, BootstrapStep

LEMMA FetchOverviewKeeps ==
  ASSUME IInv, NEW p \in Bootstrappers, FetchOverview(p)
  PROVE  IInv'
<1>1. PICK name \in NextMissing(p) :
        bootstraps' = [bootstraps EXCEPT
          ![p].phase = "persist",
          ![p].spent = @ \cup {name},
          ![p].pending = {Record(name, "OVERVIEW", Answer(name)["OVERVIEW"],
                                 bootstraps[p].asOf)}]
  BY DEF FetchOverview
<1>2. name \in Universe /\ Cardinality(bootstraps[p].spent) < RequestLimit
  BY PipelineAssumption DEF NextMissing
<1> DEFINE was == bootstraps[p]
           r == Record(name, "OVERVIEW", Answer(name)["OVERVIEW"], was.asOf)
           now == [was EXCEPT !.phase = "persist", !.spent = was.spent \cup {name},
                              !.pending = {r}]
<1>3. was \in BootstrapStates /\ was.phase = "next" /\ BootstrapProceeds /\ records' = records
  BY DEF FetchOverview, IInv, TypeOK
<1>4. r \in Records /\ r.name = name /\ r.endpoint = "OVERVIEW"
  <2>1. Answer(name)["OVERVIEW"] \in Periods
    BY <1>2, AnswersAreTyped DEF IInv, Endpoints
  <2> QED
    BY <1>2, <1>3, <2>1 DEF Record, Records, BootstrapStates, Endpoints
<1>5. bootstraps' = [bootstraps EXCEPT ![p] = now]
  BY <1>1 DEF IInv, TypeOK
<1> HIDE DEF r
<1>6. /\ now \in BootstrapStates
      /\ now.phase = "persist"
      /\ now.spent = was.spent \cup {name}
      /\ now.pending = {r}
  BY <1>2, <1>3, <1>4 DEF BootstrapStates
<1>7. was.spent \in SUBSET Universe /\ now.spent \in SUBSET Universe
  BY <1>2, <1>3, <1>6 DEF BootstrapStates
<1>8. \A n \in was.spent : HasOverview(records, n)
  BY <1>3 DEF IInv, OneIsPending
<1>9. records' \in SUBSET Records
  BY <1>3 DEF IInv, TypeOK
<1> HIDE DEF now
<1>10. Cardinality(now.spent) <= RequestLimit
  <2>1. Cardinality(now.spent) <= Cardinality(was.spent) + 1
    BY <1>2, <1>6, <1>7, OneMore
  <2>2. Cardinality(was.spent) \in Nat /\ Cardinality(now.spent) \in Nat
    BY <1>7, NamesAreFinite
  <2> QED
    BY <1>2, <2>1, <2>2, PipelineAssumption
<1>11. \A n \in now.spent : n = r.name \/ HasOverview(records', n)
  BY <1>3, <1>4, <1>6, <1>8
<1> QED
  BY <1>3, <1>4, <1>5, <1>6, <1>9, <1>10, <1>11, BootstrapStep

LEMMA PersistOverviewRecordKeeps ==
  ASSUME IInv, NEW p \in Bootstrappers, PersistOverviewRecord(p)
  PROVE  IInv'
<1> DEFINE was == bootstraps[p]
           now == [was EXCEPT !.phase = "next", !.pending = {},
                     !.cached = was.cached \cup {r.name : r \in was.pending}]
<1>1. was \in BootstrapStates /\ was.phase = "persist" /\ BootstrapProceeds
      /\ records' = records \cup was.pending /\ records \in SUBSET Records
  BY DEF PersistOverviewRecord, IInv, TypeOK
<1>2. PICK r \in Records :
        /\ was.pending = {r} /\ r.endpoint = "OVERVIEW"
        /\ \A n \in was.spent : n = r.name \/ HasOverview(records, n)
  BY <1>1 DEF IInv, OneIsPending
<1>3. bootstraps' = [bootstraps EXCEPT ![p] = now]
  BY DEF PersistOverviewRecord, IInv, TypeOK
<1>4. /\ now \in BootstrapStates
      /\ now.phase = "next"
      /\ now.spent = was.spent
  BY <1>1, <1>2 DEF BootstrapStates, Records
<1>5. records \subseteq records' /\ records' \in SUBSET Records /\ r \in records'
  BY <1>1, <1>2
<1>6. HasOverview(records', r.name)
  BY <1>2, <1>5 DEF HasOverview, Of
<1>7. \A n \in now.spent : HasOverview(records', n)
  BY <1>2, <1>4, <1>5, <1>6, RecordsStay
<1>8. Cardinality(now.spent) <= RequestLimit
  BY <1>4 DEF IInv, TypeOK, WithinLimits
<1> HIDE DEF now
<1> QED
  BY <1>1, <1>3, <1>4, <1>5, <1>7, <1>8, BootstrapStep

LEMMA BootstrapEndsKeeps ==
  ASSUME IInv, NEW p \in Bootstrappers, FinishBootstrap(p) \/ BootstrapRaises(p)
  PROVE  IInv'
<1>1. /\ bootstraps' = [bootstraps EXCEPT ![p] = IdleBootstrap] /\ BootstrapProceeds
      /\ records' = records /\ records \in SUBSET Records
  BY DEF FinishBootstrap, BootstrapRaises, IInv, TypeOK
<1>2. Cardinality(IdleBootstrap.spent) <= RequestLimit
  BY IdleStates, FS_EmptySet, PipelineAssumption
<1> QED
  BY <1>1, <1>2, IdleStates, Typed, BootstrapStep

LEMMA TickKeeps ==
  ASSUME IInv, Tick
  PROVE  IInv'
<1> USE DEF IInv, Tick
<1>1. clock' \in Instants
  BY RecordAssumption DEF TypeOK, Instants
<1>2. TypeOK'
  BY <1>1 DEF TypeOK, WithinLimits
<1> QED
  BY <1>2 DEF NothingYet, BuildsAreBacked, PacketsAreBacked, OneIsPending

LEMMA NextKeeps == IInv /\ [Next]_vars => IInv'
<1> SUFFICES ASSUME IInv, [Next]_vars PROVE IInv'
  OBVIOUS
<1>1. ASSUME NEW b \in Builders, StartBuild(b) PROVE IInv'
  BY <1>1, StartBuildKeeps
<1>2. ASSUME NEW b \in Builders, LoadInputs(b) PROVE IInv'
  BY <1>2, LoadInputsKeeps
<1>3. ASSUME NEW b \in Builders, NEW name \in Universe, RefreshName(b, name) PROVE IInv'
  BY <1>3, RefreshNameKeeps
<1>4. ASSUME NEW b \in Builders, PersistResearchCycle(b) PROVE IInv'
  BY <1>4, PersistResearchCycleKeeps
<1>5. ASSUME NEW b \in Builders, BuildRaises(b) PROVE IInv'
  BY <1>5, BuildRaisesKeeps
<1>6. ASSUME NEW p \in Bootstrappers, StartBootstrap(p) PROVE IInv'
  BY <1>6, StartBootstrapKeeps
<1>7. ASSUME NEW p \in Bootstrappers, FetchOverview(p) PROVE IInv'
  BY <1>7, FetchOverviewKeeps
<1>8. ASSUME NEW p \in Bootstrappers, PersistOverviewRecord(p) PROVE IInv'
  BY <1>8, PersistOverviewRecordKeeps
<1>9. ASSUME NEW p \in Bootstrappers, FinishBootstrap(p) \/ BootstrapRaises(p) PROVE IInv'
  BY <1>9, BootstrapEndsKeeps
<1>10. ASSUME Tick PROVE IInv'
  BY <1>10, TickKeeps
<1>11. ASSUME UNCHANGED vars PROVE IInv'
  BY <1>11 DEF vars, IInv, TypeOK, WithinLimits, NothingYet, BuildsAreBacked,
     PacketsAreBacked, OneIsPending
<1> QED
  BY <1>1, <1>2, <1>3, <1>4, <1>5, <1>6, <1>7, <1>8, <1>9, <1>10, <1>11 DEF Next

-----------------------------------------------------------------------------
(* What a saved packet is worth *)

(* What every refresh leaves behind: a status of each endpoint, stale only *)
(* for an overview that a newer statement has overtaken.                   *)
IsComplete(statuses) ==
  /\ statuses \in SUBSET Statuses
  /\ \A e \in Endpoints :
       \E s \in statuses : /\ s.record.endpoint = e
                           /\ \A t \in statuses : t.record.endpoint = e => t = s
  /\ \A s \in statuses :
       s.reuse = "STALE" <=> (s.record.endpoint = "OVERVIEW" /\ Overtaken(statuses))

LEMMA NothingFetchedIsOvertaken ==
  ASSUME NEW statuses,
         \A s \in statuses : s.record.endpoint = "OVERVIEW"
                                => s.reuse = "FETCHED_THIS_CYCLE"
  PROVE  ~Overtaken(statuses)
  BY DEF Overtaken

(* One status of the overview and one of each statement.                   *)
LEMMA OneOfEach ==
  ASSUME NEW overview \in Statuses, overview.record.endpoint = "OVERVIEW",
         NEW statement \in [Statements -> Statuses],
         \A e \in Statements : statement[e].record.endpoint = e
  PROVE  LET statuses == {overview} \cup {statement[e] : e \in Statements}
         IN  /\ statuses \in SUBSET Statuses
             /\ \A e \in Endpoints :
                  \E s \in statuses :
                    /\ s.record.endpoint = e
                    /\ \A t \in statuses : t.record.endpoint = e => t = s
<1> DEFINE statuses == {overview} \cup {statement[e] : e \in Statements}
<1>1. statuses \in SUBSET Statuses
  OBVIOUS
<1>2. ASSUME NEW e \in Endpoints
      PROVE  \E s \in statuses : /\ s.record.endpoint = e
                                 /\ \A t \in statuses : t.record.endpoint = e => t = s
  <2>1. CASE e = "OVERVIEW"
    BY <2>1, RecordAssumption
  <2>2. CASE e \in Statements
    BY <2>2, RecordAssumption
  <2> QED
    BY <2>1, <2>2 DEF Endpoints
<1> QED
  BY <1>1, <1>2

LEMMA RefreshIsComplete ==
  ASSUME NEW name \in Universe, NEW rs \in SUBSET Records, NEW asOf \in Instants,
         NEW answer \in [Endpoints -> Periods], NEW now \in Instants
  PROVE  IsComplete(Refresh(name, rs, asOf, answer, now))
<1> DEFINE F(e) == Fetch(name, e, answer, now)
           statuses == Refresh(name, rs, asOf, answer, now)
<1>1. ASSUME NEW e \in Endpoints
      PROVE  /\ F(e) \in Statuses
             /\ F(e).record.endpoint = e
             /\ F(e).reuse = "FETCHED_THIS_CYCLE"
             /\ F(e).record.period \in Periods
  BY DEF Fetch, Status, Statuses, Record, Records
<1>2. FetchStatements(name, answer, now) = {F(e) : e \in Statements}
  BY DEF FetchStatements
<1>3. Statements \subseteq Endpoints /\ "OVERVIEW" \in Endpoints /\ "OVERVIEW" \notin Statements
  BY RecordAssumption DEF Endpoints
<1> HIDE DEF F
<1>4. CASE /\ ~HasCompleteStatementSet(name, rs)
           /\ FreshOverviews(name, rs, asOf) # {}
  <2> DEFINE fresh == FreshOverviews(name, rs, asOf)
             cached == Newest(fresh)
             label == IF \E s \in {F(e) : e \in Statements} :
                           s.record.period > cached.period
                      THEN "STALE" ELSE "REUSED_CURRENT"
             overview == Status(label, cached)
             statement == [e \in Statements |-> F(e)]
  <2>1. fresh \in SUBSET Records /\ fresh # {}
        /\ \A r \in fresh : r.endpoint = "OVERVIEW"
    BY <1>4 DEF FreshOverviews, Of
  <2>2. cached \in Records /\ cached.endpoint = "OVERVIEW"
    <3> HIDE DEF fresh
    <3> QED
      BY <2>1, NewestIsOne
  <2>3. statuses = {overview} \cup {F(e) : e \in Statements}
    BY <1>2, <1>4 DEF Refresh, HydrateFromCachedOverview
  <2> HIDE DEF cached
  <2>4. /\ overview \in Statuses
        /\ overview.record = cached
        /\ overview.reuse \in {"STALE", "REUSED_CURRENT"}
        /\ overview.reuse = "STALE" <=>
             \E e \in Statements : F(e).record.period > cached.period
    BY <2>2 DEF Status, Statuses
  <2> HIDE DEF overview, statuses
  <2>5. Overtaken(statuses) <=> \E e \in Statements : F(e).record.period > cached.period
    <3>1. ~ (cached.period > cached.period)
      BY <2>2, RecordAssumption DEF Records, Periods
    <3> QED
      BY <1>1, <1>3, <2>2, <2>3, <2>4, <3>1 DEF Overtaken
  <2>6. \A s \in statuses :
          s.reuse = "STALE" <=> (s.record.endpoint = "OVERVIEW" /\ Overtaken(statuses))
    BY <1>1, <1>3, <2>2, <2>3, <2>4, <2>5
  <2>7. /\ statuses \in SUBSET Statuses
        /\ \A e \in Endpoints :
             \E s \in statuses : /\ s.record.endpoint = e
                                 /\ \A t \in statuses : t.record.endpoint = e => t = s
    <3>1. /\ statement \in [Statements -> Statuses]
          /\ \A e \in Statements : statement[e].record.endpoint = e
      BY <1>1, <1>3
    <3>2. statuses = {overview} \cup {statement[e] : e \in Statements}
      BY <2>3
    <3> HIDE DEF statement
    <3> QED
      BY <2>2, <2>4, <3>1, <3>2, OneOfEach
  <2> QED
    BY <2>6, <2>7 DEF IsComplete, statuses
<1>5. CASE ~ (/\ ~HasCompleteStatementSet(name, rs)
              /\ FreshOverviews(name, rs, asOf) # {})
  <2> DEFINE OfTheQuarter(e) == {r \in Of(rs, name, e) : r.period = answer["OVERVIEW"]}
             R(e) == Status("REUSED_CURRENT", Newest(OfTheQuarter(e)))
  <2>1. \/ statuses = {F("OVERVIEW")} \cup {F(e) : e \in Statements}
        \/ /\ \A e \in Statements : OfTheQuarter(e) # {}
           /\ statuses = {F("OVERVIEW")} \cup {R(e) : e \in Statements}
    BY <1>2, <1>5 DEF Refresh, RefreshWithLiveOverview, F
  <2>2. ASSUME NEW e \in Statements, OfTheQuarter(e) # {}
        PROVE  /\ R(e) \in Statuses
               /\ R(e).record.endpoint = e
               /\ R(e).reuse = "REUSED_CURRENT"
    <3>1. OfTheQuarter(e) \in SUBSET Records
          /\ \A r \in OfTheQuarter(e) : r.endpoint = e
      BY DEF Of
    <3>2. Newest(OfTheQuarter(e)) \in Records /\ Newest(OfTheQuarter(e)).endpoint = e
      <4> HIDE DEF OfTheQuarter
      <4> QED
        BY <2>2, <3>1, NewestIsOne
    <3> QED
      BY <3>2 DEF Status, Statuses
  <2> HIDE DEF OfTheQuarter, R, statuses
  <2>3. CASE statuses = {F("OVERVIEW")} \cup {F(e) : e \in Statements}
    <3>1. ~Overtaken(statuses)
      BY <1>1, <1>3, <2>3, NothingFetchedIsOvertaken
    <3>2. \A s \in statuses : s.reuse # "STALE"
      BY <1>1, <1>3, <2>3
    <3>3. /\ statuses \in SUBSET Statuses
          /\ \A e \in Endpoints :
               \E s \in statuses : /\ s.record.endpoint = e
                                   /\ \A t \in statuses : t.record.endpoint = e => t = s
      <4> DEFINE statement == [e \in Statements |-> F(e)]
      <4>1. /\ statement \in [Statements -> Statuses]
            /\ \A e \in Statements : statement[e].record.endpoint = e
        BY <1>1, <1>3
      <4>2. statuses = {F("OVERVIEW")} \cup {statement[e] : e \in Statements}
        BY <2>3
      <4> HIDE DEF statement
      <4> QED
        BY <1>1, <1>3, <4>1, <4>2, OneOfEach
    <3> QED
      BY <3>1, <3>2, <3>3 DEF IsComplete, statuses
  <2>4. CASE /\ \A e \in Statements : OfTheQuarter(e) # {}
             /\ statuses = {F("OVERVIEW")} \cup {R(e) : e \in Statements}
    <3>1. ~Overtaken(statuses)
      BY <1>1, <1>3, <2>2, <2>4, NothingFetchedIsOvertaken
    <3>2. \A s \in statuses : s.reuse # "STALE"
      BY <1>1, <1>3, <2>2, <2>4
    <3>3. /\ statuses \in SUBSET Statuses
          /\ \A e \in Endpoints :
               \E s \in statuses : /\ s.record.endpoint = e
                                   /\ \A t \in statuses : t.record.endpoint = e => t = s
      <4> DEFINE statement == [e \in Statements |-> R(e)]
      <4>1. /\ statement \in [Statements -> Statuses]
            /\ \A e \in Statements : statement[e].record.endpoint = e
        BY <2>2, <2>4
      <4>2. statuses = {F("OVERVIEW")} \cup {statement[e] : e \in Statements}
        BY <2>4
      <4> HIDE DEF statement
      <4> QED
        BY <1>1, <1>3, <4>1, <4>2, OneOfEach
    <3> QED
      BY <3>1, <3>2, <3>3 DEF IsComplete, statuses
  <2> QED
    BY <2>1, <2>3, <2>4
<1> QED
  BY <1>4, <1>5

(* A metric is attributed to the facts it is computed from, at least.      *)
IsAttributed(metric, stale) ==
  /\ metric.reliability = "DERIVED_DETERMINISTIC"
  /\ metric.formula = metric.id
  /\ metric.inputs # {}
  /\ metric.uses \subseteq metric.inputs
  /\ metric.freshness = InheritedFreshness(metric.inputs, stale)

LEMMA MetricsAreAttributed ==
  ASSUME NEW id, NEW keys, keys # {}, NEW used \in SUBSET keys, NEW value, NEW stale
  PROVE  /\ IsAttributed(Metric(id, keys, used, value, stale), stale)
         /\ Metric(id, keys, used, value, stale).id = id
  BY DEF IsAttributed, Metric

LEMMA DerivedMetricsAreComplete ==
  ASSUME NEW inputs, NEW stale
  PROVE  /\ \A metric \in DerivedMetrics(inputs, stale) : IsAttributed(metric, stale)
         /\ {metric.id : metric \in DerivedMetrics(inputs, stale)}
              = Policy!BaselineMetrics
<1> DEFINE Is(metric, id) == IsAttributed(metric, stale) /\ metric.id = id
<1>1. ASSUME NEW id, NEW used, used # {}
      PROVE  /\ Is(Plain(id, inputs, used, stale), id)
             /\ Is(Margin(id, inputs, used, stale), id)
  BY <1>1, MetricsAreAttributed DEF Plain, Margin
<1>2. ShareKeys(inputs) = {Shares(inputs)} /\ Shares(inputs) \in EitherShare
  BY DEF ShareKeys, Shares, EitherShare
<1>3. Is(MarketCap(inputs, stale), "market_cap")
  BY <1>2, MetricsAreAttributed DEF MarketCap, CapInputs
<1>4. CapInputs(inputs) \subseteq EitherShare /\ EitherShare # {}
  BY <1>2 DEF CapInputs, EitherShare
<1>5. Is(EnterpriseValue(inputs, stale), "enterprise_value")
  BY <1>4, MetricsAreAttributed DEF EnterpriseValue
<1>6. Is(FreeCashFlowYield(inputs, stale), "fcf_yield")
  BY <1>4, MetricsAreAttributed DEF FreeCashFlowYield
<1> DEFINE
  current  == {"current_assets", "current_liabilities"}
  quarters == {"quarterly_operating_cash_flow", "quarterly_net_income"}
  CR == Metric("current_ratio", current, current, CurrentRatio(inputs), stale)
  CC == Metric("cash_conversion", quarters, quarters,
               CashConversion(inputs, quarters), stale)
  P(id, used) == Plain(id, inputs, used, stale)
  M(id, used) == Margin(id, inputs, used, stale)
<1>7. Is(CR, "current_ratio") /\ Is(CC, "cash_conversion")
  BY MetricsAreAttributed
<1>8. DerivedMetrics(inputs, stale) =
        {P("net_debt", {"total_debt", "cash"}),
         P("fcf", {"operating_cash_flow", "capex"}),
         P("ttm_ocf", {"quarterly_operating_cash_flow"}),
         P("ttm_capex", {"quarterly_capex"}),
         P("ttm_fcf", {"quarterly_operating_cash_flow", "quarterly_capex"}),
         P("ttm_net_income", {"quarterly_net_income"}),
         P("ttm_revenue", {"quarterly_revenue"}),
         P("share_count_change", {"latest_shares", "shares_4q_ago"}),
         M("gross_margin", {"gross_profit", "revenue"}),
         M("operating_margin", {"operating_income", "revenue"}),
         M("net_margin", {"net_income", "revenue"}),
         CR, CC, MarketCap(inputs, stale), EnterpriseValue(inputs, stale),
         FreeCashFlowYield(inputs, stale)}
  <2> DEFINE
    plain ==
      [net_debt           |-> {"total_debt", "cash"},
       fcf                |-> {"operating_cash_flow", "capex"},
       ttm_ocf            |-> {"quarterly_operating_cash_flow"},
       ttm_capex          |-> {"quarterly_capex"},
       ttm_fcf            |-> {"quarterly_operating_cash_flow", "quarterly_capex"},
       ttm_net_income     |-> {"quarterly_net_income"},
       ttm_revenue        |-> {"quarterly_revenue"},
       share_count_change |-> {"latest_shares", "shares_4q_ago"}]
    margins == [gross_margin     |-> {"gross_profit", "revenue"},
                operating_margin |-> {"operating_income", "revenue"},
                net_margin       |-> {"net_income", "revenue"}]
    ofPlain == {P(id, plain[id]) : id \in DOMAIN plain}
    ofMargins == {M(id, margins[id]) : id \in DOMAIN margins}
  <2>1. DerivedMetrics(inputs, stale) =
          ofPlain \cup ofMargins
            \cup {CR, CC, MarketCap(inputs, stale), EnterpriseValue(inputs, stale),
                  FreeCashFlowYield(inputs, stale)}
    BY Zenon DEF DerivedMetrics
  <2>2. DOMAIN plain = {"net_debt", "fcf", "ttm_ocf", "ttm_capex", "ttm_fcf",
                        "ttm_net_income", "ttm_revenue", "share_count_change"}
    OBVIOUS
  <2>3. DOMAIN margins = {"gross_margin", "operating_margin", "net_margin"}
    OBVIOUS
  <2> HIDE DEF P, M
  <2>4. ofPlain = {P(id, plain[id]) :
                     id \in {"net_debt", "fcf", "ttm_ocf", "ttm_capex", "ttm_fcf",
                             "ttm_net_income", "ttm_revenue", "share_count_change"}}
    BY <2>2, Zenon
  <2>5. ofMargins = {M(id, margins[id]) :
                       id \in {"gross_margin", "operating_margin", "net_margin"}}
    BY <2>3, Zenon
  <2>6. ofPlain = {P("net_debt", {"total_debt", "cash"}),
                   P("fcf", {"operating_cash_flow", "capex"}),
                   P("ttm_ocf", {"quarterly_operating_cash_flow"}),
                   P("ttm_capex", {"quarterly_capex"}),
                   P("ttm_fcf", {"quarterly_operating_cash_flow", "quarterly_capex"}),
                   P("ttm_net_income", {"quarterly_net_income"}),
                   P("ttm_revenue", {"quarterly_revenue"}),
                   P("share_count_change", {"latest_shares", "shares_4q_ago"})}
    BY <2>4
  <2>7. ofMargins = {M("gross_margin", {"gross_profit", "revenue"}),
                     M("operating_margin", {"operating_income", "revenue"}),
                     M("net_margin", {"net_income", "revenue"})}
    BY <2>5
  <2> HIDE DEF ofPlain, ofMargins, CR, CC
  <2> QED
    BY <2>1, <2>6, <2>7
<1>9. /\ Is(P("net_debt", {"total_debt", "cash"}), "net_debt")
      /\ Is(P("fcf", {"operating_cash_flow", "capex"}), "fcf")
      /\ Is(P("ttm_ocf", {"quarterly_operating_cash_flow"}), "ttm_ocf")
      /\ Is(P("ttm_capex", {"quarterly_capex"}), "ttm_capex")
      /\ Is(P("ttm_fcf", {"quarterly_operating_cash_flow", "quarterly_capex"}), "ttm_fcf")
      /\ Is(P("ttm_net_income", {"quarterly_net_income"}), "ttm_net_income")
      /\ Is(P("ttm_revenue", {"quarterly_revenue"}), "ttm_revenue")
      /\ Is(P("share_count_change", {"latest_shares", "shares_4q_ago"}),
            "share_count_change")
      /\ Is(M("gross_margin", {"gross_profit", "revenue"}), "gross_margin")
      /\ Is(M("operating_margin", {"operating_income", "revenue"}), "operating_margin")
      /\ Is(M("net_margin", {"net_income", "revenue"}), "net_margin")
  <2> HIDE DEF Is
  <2> QED
    BY <1>1
<1> HIDE DEF CR, CC, P, M
<1>10. \A metric \in DerivedMetrics(inputs, stale) : IsAttributed(metric, stale)
  BY <1>3, <1>5, <1>6, <1>7, <1>8, <1>9
<1>11. {metric.id : metric \in DerivedMetrics(inputs, stale)} = Policy!BaselineMetrics
  BY <1>3, <1>5, <1>6, <1>7, <1>8, <1>9 DEF Policy!BaselineMetrics
<1> QED
  BY <1>10, <1>11

LEMMA EveryEndpointIsCovered ==
  ASSUME NEW statuses, IsComplete(statuses)
  PROVE  /\ DOMAIN Coverage(statuses) = Endpoints
         /\ \A s \in statuses :
              Coverage(statuses)[s.record.endpoint] =
                [reuse |-> s.reuse, freshness |-> CoverageFreshness(s),
                 reliability |-> CoverageReliability(s.record.endpoint)]
<1>1. \A s \in statuses : s.record.endpoint \in Endpoints
  BY DEF IsComplete, Statuses, Records
<1>2. {s.record.endpoint : s \in statuses} = Endpoints
  BY <1>1 DEF IsComplete
<1>3. ASSUME NEW s \in statuses
      PROVE  Coverage(statuses)[s.record.endpoint] =
                [reuse |-> s.reuse, freshness |-> CoverageFreshness(s),
                 reliability |-> CoverageReliability(s.record.endpoint)]
  <2> DEFINE e == s.record.endpoint
             chosen == CHOOSE t \in statuses : t.record.endpoint = e
  <2>1. chosen \in statuses /\ chosen.record.endpoint = e
    OBVIOUS
  <2>2. chosen = s
    BY <1>1, <2>1 DEF IsComplete
  <2>3. Coverage(statuses)[e] =
          [reuse |-> chosen.reuse, freshness |-> CoverageFreshness(chosen),
           reliability |-> CoverageReliability(e)]
    BY DEF Coverage
  <2> QED
    BY <2>2, <2>3
<1> QED
  BY <1>2, <1>3 DEF Coverage

LEMMA StaleInputsOfAComplete ==
  ASSUME NEW statuses, IsComplete(statuses)
  PROVE  /\ ~Overtaken(statuses) => StaleInputs(statuses) = {}
         /\ Overtaken(statuses) => InputsOf("OVERVIEW") \subseteq StaleInputs(statuses)
<1>1. \A s \in statuses : CoverageFreshness(s) = "STALE" <=> s.reuse = "STALE"
  BY DEF CoverageFreshness
<1>2. ASSUME ~Overtaken(statuses) PROVE StaleInputs(statuses) = {}
  BY <1>1, <1>2 DEF IsComplete, StaleInputs
<1>3. ASSUME Overtaken(statuses) PROVE InputsOf("OVERVIEW") \subseteq StaleInputs(statuses)
  <2>1. PICK s \in statuses : s.record.endpoint = "OVERVIEW"
    BY DEF IsComplete, Endpoints
  <2>2. CoverageFreshness(s) = "STALE"
    BY <1>1, <1>3, <2>1 DEF IsComplete
  <2> QED
    BY <2>1, <2>2 DEF StaleInputs
<1> QED
  BY <1>2, <1>3

(* The five endpoints of the policy are those of the run.                  *)
LEMMA PolicyEndpoints == Policy!Endpoints = Endpoints
  BY ReportAssumption DEF Policy!Endpoints, Endpoints

LEMMA CompletePacketsAreBaseline ==
  ASSUME NEW n \in Universe, NEW statuses, IsComplete(statuses)
  PROVE  SavedAsBaseline(n, statuses)
<1> DEFINE inputs == MetricInputs(n, statuses)
           stale == StaleInputs(statuses)
           packet == AssembledPacket(n, statuses)
           security == SecurityOf(n)
<1>1. /\ packet.coverage = Coverage(statuses)
      /\ packet.metrics = DerivedMetrics(inputs, stale)
  BY DEF AssembledPacket
<1>2. Policy!IdentityMatches(packet, security)
  BY DEF Policy!IdentityMatches, AssembledPacket, SecurityOf
<1>3. /\ {metric.id : metric \in packet.metrics} = Policy!BaselineMetrics
      /\ \A metric \in packet.metrics : IsAttributed(metric, stale)
  <2> HIDE DEF inputs, stale, packet
  <2> QED
    BY <1>1, DerivedMetricsAreComplete
<1> HIDE DEF inputs, packet, security
<1>4. ASSUME NEW s \in statuses
      PROVE  Policy!Covered(packet, s.record.endpoint) <=> s.reuse # "STALE"
  <2>1. s.reuse \in {"FETCHED_THIS_CYCLE", "REUSED_CURRENT", "STALE"}
        /\ s.record.endpoint \in Endpoints
    BY DEF IsComplete, Statuses, Records
  <2>2. /\ DOMAIN packet.coverage = Endpoints
        /\ packet.coverage[s.record.endpoint] =
             [reuse |-> s.reuse, freshness |-> CoverageFreshness(s),
              reliability |-> CoverageReliability(s.record.endpoint)]
    BY <1>1, EveryEndpointIsCovered
  <2>3. CoverageReliability(s.record.endpoint)
          = Policy!RequiredReliability(s.record.endpoint)
    BY DEF CoverageReliability, Policy!RequiredReliability
  <2> QED
    BY <2>1, <2>2, <2>3 DEF Policy!Covered, CoverageFreshness
<1>5. (\A e \in Endpoints : Policy!Covered(packet, e)) <=> ~Overtaken(statuses)
  <2>1. CASE Overtaken(statuses)
    <3>1. PICK s \in statuses : s.record.endpoint = "OVERVIEW"
      BY DEF IsComplete, Endpoints
    <3>2. s.reuse = "STALE" /\ "OVERVIEW" \in Endpoints
      BY <2>1, <3>1 DEF IsComplete, Endpoints
    <3> QED
      BY <1>4, <2>1, <3>1, <3>2
  <2>2. CASE ~Overtaken(statuses)
    <3>1. \A s \in statuses : s.reuse # "STALE"
      BY <2>2 DEF IsComplete
    <3>2. \A e \in Endpoints : \E s \in statuses : s.record.endpoint = e
      BY DEF IsComplete
    <3> QED
      BY <1>4, <2>2, <3>1, <3>2
  <2> QED
    BY <2>1, <2>2
<1>6. ~Overtaken(statuses) => \A metric \in packet.metrics : Policy!SoundMetric(metric)
  <2> HIDE DEF stale
  <2>1. ~Overtaken(statuses) => stale = {}
    BY StaleInputsOfAComplete DEF stale
  <2> QED
    BY <1>3, <2>1 DEF IsAttributed, InheritedFreshness, Policy!SoundMetric
<1>7. Policy!BaselineQualified(packet, security) <=>
        /\ \A e \in Endpoints : Policy!Covered(packet, e)
        /\ \A metric \in packet.metrics : Policy!SoundMetric(metric)
  <2> DEFINE baseline == [band |-> "BASELINE_RESEARCH_V2", reachable |-> TRUE,
                          endpoints |-> Policy!Endpoints,
                          metrics |-> Policy!BaselineMetrics]
  <2>1. /\ baseline \in Policy!EvidenceBands
        /\ \A d \in Policy!EvidenceBands : d.band = "BASELINE_RESEARCH_V2" => d = baseline
    BY DEF Policy!EvidenceBands
  <2>2. Policy!BaselineQualified(packet, security) <=>
          Policy!Eligible(baseline, packet, security)
    <3>1. baseline.band = "BASELINE_RESEARCH_V2"
      OBVIOUS
    <3> HIDE DEF baseline
    <3> QED
      BY <2>1, <3>1 DEF Policy!BaselineQualified
  <2>3. /\ baseline.reachable
        /\ baseline.endpoints = Endpoints
        /\ baseline.metrics = Policy!BaselineMetrics
    BY PolicyEndpoints
  <2> HIDE DEF baseline
  <2> QED
    BY <1>2, <1>3, <2>2, <2>3 DEF Policy!Eligible
<1>8. ASSUME Overtaken(statuses), NEW metric \in packet.metrics, metric.freshness = "FRESH"
      PROVE  metric.uses \cap InputsOf("OVERVIEW") = {}
  <2>1. InputsOf("OVERVIEW") \subseteq stale
    BY <1>8, StaleInputsOfAComplete
  <2>2. metric.inputs \cap stale = {} /\ metric.uses \subseteq metric.inputs
    BY <1>3, <1>8 DEF IsAttributed, InheritedFreshness
  <2> HIDE DEF stale
  <2> QED
    BY <2>1, <2>2
<1>9. Policy!BaselineQualified(packet, security) <=> ~Overtaken(statuses)
  BY <1>5, <1>6, <1>7
<1> QED
  BY <1>8, <1>9, Zenon DEF SavedAsBaseline, packet, security

(* The packets of a build in progress.                                     *)
BuildsAreComplete ==
  \A b \in Builders : \A n \in Universe :
    builds[b].packets[n] # {} => IsComplete(builds[b].packets[n])

LEMMA NextKeepsComplete ==
  IInv /\ BuildsAreComplete /\ [Next]_vars => BuildsAreComplete'
<1> SUFFICES ASSUME IInv, BuildsAreComplete, [Next]_vars PROVE BuildsAreComplete'
  OBVIOUS
<1>1. builds \in [Builders -> BuildStates]
  BY DEF IInv, TypeOK
<1>2. ASSUME builds' = builds PROVE BuildsAreComplete'
  BY <1>2 DEF BuildsAreComplete, IsComplete, Overtaken
<1>3. ASSUME NEW b \in Builders, NEW packets,
             builds' \in [Builders -> BuildStates],
             \A o \in Builders :
               builds'[o].packets = IF o = b THEN packets ELSE builds[o].packets,
             \A n \in Universe : packets[n] # {} => IsComplete(packets[n])
      PROVE  BuildsAreComplete'
  BY <1>3 DEF BuildsAreComplete
<1>4. IInv'
  BY NextKeeps
<1>5. builds' \in [Builders -> BuildStates]
  BY <1>4 DEF IInv, TypeOK
<1>6. ASSUME NEW b \in Builders, StartBuild(b) \/ LoadInputs(b) PROVE BuildsAreComplete'
  <2>1. \A o \in Builders :
          builds'[o].packets = IF o = b THEN builds[b].packets ELSE builds[o].packets
    BY <1>1, <1>6 DEF StartBuild, LoadInputs, BuildStates
  <2> QED
    BY <1>3, <1>5, <2>1 DEF BuildsAreComplete
<1>7. ASSUME NEW b \in Builders, NEW name \in Universe, RefreshName(b, name)
      PROVE  BuildsAreComplete'
  <2> DEFINE fresh == Refresh(name, builds[b].inputs, builds[b].asOf, Answer(name), clock)
             packets == [builds[b].packets EXCEPT ![name] = fresh]
  <2>1. /\ builds[b].inputs \in SUBSET Records /\ builds[b].asOf \in Instants
        /\ clock \in Instants /\ Answer(name) \in [Endpoints -> Periods]
        /\ builds[b].packets \in [Universe -> SUBSET Statuses]
    BY <1>1, AnswersAreTyped DEF IInv, TypeOK, BuildStates
  <2>2. IsComplete(fresh)
    BY <2>1, RefreshIsComplete
  <2>3. \A o \in Builders :
          builds'[o].packets = IF o = b THEN packets ELSE builds[o].packets
    BY <1>1, <1>7 DEF RefreshName, BuildStates
  <2> HIDE DEF fresh
  <2>4. \A n \in Universe : packets[n] = IF n = name THEN fresh ELSE builds[b].packets[n]
    BY <2>1
  <2>5. \A n \in Universe : packets[n] # {} => IsComplete(packets[n])
    BY <2>2, <2>4 DEF BuildsAreComplete
  <2> HIDE DEF packets
  <2> QED
    BY <1>3, <1>5, <2>3, <2>5
<1>8. ASSUME NEW b \in Builders, PersistResearchCycle(b) \/ BuildRaises(b)
      PROVE  BuildsAreComplete'
  <2>1. \A o \in Builders :
          builds'[o].packets = IF o = b THEN NoPackets ELSE builds[o].packets
    BY <1>1, <1>8, IdleStates DEF PersistResearchCycle, BuildRaises
  <2>2. \A n \in Universe : NoPackets[n] = {}
    BY DEF NoPackets
  <2> QED
    BY <1>3, <1>5, <2>1, <2>2
<1>9. ASSUME NEW p \in Bootstrappers,
             \/ StartBootstrap(p) \/ FetchOverview(p) \/ PersistOverviewRecord(p)
             \/ FinishBootstrap(p) \/ BootstrapRaises(p)
      PROVE  builds' = builds
  BY <1>9 DEF StartBootstrap, FetchOverview, PersistOverviewRecord, FinishBootstrap,
     BootstrapRaises, BootstrapProceeds
<1>10. Tick \/ UNCHANGED vars => builds' = builds
  BY DEF Tick, vars
<1> QED
  BY <1>2, <1>6, <1>7, <1>8, <1>9, <1>10 DEF Next

(* Only a build that ends well changes what is shown.                      *)
LEMMA OnlyCompleteIsShown ==
  ASSUME IInv, BuildsAreComplete, [Next]_vars, NEW n \in Universe, shown'[n] # shown[n]
  PROVE  IsComplete(shown'[n])
<1>1. shown' # shown
  OBVIOUS
<1>2. \E b \in Builders : PersistResearchCycle(b)
  BY <1>1 DEF Next, vars, StartBuild, LoadInputs, RefreshName, BuildRaises, BuildProceeds,
     StartBootstrap, FetchOverview, PersistOverviewRecord, FinishBootstrap,
     BootstrapRaises, BootstrapProceeds, Tick
<1>3. PICK b \in Builders : PersistResearchCycle(b)
  BY <1>2
<1>4. shown'[n] = builds[b].packets[n] /\ builds[b].packets[n] # {}
  BY <1>3 DEF PersistResearchCycle
<1> QED
  BY <1>4 DEF BuildsAreComplete

-----------------------------------------------------------------------------
(* What holds of every behaviour *)

LEMMA Invariant == Spec => []IInv
  BY InitIInv, NextKeeps, PTL DEF Spec

(***************************************************************************)
(* Whatever the names, slots, builds and bootstraps: no build researches   *)
(* more names than there are slots and no bootstrap sends more requests    *)
(* than it may.                                                            *)
(***************************************************************************)
THEOREM SlotsAndRequestsAreBounded == Spec => []TypeOK
<1>1. IInv => TypeOK
  BY DEF IInv
<1> QED
  BY <1>1, Invariant, PTL

(***************************************************************************)
(* However many builds and bootstraps overlap and fail, the packets of a   *)
(* saved batch refer to nothing that is not on record.                     *)
(***************************************************************************)
THEOREM SavedPacketsAreBacked == Spec => []PacketsAreBacked
<1>1. IInv => PacketsAreBacked
  BY DEF IInv
<1> QED
  BY <1>1, Invariant, PTL

(***************************************************************************)
(* Wherever a bootstrap ends, at most the last answer it has paid for is   *)
(* not on record.                                                          *)
(***************************************************************************)
THEOREM QuotaSpentIsKept == Spec => []SpentIsKept
<1>1. ASSUME IInv, NEW p \in Bootstrappers
      PROVE  Cardinality({n \in bootstraps[p].spent : ~HasOverview(records, n)}) <= 1
  <2> DEFINE lost == {n \in bootstraps[p].spent : ~HasOverview(records, n)}
  <2>1. bootstraps[p].phase \in {"idle", "next", "persist"}
    BY <1>1 DEF IInv, TypeOK, BootstrapStates
  <2>2. CASE bootstraps[p].phase \in {"idle", "next"}
    <3>1. lost = {}
      BY <1>1, <2>2 DEF IInv, OneIsPending
    <3> QED
      BY <3>1, FS_EmptySet
  <2>3. CASE bootstraps[p].phase = "persist"
    <3>1. PICK x : lost \subseteq {x}
      BY <1>1, <2>3 DEF IInv, OneIsPending
    <3>2. IsFiniteSet({x}) /\ lost \in SUBSET {x}
      BY <3>1, FS_Singleton
    <3> HIDE DEF lost
    <3>3. Cardinality(lost) <= Cardinality({x})
      BY <3>2, FS_Subset
    <3>4. Cardinality({x}) = 1
      BY FS_Singleton
    <3>5. Cardinality(lost) <= 1
      BY <3>3, <3>4
    <3> QED
      BY <3>5 DEF lost
  <2> QED
    BY <2>1, <2>2, <2>3
<1>2. IInv => SpentIsKept
  BY <1>1 DEF SpentIsKept
<1> QED
  BY <1>2, Invariant, PTL

LEMMA CompletenessInvariant == Spec => [](IInv /\ BuildsAreComplete)
<1>1. Init => BuildsAreComplete
  BY IdleStates DEF Init, BuildsAreComplete, NoPackets
<1> QED
  BY <1>1, InitIInv, NextKeeps, NextKeepsComplete, PTL DEF Spec

(***************************************************************************)
(* Whatever the provider reports or leaves out, and however builds and     *)
(* bootstraps overlap: a saved packet is baseline evidence exactly unless  *)
(* its overview was overtaken, and no figure computed from an overtaken    *)
(* overview passes for fresh.                                              *)
(***************************************************************************)
THEOREM SavedPacketsAreBaseline == Spec => BaselineUnlessOvertaken
<1> DEFINE Saved == \A n \in Universe : shown'[n] # shown[n] => SavedAsBaseline(n, shown'[n])
<1>1. IInv /\ BuildsAreComplete /\ [Next]_vars => [Saved]_vars
  BY OnlyCompleteIsShown, CompletePacketsAreBaseline
<1>2. Spec => [][Saved]_vars
  BY <1>1, CompletenessInvariant, PTL DEF Spec
<1> QED
  BY <1>2 DEF BaselineUnlessOvertaken

-----------------------------------------------------------------------------
(* Research does not step back: an orderly provider *)

(* The quarters an orderly provider shows.                                 *)
LEMMA OrderlyQuarters ==
  ASSUME TypeOK, IsOrderly(calendar), NEW n \in Universe,
         NEW t \in Instants, NEW u \in Instants
  PROVE  /\ \A e \in Endpoints : /\ calendar[t][n][e] \in Nat
                                 /\ t <= u => calendar[t][n][e] <= calendar[u][n][e]
         /\ \A e \in Statements :
              /\ e \in Endpoints
              /\ calendar[t][n][e] <= calendar[t][n]["OVERVIEW"] + 1
              /\ /\ calendar[t][n][e] = calendar[u][n]["OVERVIEW"]
                 /\ calendar[t][n][e] < calendar[u][n][e]
                 => \A f \in Statements : calendar[t][n][f] = calendar[t][n][e]
<1>1. calendar \in [Instants -> [Universe -> [Endpoints -> Periods]]]
  BY PipelineAssumption DEF TypeOK
<1>2. Periods \subseteq Nat
  BY RecordAssumption DEF Periods
<1>3. calendar[t][n] \in [Endpoints -> Periods]
  BY <1>1
<1>4. \A e \in Endpoints : calendar[t][n][e] \in Nat
  BY <1>2, <1>3
<1>5. \A e \in Endpoints : t <= u => calendar[t][n][e] <= calendar[u][n][e]
  BY DEF IsOrderly
<1>6. \A e \in Statements :
        /\ calendar[t][n][e] <= calendar[t][n]["OVERVIEW"] + 1
        /\ /\ calendar[t][n][e] = calendar[u][n]["OVERVIEW"]
           /\ calendar[t][n][e] < calendar[u][n][e]
           => \A f \in Statements : calendar[t][n][f] = calendar[t][n][e]
  BY DEF IsOrderly
<1>7. Statements \subseteq Endpoints
  BY DEF Endpoints
<1> QED
  BY <1>4, <1>5, <1>6, <1>7

(* A status of a refresh is the overview or a statement just fetched, a    *)
(* statement of the overview's quarter or, while statements are missing, a *)
(* cached overview.                                                        *)
LEMMA RefreshKinds ==
  ASSUME NEW name \in Universe, NEW rs \in SUBSET Records, NEW asOf \in Instants,
         NEW answer \in [Endpoints -> Periods], NEW now \in Instants,
         NEW s \in Refresh(name, rs, asOf, answer, now)
  PROVE  \/ s = Fetch(name, "OVERVIEW", answer, now)
         \/ /\ \E e \in Statements : s = Fetch(name, e, answer, now)
            /\ FetchStatements(name, answer, now)
                 \subseteq Refresh(name, rs, asOf, answer, now)
            /\ \E f \in Statements :
                 \A r \in Of(rs, name, f) : r.period # answer["OVERVIEW"]
         \/ /\ s.reuse = "REUSED_CURRENT" /\ s.record \in rs /\ s.record.name = name
            /\ s.record.endpoint \in Statements
            /\ s.record.period = answer["OVERVIEW"]
         \/ /\ s.reuse \in {"REUSED_CURRENT", "STALE"}
            /\ s.record \in rs /\ s.record.name = name
            /\ s.record.endpoint = "OVERVIEW"
            /\ ~HasCompleteStatementSet(name, rs)
<1>1. CASE /\ ~HasCompleteStatementSet(name, rs)
           /\ FreshOverviews(name, rs, asOf) # {}
  <2> DEFINE fresh == FreshOverviews(name, rs, asOf)
  <2>1. fresh \in SUBSET Of(rs, name, "OVERVIEW") /\ fresh # {}
        /\ Of(rs, name, "OVERVIEW") \in SUBSET Records
    BY <1>1 DEF FreshOverviews, Of
  <2>2. Refresh(name, rs, asOf, answer, now)
          = HydrateFromCachedOverview(name, Newest(fresh), answer, now)
    BY <1>1 DEF Refresh
  <2>3. FetchStatements(name, answer, now) \subseteq Refresh(name, rs, asOf, answer, now)
    BY <2>2 DEF HydrateFromCachedOverview
  <2>4. \E f \in Statements : \A r \in Of(rs, name, f) : r.period # answer["OVERVIEW"]
    BY <1>1 DEF HasCompleteStatementSet
  <2>5. \/ s \in FetchStatements(name, answer, now)
        \/ s = Status("STALE", Newest(fresh))
        \/ s = Status("REUSED_CURRENT", Newest(fresh))
    BY <2>2 DEF HydrateFromCachedOverview
  <2> HIDE DEF fresh
  <2>6. Newest(fresh) \in Of(rs, name, "OVERVIEW")
    BY <2>1, NewestIsOne
  <2>7. CASE s \in FetchStatements(name, answer, now)
    BY <2>3, <2>4, <2>7 DEF FetchStatements
  <2>8. CASE s \in {Status("STALE", Newest(fresh)), Status("REUSED_CURRENT", Newest(fresh))}
    BY <1>1, <2>6, <2>8 DEF Status, Of
  <2> QED
    BY <2>5, <2>7, <2>8
<1>2. CASE ~ (/\ ~HasCompleteStatementSet(name, rs)
              /\ FreshOverviews(name, rs, asOf) # {})
  <2> DEFINE OfTheQuarter(e) == {r \in Of(rs, name, e) : r.period = answer["OVERVIEW"]}
             reused == {Status("REUSED_CURRENT", Newest(OfTheQuarter(e))) : e \in Statements}
  <2>1. Refresh(name, rs, asOf, answer, now) = RefreshWithLiveOverview(name, rs, answer, now)
    BY <1>2 DEF Refresh
  <2>2. CASE \A e \in Statements : OfTheQuarter(e) # {}
    <3>1. Refresh(name, rs, asOf, answer, now) = {Fetch(name, "OVERVIEW", answer, now)} \cup reused
      BY <2>1, <2>2 DEF RefreshWithLiveOverview
    <3>2. ASSUME NEW e \in Statements, s = Status("REUSED_CURRENT", Newest(OfTheQuarter(e)))
          PROVE  /\ s.reuse = "REUSED_CURRENT" /\ s.record \in rs /\ s.record.name = name
                 /\ s.record.endpoint \in Statements
                 /\ s.record.period = answer["OVERVIEW"]
      <4>1. OfTheQuarter(e) \in SUBSET Records /\ OfTheQuarter(e) # {}
        BY <2>2 DEF Of
      <4>2. s.reuse = "REUSED_CURRENT" /\ s.record = Newest(OfTheQuarter(e))
        BY <3>2 DEF Status
      <4>3. Newest(OfTheQuarter(e)) \in OfTheQuarter(e)
        <5> HIDE DEF OfTheQuarter
        <5> QED
          BY <4>1, NewestIsOne
      <4> QED
        BY <4>2, <4>3 DEF Of
    <3> QED
      BY <3>1, <3>2
  <2>3. CASE ~ \A e \in Statements : OfTheQuarter(e) # {}
    <3>1. Refresh(name, rs, asOf, answer, now)
            = {Fetch(name, "OVERVIEW", answer, now)} \cup FetchStatements(name, answer, now)
      BY <2>1, <2>3 DEF RefreshWithLiveOverview
    <3>2. \E f \in Statements : \A r \in Of(rs, name, f) : r.period # answer["OVERVIEW"]
      BY <2>3
    <3> QED
      BY <3>1, <3>2 DEF FetchStatements
  <2> QED
    BY <2>2, <2>3
<1> QED
  BY <1>1, <1>2

(* A record is no newer than its instant.                                  *)
IsDated(r) ==
  /\ r.at <= clock /\ r.period <= calendar[clock][r.name][r.endpoint]
  /\ r.endpoint \in Statements => r.period = calendar[r.at][r.name][r.endpoint]

(* Statements are fetched together.                                        *)
IsGrouped(rs) ==
  \A r \in rs : r.endpoint \in Statements =>
    \A f \in Statements : \E s \in Of(rs, r.name, f) : s.at = r.at

(* s was fetched ahead of the overview, whose quarter r has.               *)
Skips(s, r) ==
  /\ r.period = calendar[s.at][s.name]["OVERVIEW"]
  /\ r.period < s.period

NothingIsSkipped(rs) ==
  \A s \in rs : s.endpoint \in Statements =>
    \A r \in Of(rs, s.name, s.endpoint) : ~Skips(s, r)

(* What a status has to be not to step back behind the statements on       *)
(* record.                                                                 *)
GoesForward(t, rs) ==
  t.record.endpoint \in Statements =>
    \A r \in Of(rs, t.record.name, t.record.endpoint) :
      /\ r.period <= t.record.period
      /\ t.reuse = "FETCHED_THIS_CYCLE" => ~Skips(t.record, r)

(* A refresh alone does not step back.                                     *)
LEMMA RefreshGoesForward ==
  ASSUME TypeOK, IsOrderly(calendar), NEW name \in Universe,
         NEW inputs \in SUBSET records, NEW asOf \in Instants,
         \A r \in records : IsDated(r), IsGrouped(records), NothingIsSkipped(records),
         \A r \in records : r.endpoint \in Statements => r \in inputs,
         NEW t \in Refresh(name, inputs, asOf, Answer(name), clock)
  PROVE  /\ t.record.name = name /\ IsDated(t.record)
         /\ t.record.endpoint = "OVERVIEW" =>
              \/ t.record.period = calendar[clock][name]["OVERVIEW"]
              \/ ~HasCompleteStatementSet(name, records)
         /\ GoesForward(t, records)
<1> DEFINE answer == calendar[clock][name]
           q == answer["OVERVIEW"]
<1>1. /\ records \in SUBSET Records /\ inputs \in SUBSET Records /\ clock \in Instants
      /\ answer = Answer(name) /\ answer \in [Endpoints -> Periods]
  <2>1. answer = Answer(name)
    BY DEF Answer
  <2>2. records \in SUBSET Records /\ clock \in Instants
    BY DEF TypeOK
  <2> QED
    BY <2>1, <2>2, AnswersAreTyped
<1>2. /\ clock \in Nat /\ Statements \subseteq Endpoints /\ "OVERVIEW" \in Endpoints
      /\ "OVERVIEW" \notin Statements /\ Instants \subseteq Nat /\ Periods \subseteq Nat
  BY <1>1, RecordAssumption DEF Instants, Endpoints, Periods
<1>3. ASSUME NEW r \in records
      PROVE  /\ r.name \in Universe /\ r.endpoint \in Endpoints
             /\ r.period \in Nat /\ r.at \in Instants /\ r.at \in Nat /\ r.at <= clock
             /\ r.endpoint \in Statements => r.period = calendar[r.at][r.name][r.endpoint]
  BY <1>1, <1>2, <1>3 DEF Records, IsDated
<1>4. q \in Nat
  BY <1>1, <1>2
<1>5. ASSUME NEW e \in Endpoints, t = Fetch(name, e, answer, clock)
      PROVE  /\ t.record.name = name /\ t.record.endpoint = e /\ t.record.at = clock
             /\ t.record.period = answer[e] /\ IsDated(t.record) /\ answer[e] \in Nat
  <2>1. /\ t.record.name = name /\ t.record.endpoint = e /\ t.record.at = clock
        /\ t.record.period = answer[e]
    BY <1>5 DEF Fetch, Status, Record
  <2>2. answer[e] \in Nat
    BY <1>1, <1>2
  <2> QED
    BY <2>1, <2>2, <1>2 DEF IsDated
(* A statement on record has an older quarter than the provider's.         *)
<1>6. ASSUME NEW e \in Statements, NEW r \in Of(records, name, e)
      PROVE  r.period <= answer[e]
  BY <1>6 DEF Of, IsDated
<1> USE <1>1
<1> HIDE DEF answer
<1>7. CASE t = Fetch(name, "OVERVIEW", answer, clock)
  <2>1. /\ t.record.name = name /\ t.record.endpoint = "OVERVIEW"
        /\ t.record.period = q /\ IsDated(t.record)
    BY <1>2, <1>5, <1>7
  <2> QED
    BY <2>1, <1>2 DEF GoesForward, answer
<1>8. CASE /\ \E e \in Statements : t = Fetch(name, e, answer, clock)
           /\ \E f \in Statements : \A r \in Of(inputs, name, f) : r.period # q
  <2>1. PICK e \in Statements : t = Fetch(name, e, answer, clock)
    BY <1>8
  <2>2. PICK f \in Statements : \A r \in Of(inputs, name, f) : r.period # q
    BY <1>8
  <2>3. /\ t.record.name = name /\ t.record.endpoint = e /\ t.record.at = clock
        /\ t.record.period = answer[e] /\ IsDated(t.record)
    BY <1>2, <1>5, <2>1
  <2>4. ASSUME NEW r \in Of(records, name, e), Skips(t.record, r)
        PROVE  FALSE
    <3>1. r \in records /\ r.name = name /\ r.endpoint = e /\ r.at \in Instants
      BY <2>4, <1>3 DEF Of
    <3>2. r.period = q /\ r.period < answer[e]
      BY <2>3, <2>4 DEF Skips, answer
    <3>3. calendar[r.at][name][e] = q /\ calendar[r.at][name][e] < answer[e]
      BY <1>3, <3>1, <3>2
    <3>4. calendar[r.at][name][f] = q
      BY <1>1, <3>1, <3>3, OrderlyQuarters DEF answer
    <3>5. PICK s \in Of(records, name, f) : s.at = r.at
      BY <3>1 DEF IsGrouped
    <3>6. s \in records /\ s.name = name /\ s.endpoint = f
      BY <3>5 DEF Of
    <3>7. s.period = q /\ s \in inputs
      BY <1>3, <3>4, <3>5, <3>6
    <3> QED
      BY <2>2, <3>6, <3>7 DEF Of
  <2>5. GoesForward(t, records)
    BY <1>6, <2>3, <2>4 DEF GoesForward
  <2> QED
    BY <2>3, <2>5, <1>2
<1>9. CASE /\ t.reuse = "REUSED_CURRENT" /\ t.record \in inputs /\ t.record.name = name
           /\ t.record.endpoint \in Statements
           /\ t.record.period = q
  <2> DEFINE e == t.record.endpoint
  <2>1. IsDated(t.record) /\ t.record \in records
    BY <1>9
  <2>2. ASSUME NEW s \in Of(records, name, e)
        PROVE  s.period <= q
    <3>1. s \in records /\ s.name = name /\ s.endpoint = e /\ e \in Statements
      BY <1>9, <2>2 DEF Of
    <3>2. ~Skips(s, t.record)
      <4>1. t.record \in Of(records, name, e)
        BY <1>9, <2>1 DEF Of
      <4> QED
        BY <3>1, <4>1 DEF NothingIsSkipped
    <3> DEFINE seen == calendar[s.at][name]["OVERVIEW"]
    <3>3. s.period <= seen + 1 /\ seen <= q /\ seen \in Nat /\ s.period \in Nat
      <4>1. s.at \in Instants /\ s.at <= clock /\ s.period = calendar[s.at][name][e]
            /\ s.period \in Nat
        BY <1>3, <3>1
      <4>2. s.period <= seen + 1
        BY <3>1, <4>1, OrderlyQuarters
      <4>3. seen <= q /\ seen \in Nat
        BY <1>1, <1>2, <4>1, OrderlyQuarters DEF answer
      <4> QED
        BY <4>1, <4>2, <4>3
    <3>4. ~ (q = seen /\ q < s.period)
      BY <1>9, <3>1, <3>2 DEF Skips
    <3> HIDE DEF seen
    <3> QED
      BY <1>4, <3>3, <3>4
  <2>3. GoesForward(t, records)
    BY <1>9, <2>2 DEF GoesForward
  <2> QED
    BY <1>2, <1>9, <2>1, <2>3
<1>10. CASE /\ t.reuse \in {"REUSED_CURRENT", "STALE"}
            /\ t.record \in inputs /\ t.record.name = name
            /\ t.record.endpoint = "OVERVIEW"
            /\ ~HasCompleteStatementSet(name, inputs)
  <2>1. ~HasCompleteStatementSet(name, records)
    BY <1>10 DEF HasCompleteStatementSet, Of
  <2> QED
    BY <1>2, <1>10, <2>1 DEF GoesForward
<1>11. t \in Refresh(name, inputs, asOf, answer, clock)
  BY <1>1
<1>12. \/ t = Fetch(name, "OVERVIEW", answer, clock)
       \/ /\ \E e \in Statements : t = Fetch(name, e, answer, clock)
          /\ FetchStatements(name, answer, clock)
               \subseteq Refresh(name, inputs, asOf, answer, clock)
          /\ \E f \in Statements : \A r \in Of(inputs, name, f) : r.period # q
       \/ /\ t.reuse = "REUSED_CURRENT" /\ t.record \in inputs /\ t.record.name = name
          /\ t.record.endpoint \in Statements
          /\ t.record.period = q
       \/ /\ t.reuse \in {"REUSED_CURRENT", "STALE"}
          /\ t.record \in inputs /\ t.record.name = name
          /\ t.record.endpoint = "OVERVIEW"
          /\ ~HasCompleteStatementSet(name, inputs)
  BY <1>1, <1>11, RefreshKinds
<1> QED
  BY <1>7, <1>8, <1>9, <1>10, <1>12

(* What a refresh fetches of the statements, it fetches together.          *)
LEMMA RefreshFetchesAll ==
  ASSUME NEW name \in Universe, NEW rs \in SUBSET Records, NEW asOf \in Instants,
         NEW answer \in [Endpoints -> Periods], NEW now \in Instants
  PROVE  IsGrouped({s.record : s \in {t \in Refresh(name, rs, asOf, answer, now) :
                                        t.reuse = "FETCHED_THIS_CYCLE"}})
<1> DEFINE all == Refresh(name, rs, asOf, answer, now)
           fetched == {s.record : s \in {t \in all : t.reuse = "FETCHED_THIS_CYCLE"}}
<1>1. ASSUME NEW e
      PROVE  /\ Fetch(name, e, answer, now).reuse = "FETCHED_THIS_CYCLE"
             /\ Fetch(name, e, answer, now).record.name = name
             /\ Fetch(name, e, answer, now).record.endpoint = e
             /\ Fetch(name, e, answer, now).record.at = now
  BY DEF Fetch, Status, Record
<1>2. ASSUME NEW r \in fetched, r.endpoint \in Statements, NEW f \in Statements
      PROVE  \E s \in Of(fetched, r.name, f) : s.at = r.at
  <2>1. PICK t \in all : t.reuse = "FETCHED_THIS_CYCLE" /\ r = t.record
    BY <1>2
  <2>2. /\ \E e \in Statements : t = Fetch(name, e, answer, now)
        /\ FetchStatements(name, answer, now) \subseteq all
    BY <1>1, <1>2, <2>1, RefreshKinds, RecordAssumption
  <2>3. r.name = name /\ r.at = now
    BY <1>1, <2>1, <2>2
  <2>4. Fetch(name, f, answer, now) \in all
    BY <2>2 DEF FetchStatements
  <2>5. Fetch(name, f, answer, now).record \in fetched
    BY <1>1, <2>4
  <2> QED
    BY <1>1, <2>3, <2>5 DEF Of
<1> QED
  BY <1>2 DEF IsGrouped

-----------------------------------------------------------------------------
(* The invariant of a run without builds side by side *)

FetchedOf(statuses) ==
  {s.record : s \in {t \in statuses : t.reuse = "FETCHED_THIS_CYCLE"}}

(* The packets of a build go on from what is on record and shown.          *)
IsForward(packets) ==
  \A n \in Universe :
    /\ IsGrouped(FetchedOf(packets[n]))
    /\ \A t \in packets[n] :
         /\ t.record.name = n /\ IsDated(t.record) /\ GoesForward(t, records)
         /\ \A old \in shown[n] :
              old.record.endpoint = t.record.endpoint
                => old.record.period <= t.record.period

RecordsAreSteady ==
  /\ \A r \in records : IsDated(r)
  /\ IsGrouped(records)
  /\ NothingIsSkipped(records)

(* What is shown of a name is whole, and its own.                          *)
ShownIsWhole ==
  \A n \in Universe :
    /\ shown[n] # {} => IsComplete(shown[n])
    /\ \A s \in shown[n] : s.record.name = n

OneBuild ==
  \A b, o \in Builders :
    b = o \/ builds[b].phase = "idle" \/ builds[o].phase = "idle"

(* A build alone has read the statements that are on record.               *)
IsUpToDate(build) ==
  build.phase = "refresh" =>
    \A r \in records : r.endpoint \in Statements => r \in build.inputs

BuildsAreSteady ==
  \A b \in Builders : IsForward(builds[b].packets) /\ IsUpToDate(builds[b])

BootstrapsAreSteady ==
  \A p \in Bootstrappers :
    /\ bootstraps[p].asOf <= clock
    /\ \A r \in bootstraps[p].pending : IsDated(r)

Steady ==
  /\ RecordsAreSteady /\ ShownIsWhole /\ OneBuild
  /\ BuildsAreSteady /\ BootstrapsAreSteady

LEMMA NoPacketsAreForward == IsForward(NoPackets)
<1>1. \A n \in Universe : NoPackets[n] = {} /\ FetchedOf(NoPackets[n]) = {}
  BY DEF NoPackets, FetchedOf
<1> QED
  BY <1>1 DEF IsForward, IsGrouped

LEMMA InitIsSteady == Init => Steady
<1> SUFFICES ASSUME Init PROVE Steady
  OBVIOUS
<1>1. /\ \A b \in Builders : builds[b] = IdleBuild
      /\ \A p \in Bootstrappers : bootstraps[p] = IdleBootstrap
      /\ records = {} /\ shown = NoPackets /\ clock = 0
  BY DEF Init
<1>2. RecordsAreSteady
  BY <1>1 DEF RecordsAreSteady, IsGrouped, NothingIsSkipped
<1>3. ShownIsWhole
  BY <1>1 DEF ShownIsWhole, NoPackets
<1>4. OneBuild
  BY <1>1, IdleStates DEF OneBuild
<1>5. BuildsAreSteady
  BY <1>1, IdleStates, NoPacketsAreForward DEF BuildsAreSteady, IsUpToDate
<1>6. BootstrapsAreSteady
  BY <1>1 DEF BootstrapsAreSteady, IdleBootstrap
<1> QED
  BY <1>2, <1>3, <1>4, <1>5, <1>6 DEF Steady

(* A step of a build that leaves the run alone.                            *)
LEMMA BuildStepIsSteady ==
  ASSUME IInv, Steady, NEW b \in Builders, NEW now,
         UNCHANGED <<clock, calendar, records, shown, bootstraps>>,
         builds' = [builds EXCEPT ![b] = now],
         OneBuild', IsForward(now.packets), IsUpToDate(now)
  PROVE  Steady'
<1>1. \A o \in Builders : builds'[o] = IF o = b THEN now ELSE builds[o]
  BY DEF IInv, TypeOK
<1>2. RecordsAreSteady' /\ ShownIsWhole' /\ BootstrapsAreSteady'
  BY DEF Steady, RecordsAreSteady, ShownIsWhole, BootstrapsAreSteady, IsDated, IsGrouped,
     NothingIsSkipped, Skips, Of, IsComplete, Overtaken
<1>3. \A o \in Builders : IsForward(builds'[o].packets) /\ IsUpToDate(builds'[o])
  BY <1>1 DEF Steady, BuildsAreSteady
<1>4. BuildsAreSteady'
  BY <1>3 DEF BuildsAreSteady, IsForward, IsUpToDate, IsDated, IsGrouped, GoesForward, Skips,
     Of, FetchedOf
<1> QED
  BY <1>2, <1>4 DEF Steady

LEMMA StartBuildIsSteady ==
  ASSUME IInv, Steady, ~overlapped', NEW b \in Builders, StartBuild(b)
  PROVE  Steady'
<1> DEFINE now == [builds[b] EXCEPT !.phase = "load", !.asOf = clock]
<1>1. builds \in [Builders -> BuildStates] /\ builds[b] \in BuildStates
  BY DEF IInv, TypeOK
<1>2. builds' = [builds EXCEPT ![b] = now] /\ now.phase = "load"
      /\ now.packets = builds[b].packets
  BY <1>1 DEF StartBuild, BuildStates
<1>3. \A o \in Builders \ {b} : builds[o].phase = "idle"
  BY DEF StartBuild
<1> HIDE DEF now
<1>4. \A o \in Builders : builds'[o] = IF o = b THEN now ELSE builds[o]
  BY <1>1, <1>2
<1>5. OneBuild'
  BY <1>3, <1>4 DEF OneBuild
<1>6. IsForward(now.packets) /\ IsUpToDate(now)
  BY <1>2 DEF Steady, BuildsAreSteady, IsUpToDate
<1> QED
  BY <1>2, <1>5, <1>6, BuildStepIsSteady DEF StartBuild

LEMMA LoadInputsIsSteady ==
  ASSUME IInv, Steady, NEW b \in Builders, LoadInputs(b)
  PROVE  Steady'
<1>1. builds \in [Builders -> BuildStates] /\ builds[b] \in BuildStates
  BY DEF IInv, TypeOK
<1>2. PICK ranking \in Rankings(Priced, records) :
        builds' = [builds EXCEPT ![b].phase = "refresh", ![b].inputs = records,
                     ![b].todo = SelectedOrder(Priced, records, ranking)]
  BY DEF LoadInputs
<1> DEFINE now == [builds[b] EXCEPT !.phase = "refresh", !.inputs = records,
                     !.todo = SelectedOrder(Priced, records, ranking)]
<1>3. builds' = [builds EXCEPT ![b] = now] /\ now.inputs = records
      /\ now.packets = builds[b].packets
  BY <1>1, <1>2 DEF BuildStates
<1> HIDE DEF now
<1>4. \A o \in Builders : builds'[o] = IF o = b THEN now ELSE builds[o]
  BY <1>1, <1>3
<1>5. builds[b].phase = "load"
  BY DEF LoadInputs
<1>6. \A o \in Builders : o = b \/ builds[o].phase = "idle"
  BY <1>5 DEF Steady, OneBuild
<1>7. OneBuild'
  BY <1>4, <1>6 DEF OneBuild
<1>8. IsForward(now.packets) /\ IsUpToDate(now)
  BY <1>3 DEF Steady, BuildsAreSteady, IsUpToDate
<1> QED
  BY <1>3, <1>7, <1>8, BuildStepIsSteady DEF LoadInputs, BuildProceeds

LEMMA BuildRaisesIsSteady ==
  ASSUME IInv, Steady, NEW b \in Builders, BuildRaises(b)
  PROVE  Steady'
<1>1. \A o \in Builders : builds'[o] = IF o = b THEN IdleBuild ELSE builds[o]
  BY DEF BuildRaises, IInv, TypeOK
<1>2. OneBuild'
  BY <1>1, IdleStates DEF Steady, OneBuild
<1>3. IsForward(IdleBuild.packets) /\ IsUpToDate(IdleBuild)
  BY IdleStates, NoPacketsAreForward DEF IsUpToDate
<1> QED
  BY <1>2, <1>3, BuildStepIsSteady DEF BuildRaises, BuildProceeds

LEMMA RefreshNameIsSteady ==
  ASSUME IInv, Steady, IsOrderly(calendar), NEW b \in Builders, NEW name \in Universe,
         RefreshName(b, name)
  PROVE  Steady'
<1> DEFINE was == builds[b]
           fresh == Refresh(name, was.inputs, was.asOf, Answer(name), clock)
           packets == [was.packets EXCEPT ![name] = fresh]
           now == [was EXCEPT !.todo = Tail(was.todo), !.packets = packets]
<1>1. /\ was \in BuildStates /\ records \in SUBSET Records /\ clock \in Instants
      /\ Answer(name) \in [Endpoints -> Periods] /\ was.phase = "refresh" /\ TypeOK
      /\ builds \in [Builders -> BuildStates]
  BY AnswersAreTyped DEF IInv, TypeOK, RefreshName
<1>2. /\ was.inputs \in SUBSET records /\ was.asOf \in Instants
      /\ was.inputs \in SUBSET Records
  BY <1>1 DEF IInv, BuildStates, BuildsAreBacked
<1>3. builds' = [builds EXCEPT ![b] = now]
  BY <1>1 DEF RefreshName
<1>4. was.packets \in [Universe -> SUBSET Statuses]
  BY <1>1 DEF BuildStates
<1>5. \A r \in records : r.endpoint \in Statements => r \in was.inputs
  BY <1>1 DEF Steady, BuildsAreSteady, IsUpToDate
<1>6. ASSUME NEW t \in fresh
      PROVE  /\ t.record.name = name /\ IsDated(t.record)
             /\ t.record.endpoint = "OVERVIEW" =>
                  \/ t.record.period = calendar[clock][name]["OVERVIEW"]
                  \/ ~HasCompleteStatementSet(name, records)
             /\ GoesForward(t, records)
  BY <1>1, <1>2, <1>5, <1>6, RefreshGoesForward DEF Steady, RecordsAreSteady
<1>7. IsGrouped(FetchedOf(fresh))
  <2>1. IsGrouped({s.record : s \in {t \in fresh : t.reuse = "FETCHED_THIS_CYCLE"}})
    BY <1>1, <1>2, RefreshFetchesAll
  <2> HIDE DEF fresh
  <2> QED
    BY <2>1 DEF FetchedOf
<1>8. fresh \in SUBSET Statuses
  BY <1>1, <1>2, RefreshShowsCachedOrFetched
<1> HIDE DEF fresh
<1>9. ASSUME NEW old \in shown[name], NEW t \in fresh,
             old.record.endpoint = t.record.endpoint
      PROVE  old.record.period <= t.record.period
  <2>1. /\ old.record \in records /\ old.record.name = name /\ IsComplete(shown[name])
        /\ old.record \in Records
    BY <1>1 DEF IInv, PacketsAreBacked, Steady, ShownIsWhole
  <2>2. CASE t.record.endpoint \in Statements
    <3>1. old.record \in Of(records, t.record.name, t.record.endpoint)
      BY <1>6, <1>9, <2>1 DEF Of
    <3> QED
      BY <1>6, <2>2, <3>1 DEF GoesForward
  <2>3. CASE t.record.endpoint = "OVERVIEW"
    <3>1. HasCompleteStatementSet(name, records)
      <4>1. ASSUME NEW e \in Statements
            PROVE  Of(records, name, e) # {}
        <5>1. PICK s \in shown[name] : s.record.endpoint = e
          BY <2>1 DEF IsComplete, Endpoints
        <5>2. s.record \in records /\ s.record.name = name
          BY DEF IInv, PacketsAreBacked, Steady, ShownIsWhole
        <5> QED
          BY <5>1, <5>2 DEF Of
      <4> QED
        BY <4>1 DEF HasCompleteStatementSet
    <3>2. t.record.period = calendar[clock][name]["OVERVIEW"]
      BY <1>6, <2>3, <3>1
    <3>3. old.record.period <= calendar[clock][old.record.name][old.record.endpoint]
      BY <2>1 DEF Steady, RecordsAreSteady, IsDated
    <3> QED
      BY <1>9, <2>1, <2>3, <3>2, <3>3
  <2> QED
    BY <1>8, <2>2, <2>3 DEF Statuses, Records, Endpoints
<1>10. packets \in [Universe -> SUBSET Statuses]
  BY <1>4, <1>8
<1>11. \A n \in Universe : packets[n] = IF n = name THEN fresh ELSE was.packets[n]
  BY <1>4
<1> HIDE DEF packets
<1>12. now.packets = packets /\ now.phase = was.phase /\ now.inputs = was.inputs
  BY <1>1, <1>10 DEF BuildStates
<1>13. IsForward(was.packets)
  BY DEF Steady, BuildsAreSteady
<1> HIDE DEF now
<1>14. IsForward(packets)
  BY <1>6, <1>7, <1>9, <1>11, <1>13 DEF IsForward
<1>15. IsUpToDate(now)
  BY <1>5, <1>12 DEF IsUpToDate
<1>16. OneBuild'
  <2>1. \A o \in Builders : builds'[o].phase = builds[o].phase
    BY <1>1, <1>3, <1>12
  <2> QED
    BY <2>1 DEF Steady, OneBuild
<1> QED
  BY <1>3, <1>12, <1>14, <1>15, <1>16, BuildStepIsSteady DEF RefreshName, BuildProceeds

(* A save adds what was fetched since it read the statements on record.    *)
LEMMA PersistResearchCycleIsSteady ==
  ASSUME IInv, IInv', BuildsAreComplete, Steady, NEW b \in Builders,
         PersistResearchCycle(b)
  PROVE  Steady'
<1> DEFINE packets == builds[b].packets
           added == FetchedRecords(packets)
<1>1. /\ packets \in [Universe -> SUBSET Statuses] /\ records \in SUBSET Records
      /\ builds[b].phase = "refresh" /\ records' = records \cup added
      /\ records' \in SUBSET Records
      /\ shown' = [n \in Universe |-> IF packets[n] # {} THEN packets[n] ELSE shown[n]]
      /\ UNCHANGED <<clock, calendar, bootstraps>>
  BY DEF PersistResearchCycle, IInv, TypeOK, BuildStates
<1>2. \A o \in Builders : builds'[o] = IF o = b THEN IdleBuild ELSE builds[o]
  BY DEF PersistResearchCycle, IInv, TypeOK
<1>3. \A o \in Builders : builds'[o].phase = "idle" /\ builds'[o].packets = NoPackets
  BY <1>1, <1>2, IdleStates DEF Steady, OneBuild, IInv, NothingYet
<1>4. IsForward(packets) /\ \A n \in Universe : packets[n] # {} => IsComplete(packets[n])
  BY DEF Steady, BuildsAreSteady, BuildsAreComplete
<1> HIDE DEF packets
<1>5. added = UNION {FetchedOf(packets[n]) : n \in Universe}
  BY DEF FetchedRecords, FetchedOf
(* The status a record was fetched for.                                    *)
<1>6. ASSUME NEW r \in added
      PROVE  /\ IsDated(r) /\ r.name \in Universe
             /\ \E t \in packets[r.name] : /\ t.record = r /\ GoesForward(t, records)
                                           /\ t.reuse = "FETCHED_THIS_CYCLE"
  <2>1. PICK n \in Universe : r \in FetchedOf(packets[n])
    BY <1>5
  <2>2. PICK t \in packets[n] : t.record = r /\ t.reuse = "FETCHED_THIS_CYCLE"
    BY <2>1 DEF FetchedOf
  <2>3. t.record.name = n /\ IsDated(t.record) /\ GoesForward(t, records)
    BY <1>4 DEF IsForward
  <2> QED
    BY <2>2, <2>3
<1>7. ASSUME NEW r \in added, NEW s \in added, r.name = s.name, r.endpoint = s.endpoint
      PROVE  r = s
  <2>1. PICK t \in packets[r.name] : t.record = r
    BY <1>6
  <2>2. PICK u \in packets[r.name] : u.record = s
    BY <1>6, <1>7
  <2>3. IsComplete(packets[r.name]) /\ r.endpoint \in Endpoints
    BY <1>1, <1>4, <1>6, <2>1 DEF Statuses, Records
  <2>4. t = u
    BY <1>7, <2>1, <2>2, <2>3 DEF IsComplete
  <2> QED
    BY <2>1, <2>2, <2>4
<1> HIDE DEF added
<1>8. \A r \in records' : r.period \in Nat
  BY <1>1, RecordAssumption DEF Records, Periods
<1>9. (\A r \in records : IsDated(r))'
  BY <1>1, <1>6 DEF Steady, RecordsAreSteady, IsDated
<1>10. IsGrouped(records')
  <2>1. IsGrouped(records) /\ \A n \in Universe : IsGrouped(FetchedOf(packets[n]))
    BY <1>4 DEF Steady, RecordsAreSteady, IsForward
  <2> QED
    BY <1>1, <1>5, <2>1 DEF IsGrouped, Of
<1>11. ASSUME NEW s \in records', s.endpoint \in Statements,
              NEW r \in Of(records', s.name, s.endpoint), Skips(s, r)
       PROVE  FALSE
  <2>1. /\ r \in records' /\ r.name = s.name /\ r.endpoint = s.endpoint
        /\ r.period < s.period /\ r.period \in Nat /\ s.period \in Nat
    BY <1>8, <1>11 DEF Of, Skips
  <2>2. CASE s \in records /\ r \in records
    BY <1>11, <2>1, <2>2 DEF Steady, RecordsAreSteady, NothingIsSkipped, Of
  <2>3. CASE s \in added /\ r \in records
    BY <1>6, <1>11, <2>1, <2>3 DEF GoesForward, Of
  <2>4. CASE s \in records /\ r \in added
    <3>1. s.period <= r.period
      BY <1>6, <1>11, <2>1, <2>4 DEF GoesForward, Of
    <3> QED
      BY <2>1, <3>1
  <2>5. CASE s \in added /\ r \in added
    <3>1. r = s
      BY <1>7, <2>1, <2>5
    <3> QED
      BY <2>1, <3>1
  <2> QED
    BY <1>1, <1>11, <2>1, <2>2, <2>3, <2>4, <2>5
<1>12. RecordsAreSteady'
  BY <1>1, <1>9, <1>10, <1>11
  DEF RecordsAreSteady, NothingIsSkipped, IsGrouped, Of, Skips
<1>13. ShownIsWhole'
  <2>1. ASSUME NEW n \in Universe
        PROVE  /\ shown'[n] # {} => IsComplete(shown'[n])
               /\ \A s \in shown'[n] : s.record.name = n
    BY <1>1, <1>4 DEF Steady, ShownIsWhole, IsForward
  <2> QED
    BY <2>1 DEF ShownIsWhole, IsComplete, Overtaken
<1>14. OneBuild'
  BY <1>3 DEF OneBuild
<1>15. BuildsAreSteady'
  <2>1. ASSUME NEW o \in Builders
        PROVE  (IsForward(builds[o].packets) /\ IsUpToDate(builds[o]))'
    <3>1. \A n \in Universe : builds'[o].packets[n] = {}
      BY <1>3 DEF NoPackets
    <3>2. \A n \in Universe : FetchedOf({}) = {}
      BY DEF FetchedOf
    <3>3. IsForward(builds[o].packets)'
      BY <3>1, <3>2 DEF IsForward, IsGrouped, FetchedOf
    <3> QED
      BY <1>3, <3>3 DEF IsUpToDate
  <2> QED
    BY <2>1 DEF BuildsAreSteady
<1>16. BootstrapsAreSteady'
  BY <1>1 DEF Steady, BootstrapsAreSteady, IsDated
<1> QED
  BY <1>12, <1>13, <1>14, <1>15, <1>16 DEF Steady

(* A bootstrap adds at most an overview, and no statement.                 *)
LEMMA BootstrapStepIsSteady ==
  ASSUME IInv, Steady, NEW p \in Bootstrappers, NEW now, NEW more,
         BootstrapProceeds, bootstraps' = [bootstraps EXCEPT ![p] = now],
         records' = records \cup more,
         \A r \in more : IsDated(r) /\ r.endpoint \notin Statements,
         now.asOf <= clock, \A r \in now.pending : IsDated(r)
  PROVE  Steady'
<1>1. \A o \in Bootstrappers : bootstraps'[o] = IF o = p THEN now ELSE bootstraps[o]
  BY DEF IInv, TypeOK
<1>2. UNCHANGED <<clock, calendar, shown, builds>>
  BY DEF BootstrapProceeds
<1>3. \A n, e : e \in Statements => Of(records', n, e) = Of(records, n, e)
  BY DEF Of
<1>4. RecordsAreSteady'
  <2>1. (\A r \in records : IsDated(r))'
    BY <1>2 DEF Steady, RecordsAreSteady, IsDated
  <2>2. IsGrouped(records')
    BY <1>3 DEF Steady, RecordsAreSteady, IsGrouped
  <2>3. \A s \in records' : s.endpoint \in Statements =>
          \A r \in Of(records', s.name, s.endpoint) : ~Skips(s, r)
    BY <1>3 DEF Steady, RecordsAreSteady, NothingIsSkipped
  <2> QED
    BY <1>2, <2>1, <2>2, <2>3 DEF RecordsAreSteady, NothingIsSkipped, Skips, IsGrouped, Of
<1>5. ShownIsWhole' /\ OneBuild'
  BY <1>2 DEF Steady, ShownIsWhole, OneBuild, IsComplete, Overtaken
<1>6. BuildsAreSteady'
  <2>1. ASSUME NEW t, GoesForward(t, records)
        PROVE  GoesForward(t, records)'
    BY <1>2, <1>3, <2>1 DEF GoesForward, Skips, Of
  <2>2. ASSUME NEW o \in Builders
        PROVE  (IsForward(builds[o].packets) /\ IsUpToDate(builds[o]))'
    <3>1. IsForward(builds[o].packets) /\ IsUpToDate(builds[o])
      BY DEF Steady, BuildsAreSteady
    <3>2. IsForward(builds[o].packets)'
      <4>1. ASSUME NEW n \in Universe
            PROVE  IsGrouped(FetchedOf(builds[o].packets[n]))'
        BY <1>2, <3>1 DEF IsForward, IsGrouped, FetchedOf, Of
      <4>2. ASSUME NEW n \in Universe, NEW t \in builds'[o].packets[n]
            PROVE  /\ t.record.name = n /\ IsDated(t.record)' /\ GoesForward(t, records)'
                   /\ \A old \in shown'[n] :
                        old.record.endpoint = t.record.endpoint
                          => old.record.period <= t.record.period
        <5>1. /\ t.record.name = n /\ IsDated(t.record) /\ GoesForward(t, records)
              /\ \A old \in shown[n] :
                   old.record.endpoint = t.record.endpoint
                     => old.record.period <= t.record.period
          BY <1>2, <3>1, <4>2 DEF IsForward
        <5> QED
          BY <1>2, <2>1, <5>1 DEF IsDated
      <4> QED
        BY <4>1, <4>2 DEF IsForward
    <3>3. IsUpToDate(builds[o])'
      BY <1>2, <3>1 DEF IsUpToDate
    <3> QED
      BY <3>2, <3>3
  <2> QED
    BY <2>2 DEF BuildsAreSteady
<1>7. BootstrapsAreSteady'
  BY <1>1, <1>2 DEF Steady, BootstrapsAreSteady, IsDated
<1> QED
  BY <1>4, <1>5, <1>6, <1>7 DEF Steady

LEMMA BootstrapsKeepSteady ==
  ASSUME IInv, Steady, IsOrderly(calendar), NEW p \in Bootstrappers,
         \/ StartBootstrap(p) \/ FetchOverview(p) \/ PersistOverviewRecord(p)
         \/ FinishBootstrap(p) \/ BootstrapRaises(p)
  PROVE  Steady'
<1> DEFINE was == bootstraps[p]
<1>1. was \in BootstrapStates /\ bootstraps \in [Bootstrappers -> BootstrapStates]
      /\ clock \in Nat /\ clock \in Instants /\ TypeOK
  BY RecordAssumption DEF IInv, TypeOK, Instants
<1>2. was.asOf <= clock /\ (\A r \in was.pending : IsDated(r)) /\ was.asOf \in Instants
  BY <1>1 DEF Steady, BootstrapsAreSteady, BootstrapStates
<1>3. CASE StartBootstrap(p)
  <2> DEFINE now == [phase |-> "next", asOf |-> clock,
                     cached |-> {n \in Universe : HasOverview(records, n)},
                     spent |-> {}, pending |-> {}]
  <2>1. now.asOf <= clock /\ \A r \in now.pending : IsDated(r)
    BY <1>1
  <2> DEFINE none == {}
  <2>2. bootstraps' = [bootstraps EXCEPT ![p] = now] /\ BootstrapProceeds
        /\ records' = records \cup none
    BY <1>3 DEF StartBootstrap
  <2>3. \A r \in none : IsDated(r) /\ r.endpoint \notin Statements
    OBVIOUS
  <2> HIDE DEF now, none
  <2> QED
    BY <2>1, <2>2, <2>3, BootstrapStepIsSteady
<1>4. CASE FetchOverview(p)
  <2>1. PICK name \in NextMissing(p) :
          bootstraps' = [bootstraps EXCEPT
            ![p].phase = "persist",
            ![p].spent = @ \cup {name},
            ![p].pending = {Record(name, "OVERVIEW", Answer(name)["OVERVIEW"],
                                   bootstraps[p].asOf)}]
    BY <1>4 DEF FetchOverview
  <2>2. name \in Universe
    BY PipelineAssumption DEF NextMissing
  <2> DEFINE r == Record(name, "OVERVIEW", Answer(name)["OVERVIEW"], was.asOf)
             now == [was EXCEPT !.phase = "persist", !.spent = was.spent \cup {name},
                                !.pending = {r}]
  <2>3. IsDated(r)
    <3>1. /\ r.name = name /\ r.endpoint = "OVERVIEW" /\ r.at = was.asOf
          /\ r.period = calendar[clock][name]["OVERVIEW"]
      BY DEF Record, Answer
    <3>2. calendar[clock][name]["OVERVIEW"] \in Nat
      BY <1>1, <2>2, OrderlyQuarters DEF Endpoints
    <3> QED
      BY <1>2, <3>1, <3>2, RecordAssumption DEF IsDated
  <2>4. bootstraps' = [bootstraps EXCEPT ![p] = now] /\ now.pending = {r}
        /\ now.asOf = was.asOf
    BY <1>1, <2>1 DEF BootstrapStates
  <2> HIDE DEF now
  <2> DEFINE none == {}
  <2>5. BootstrapProceeds /\ records' = records \cup none
    BY <1>4 DEF FetchOverview
  <2>6. now.asOf <= clock /\ \A x \in now.pending : IsDated(x)
    BY <1>2, <2>3, <2>4
  <2>7. \A x \in none : IsDated(x) /\ x.endpoint \notin Statements
    OBVIOUS
  <2> HIDE DEF r, none
  <2> QED
    BY <2>4, <2>5, <2>6, <2>7, BootstrapStepIsSteady
<1>5. CASE PersistOverviewRecord(p)
  <2> DEFINE now == [was EXCEPT !.phase = "next", !.pending = {},
                       !.cached = was.cached \cup {r.name : r \in was.pending}]
  <2>1. bootstraps' = [bootstraps EXCEPT ![p] = now] /\ now.asOf = was.asOf
        /\ now.pending = {}
    BY <1>1, <1>5 DEF PersistOverviewRecord, BootstrapStates
  <2>2. \A r \in was.pending : r.endpoint \notin Statements
    BY <1>5, RecordAssumption DEF PersistOverviewRecord, IInv, OneIsPending
  <2>3. BootstrapProceeds /\ records' = records \cup was.pending
    BY <1>5 DEF PersistOverviewRecord
  <2> HIDE DEF now
  <2> QED
    BY <1>2, <2>1, <2>2, <2>3, BootstrapStepIsSteady
<1>6. CASE FinishBootstrap(p) \/ BootstrapRaises(p)
  <2>1. bootstraps' = [bootstraps EXCEPT ![p] = IdleBootstrap] /\ BootstrapProceeds
        /\ records' = records \cup {}
    BY <1>6 DEF FinishBootstrap, BootstrapRaises
  <2>2. IdleBootstrap.asOf = 0 /\ IdleBootstrap.pending = {} /\ 0 <= clock
    BY <1>1 DEF IdleBootstrap
  <2> QED
    BY <2>1, <2>2, BootstrapStepIsSteady
<1> QED
  BY <1>3, <1>4, <1>5, <1>6

LEMMA TickIsSteady ==
  ASSUME IInv, Steady, IsOrderly(calendar), Tick
  PROVE  Steady'
<1>1. /\ UNCHANGED <<calendar, records, shown, builds, bootstraps, overlapped>>
      /\ clock' = clock + 1 /\ clock \in Instants /\ clock' \in Instants
      /\ clock \in Nat /\ clock' \in Nat /\ TypeOK
  BY RecordAssumption DEF Tick, IInv, TypeOK, Instants
<1>2. ASSUME NEW r \in Records, IsDated(r)
      PROVE  IsDated(r)'
  <2>1. /\ r.name \in Universe /\ r.endpoint \in Endpoints /\ r.at \in Nat /\ r.period \in Nat
    BY RecordAssumption DEF Records, Instants, Periods
  <2>2. /\ calendar[clock][r.name][r.endpoint] \in Nat
        /\ calendar[clock'][r.name][r.endpoint] \in Nat
        /\ calendar[clock][r.name][r.endpoint] <= calendar[clock'][r.name][r.endpoint]
    BY <1>1, <2>1, OrderlyQuarters
  <2>3. r.at <= clock' /\ r.period <= calendar[clock'][r.name][r.endpoint]
    BY <1>1, <1>2, <2>1, <2>2 DEF IsDated
  <2> QED
    BY <1>1, <1>2, <2>3 DEF IsDated
<1>3. records \in SUBSET Records
  BY DEF IInv, TypeOK
<1>4. RecordsAreSteady'
  BY <1>1, <1>2, <1>3 DEF Steady, RecordsAreSteady, IsGrouped, NothingIsSkipped, Skips, Of
<1>5. ShownIsWhole' /\ OneBuild'
  BY <1>1 DEF Steady, ShownIsWhole, OneBuild, IsComplete, Overtaken
<1>6. BuildsAreSteady'
  <2>1. ASSUME NEW b \in Builders
        PROVE  (IsForward(builds[b].packets) /\ IsUpToDate(builds[b]))'
    <3>1. IsForward(builds[b].packets) /\ IsUpToDate(builds[b])
      BY DEF Steady, BuildsAreSteady
    <3>2. builds[b].packets \in [Universe -> SUBSET Statuses]
      BY DEF IInv, TypeOK, BuildStates
    <3>3. \A n \in Universe : \A t \in builds[b].packets[n] : t.record \in Records
      BY <3>2 DEF Statuses
    <3>4. \A n \in Universe : \A t \in builds[b].packets[n] : IsDated(t.record)'
      BY <1>2, <3>1, <3>3 DEF IsForward
    <3>5. IsForward(builds[b].packets)'
      BY <1>1, <3>1, <3>4 DEF IsForward, IsGrouped, FetchedOf, GoesForward, Skips, Of
    <3> QED
      BY <1>1, <3>1, <3>5 DEF IsUpToDate
  <2> QED
    BY <2>1 DEF BuildsAreSteady
<1>7. BootstrapsAreSteady'
  <2>1. ASSUME NEW p \in Bootstrappers
        PROVE  /\ bootstraps[p].asOf <= clock'
               /\ \A r \in bootstraps[p].pending : IsDated(r)'
    <3>1. bootstraps[p] \in BootstrapStates
      BY DEF IInv, TypeOK
    <3>2. bootstraps[p].asOf \in Nat /\ bootstraps[p].pending \in SUBSET Records
      BY <3>1, RecordAssumption DEF BootstrapStates, Instants
    <3> QED
      BY <1>1, <1>2, <3>2 DEF Steady, BootstrapsAreSteady
  <2> QED
    BY <1>1, <2>1 DEF BootstrapsAreSteady
<1> QED
  BY <1>4, <1>5, <1>6, <1>7 DEF Steady

(* Once two builds have been in progress at once, it stays so.             *)
LEMMA StepIsSteady ==
  ASSUME IInv, BuildsAreComplete, Steady, [Next]_vars,
         IsOrderly(calendar), ~overlapped'
  PROVE  Steady'
<1>1. IInv'
  BY NextKeeps
<1>2. ASSUME NEW b \in Builders, StartBuild(b) PROVE Steady'
  BY <1>2, StartBuildIsSteady
<1>3. ASSUME NEW b \in Builders, LoadInputs(b) PROVE Steady'
  BY <1>3, LoadInputsIsSteady
<1>4. ASSUME NEW b \in Builders, NEW name \in Universe, RefreshName(b, name) PROVE Steady'
  BY <1>4, RefreshNameIsSteady
<1>5. ASSUME NEW b \in Builders, PersistResearchCycle(b) PROVE Steady'
  BY <1>1, <1>5, PersistResearchCycleIsSteady
<1>6. ASSUME NEW b \in Builders, BuildRaises(b) PROVE Steady'
  BY <1>6, BuildRaisesIsSteady
<1>7. ASSUME NEW p \in Bootstrappers,
             \/ StartBootstrap(p) \/ FetchOverview(p) \/ PersistOverviewRecord(p)
             \/ FinishBootstrap(p) \/ BootstrapRaises(p)
      PROVE  Steady'
  BY <1>7, BootstrapsKeepSteady
<1>8. ASSUME Tick PROVE Steady'
  BY <1>8, TickIsSteady
<1>9. ASSUME UNCHANGED vars PROVE Steady'
  BY <1>9 DEF vars, Steady, RecordsAreSteady, ShownIsWhole, OneBuild, BuildsAreSteady,
     BootstrapsAreSteady, IsUpToDate, IsForward, IsDated, IsGrouped, NothingIsSkipped,
     GoesForward, Skips, Of, FetchedOf, IsComplete, Overtaken
<1> QED
  BY <1>2, <1>3, <1>4, <1>5, <1>6, <1>7, <1>8, <1>9 DEF Next

(* The inductive invariant.                                                *)
SteadyInv == IsOrderly(calendar) /\ ~overlapped => Steady

LEMMA SteadyIsInductive ==
  IInv /\ BuildsAreComplete /\ SteadyInv /\ [Next]_vars => SteadyInv'
<1> SUFFICES ASSUME IInv, BuildsAreComplete, SteadyInv, [Next]_vars,
                    IsOrderly(calendar)', ~overlapped'
             PROVE  Steady'
  BY DEF SteadyInv
<1>1. calendar' = calendar /\ (overlapped => overlapped')
  <2>1. ASSUME NEW b \in Builders, StartBuild(b)
        PROVE  calendar' = calendar /\ (overlapped => overlapped')
    BY <2>1 DEF StartBuild
  <2>2. ASSUME NEW b \in Builders,
               \/ LoadInputs(b) \/ (\E name \in Universe : RefreshName(b, name))
               \/ PersistResearchCycle(b) \/ BuildRaises(b)
        PROVE  calendar' = calendar /\ overlapped' = overlapped
    BY <2>2 DEF LoadInputs, RefreshName, PersistResearchCycle, BuildRaises, BuildProceeds
  <2>3. ASSUME NEW p \in Bootstrappers,
               \/ StartBootstrap(p) \/ FetchOverview(p) \/ PersistOverviewRecord(p)
               \/ FinishBootstrap(p) \/ BootstrapRaises(p)
        PROVE  calendar' = calendar /\ overlapped' = overlapped
    BY <2>3 DEF StartBootstrap, FetchOverview, PersistOverviewRecord, FinishBootstrap,
       BootstrapRaises, BootstrapProceeds
  <2>4. Tick \/ UNCHANGED vars => calendar' = calendar /\ overlapped' = overlapped
    BY DEF Tick, vars
  <2> QED
    BY <2>1, <2>2, <2>3, <2>4 DEF Next
<1>2. IsOrderly(calendar)
  BY <1>1 DEF IsOrderly
<1> QED
  BY <1>1, <1>2, StepIsSteady DEF SteadyInv

(* What replaces a packet goes on from it.                                 *)
LEMMA StepsForward ==
  ASSUME IInv, BuildsAreComplete, Steady, [Next]_vars
  PROVE  NoStepBack
<1>1. ASSUME NEW n \in Universe, NEW old \in shown[n], NEW new \in shown'[n],
             old.record.endpoint = new.record.endpoint
      PROVE  old.record.period <= new.record.period
  <2>1. shown[n] \in SUBSET Statuses
    BY DEF IInv, TypeOK
  <2>2. old.record.endpoint \in Endpoints /\ old.record.period \in Nat
    BY <2>1, RecordAssumption DEF Statuses, Records, Periods
  <2>3. CASE shown'[n] = shown[n]
    <3>1. IsComplete(shown[n])
      BY DEF Steady, ShownIsWhole
    <3>2. old = new
      BY <1>1, <2>2, <2>3, <3>1 DEF IsComplete
    <3> QED
      BY <2>2, <3>2
  <2>4. CASE shown'[n] # shown[n]
    <3>1. shown' # shown
      BY <2>4
    <3>2. PICK b \in Builders : PersistResearchCycle(b)
      BY <3>1 DEF Next, vars, StartBuild, LoadInputs, RefreshName, BuildRaises,
         BuildProceeds, StartBootstrap, FetchOverview, PersistOverviewRecord,
         FinishBootstrap, BootstrapRaises, BootstrapProceeds, Tick
    <3>3. shown'[n] = builds[b].packets[n]
      BY <2>4, <3>2 DEF PersistResearchCycle
    <3> QED
      BY <1>1, <3>3 DEF Steady, BuildsAreSteady, IsForward
  <2> QED
    BY <2>3, <2>4
<1> QED
  BY <1>1 DEF NoStepBack

(***************************************************************************)
(* Of an orderly provider and without builds side by side, no packet shows *)
(* an older quarter of an endpoint than the packet of the name before it:  *)
(* whatever bootstraps add, how long ago the name was researched, and      *)
(* which of its statements were refetched for another one's sake.          *)
(***************************************************************************)
THEOREM NothingStepsBack == Spec => ResearchNeverStepsBack
<1> DEFINE Forward == NoStepBack \/ overlapped \/ ~IsOrderly(calendar)
<1>1. Init => SteadyInv
  BY InitIsSteady DEF SteadyInv
<1>2. Spec => [](IInv /\ BuildsAreComplete /\ SteadyInv)
  BY <1>1, SteadyIsInductive, CompletenessInvariant, PTL DEF Spec
<1>3. IInv /\ BuildsAreComplete /\ SteadyInv /\ [Next]_vars => [Forward]_vars
  BY StepsForward DEF SteadyInv
<1>4. Spec => [][Forward]_vars
  BY <1>2, <1>3, PTL DEF Spec
<1> QED
  BY <1>4 DEF ResearchNeverStepsBack
=============================================================================
