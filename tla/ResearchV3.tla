------------------------------ MODULE ResearchV3 ------------------------------
(***************************************************************************)
(* Deep research for a V2 cycle: BuildResearchV3Service over the durable   *)
(* company cache.  Builds run side by side; each goes through its slate    *)
(* one company at a time, reuses a fresh version of the cache, or          *)
(* reserves one of the day's slots, calls the provider and appends the     *)
(* answer to the cache, and in the end saves its batch.  Every access to   *)
(* the store is a transaction of its own, and a build can die between any  *)
(* two.                                                                    *)
(***************************************************************************)
EXTENDS Naturals, Sequences, FiniteSets

CONSTANTS
  Builds,       \* calls of build
  Securities,
  Limit,        \* max_deep_research_subjects, of a batch and of a day
  Freshness,    \* cache_freshness
  DayLength,    \* instants in a date
  MaxTime       \* bound on the clock

ASSUME ResearchAssumption ==
  /\ {Limit, Freshness, DayLength} \subseteq Nat \ {0}
  /\ MaxTime \in Nat

VARIABLES
  clock,        \* what now() returns
  versions,     \* the cache: versions of company research
  consumed,     \* per date, the slots reserved
  builds        \* the builds, with the batch they work on

vars == <<clock, versions, consumed, builds>>

Times == 0..MaxTime

Day(t) == t \div DayLength

Dates == {Day(t) : t \in Times}

Versions == [security : Securities, at : Times]

Kinds == {"CACHED_FRESH", "RETRIEVED", "NOT_RETRIEVED", "FAILED"}

(* What a batch says of a company: researched_at, and where it comes from. *)
Subjects == [kind : Kinds, at : Times]

Steps == {"READY", "LOOKUP", "RESERVE", "CALL", "KEEP", "SAVED", "DEAD"}

(* Slates have no duplicates: new candidates, then holdings.               *)
Slates == {s \in UNION {[1..n -> Securities] : n \in 1..Cardinality(Securities)} :
             \A i, j \in DOMAIN s : s[i] = s[j] => i = j}

TypeOK ==
  /\ clock \in Times
  /\ versions \subseteq Versions
  /\ consumed \in [Dates -> 0..Limit]
  /\ builds \in [Builds -> [step : Steps, created : Times, slate : Seq(Securities),
                            subjects : Seq(Subjects), retrieved : 0..Limit]]

NotStarted == [step |-> "READY", created |-> 0, slate |-> <<>>,
               subjects |-> <<>>, retrieved |-> 0]

Init == /\ clock = 0
        /\ versions = {}
        /\ consumed = [d \in Dates |-> 0]
        /\ builds = [b \in Builds |-> NotStarted]

At(b, step) == builds[b].step = step

Today(b) == Day(builds[b].created)

(* The company a build is working on.                                      *)
Current(b) == builds[b].slate[Len(builds[b].subjects) + 1]

IsComplete(b) == Len(builds[b].subjects) = Len(builds[b].slate)

GoesTo(b, step) == builds' = [builds EXCEPT ![b].step = step]

(* The subject is built; the loop goes on with the next one.               *)
Records(b, kind, at) ==
  builds' = [builds EXCEPT ![b].subjects = Append(@, [kind |-> kind, at |-> at]),
                           ![b].step = "LOOKUP"]

-----------------------------------------------------------------------------
(* The store *)

(* latest_company_research *)
LatestOf(s) ==
  {v \in versions : v.security = s /\ \A w \in versions : w.security = s => w.at <= v.at}

IsFresh(v, created) == v.at + Freshness > created

(* Mutant: the new version replaces the older ones of its security. *)
Overwritten(v) == {w \in versions : w.security # v.security} \cup {v}

(* save_company_research *)
Kept(v) == versions \cup {v}

(* Mutant: the comparison is off by one. *)
OneMore(d) == consumed[d] <= Limit

(* consume_daily_deep_research_budget, one upsert *)
HasSlot(d) == consumed[d] < Limit

-----------------------------------------------------------------------------
(* BuildResearchV3Service.build *)

Start(b) ==
  /\ At(b, "READY")
  /\ \E slate \in Slates :
       builds' = [builds EXCEPT ![b].step = "LOOKUP", ![b].created = clock,
                                ![b].slate = slate]
  /\ UNCHANGED <<clock, versions, consumed>>

LookUp(b) ==
  /\ At(b, "LOOKUP") /\ ~IsComplete(b)
  /\ LET fresh == {v \in LatestOf(Current(b)) : IsFresh(v, builds[b].created)}
     IN \/ \E v \in fresh : Records(b, "CACHED_FRESH", v.at)
        \/ fresh = {} /\ GoesTo(b, "RESERVE")
  /\ UNCHANGED <<clock, versions, consumed>>

(* Mutant: the limit of a batch counts reused companies too. *)
MayOpen(b) == Len(builds[b].subjects) < Limit /\ HasSlot(Today(b))

(* The batch has a limit too, and past it the day's slots are not touched. *)
MayRetrieve(b) == builds[b].retrieved < Limit /\ HasSlot(Today(b))

Reserve(b) ==
  /\ At(b, "RESERVE")
  /\ MayRetrieve(b)
  /\ consumed' = [consumed EXCEPT ![Today(b)] = @ + 1]
  /\ builds' = [builds EXCEPT ![b].retrieved = @ + 1, ![b].step = "CALL"]
  /\ UNCHANGED <<clock, versions>>

SkipRetrieval(b) ==
  /\ At(b, "RESERVE")
  /\ ~MayRetrieve(b)
  /\ Records(b, "NOT_RETRIEVED", builds[b].created)
  /\ UNCHANGED <<clock, versions, consumed>>

(* get_company_research: a document, or a ResearchProviderError, which an  *)
(* answer for another security is turned into as well.                     *)
CallProvider(b) ==
  /\ At(b, "CALL")
  /\ \/ GoesTo(b, "KEEP")
     \/ Records(b, "FAILED", builds[b].created)
  /\ UNCHANGED <<clock, versions, consumed>>

KeepVersion(b) ==
  /\ At(b, "KEEP")
  /\ versions' = Kept([security |-> Current(b), at |-> builds[b].created])
  /\ Records(b, "RETRIEVED", builds[b].created)
  /\ UNCHANGED <<clock, consumed>>

SaveBatch(b) ==
  /\ At(b, "LOOKUP") /\ IsComplete(b)
  /\ GoesTo(b, "SAVED")
  /\ UNCHANGED <<clock, versions, consumed>>

(* The process stops, or the database refuses: no error but the provider's *)
(* is caught.                                                              *)
Die(b) ==
  /\ builds[b].step \notin {"READY", "SAVED", "DEAD"}
  /\ GoesTo(b, "DEAD")
  /\ UNCHANGED <<clock, versions, consumed>>

Tick == /\ clock < MaxTime
        /\ clock' = clock + 1
        /\ UNCHANGED <<versions, consumed, builds>>

Next == \/ Tick
        \/ \E b \in Builds :
             \/ Start(b) \/ LookUp(b) \/ Reserve(b) \/ SkipRetrieval(b)
             \/ CallProvider(b) \/ KeepVersion(b) \/ SaveBatch(b) \/ Die(b)

Spec == Init /\ [][Next]_vars

-----------------------------------------------------------------------------
(* Properties *)

SubjectsOf(b) == DOMAIN builds[b].subjects

(***************************************************************************)
(* adr-014-research-v3-durable-company-cache.md:8-13: successful           *)
(* documents are kept at once and never revised, and reused for seven      *)
(* days.  Whatever other builds did and wherever a build died, every       *)
(* document a batch shows is a version of the cache, not older than the    *)
(* freshness allows.                                                       *)
(***************************************************************************)
DocumentsAreBacked ==
  \A b \in Builds : \A i \in SubjectsOf(b) :
    LET subject == builds[b].subjects[i]
    IN subject.kind \in {"CACHED_FRESH", "RETRIEVED"} =>
         /\ [security |-> builds[b].slate[i], at |-> subject.at] \in versions
         /\ subject.at + Freshness > builds[b].created

(***************************************************************************)
(* adr-014:18-20: stale and missing entries are fetched while budget       *)
(* permits.  A company without deep research means that the slots of that  *)
(* date really are spent, not that two builds kept each other from using   *)
(* them.                                                                   *)
(***************************************************************************)
SkippedOnlyWhenSpent ==
  \A b \in Builds : \A i \in SubjectsOf(b) :
    builds[b].subjects[i].kind = "NOT_RETRIEVED" => consumed[Today(b)] = Limit

(***************************************************************************)
(* adr-013-research-v3-candidate-and-holding-batches.md:17-18: "V3 adapts  *)
(* its evidence packets to the existing V2 manager research boundary".     *)
(* ResearchBatch refuses a packet whose as_of time is after that of the    *)
(* batch (domain/research.py:331), so a saved batch can reach the manager  *)
(* only if no subject is from after its creation.                          *)
(***************************************************************************)
BatchesReachTheManager ==
  \A b \in Builds : At(b, "SAVED") =>
    \A i \in SubjectsOf(b) : builds[b].subjects[i].at <= builds[b].created
=============================================================================
