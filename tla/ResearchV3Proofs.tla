--------------------------- MODULE ResearchV3Proofs ---------------------------
(***************************************************************************)
(* What holds of ResearchV3 for any number of builds, companies and slots. *)
(* DocumentsAreBacked and SkippedOnlyWhenSpent are not inductive: the      *)
(* first needs a build never to be ahead of its slate, the second that     *)
(* every retrieval of a build was charged to the date of the build.        *)
(***************************************************************************)
EXTENDS ResearchV3, TLAPS

BuildStates == [step : Steps, created : Times, slate : Seq(Securities),
                subjects : Seq(Subjects), retrieved : 0..Limit]

(* A build only works on a company of its slate.                           *)
InShape(b) ==
  /\ At(b, "READY") => builds[b].subjects = <<>> /\ builds[b].retrieved = 0
  /\ ~At(b, "READY") => Len(builds[b].subjects) <= Len(builds[b].slate)
  /\ builds[b].step \in {"RESERVE", "CALL", "KEEP"} =>
       Len(builds[b].subjects) < Len(builds[b].slate)

(* Slots reserved are never given back, and never for another date.        *)
IsCharged(b) == builds[b].retrieved <= consumed[Today(b)]

IsBacked(b) ==
  \A i \in SubjectsOf(b) :
    builds[b].subjects[i].kind \in {"CACHED_FRESH", "RETRIEVED"} =>
      /\ [security |-> builds[b].slate[i], at |-> builds[b].subjects[i].at] \in versions
      /\ builds[b].subjects[i].at + Freshness > builds[b].created

FoundSpent(b) ==
  \A i \in SubjectsOf(b) :
    builds[b].subjects[i].kind = "NOT_RETRIEVED" => consumed[Today(b)] = Limit

BuildInv(b) == InShape(b) /\ IsCharged(b) /\ IsBacked(b) /\ FoundSpent(b)

IInv == TypeOK /\ \A b \in Builds : BuildInv(b)

-----------------------------------------------------------------------------
(* Date arithmetic stays behind Day: only membership in Dates matters.     *)
LEMMA DayIsADate == ASSUME NEW t \in Times PROVE Day(t) \in Dates
  BY DEF Dates

LEMMA Typed ==
  ASSUME TypeOK, NEW b \in Builds
  PROVE  /\ builds[b] \in BuildStates
         /\ Today(b) \in Dates
         /\ consumed[Today(b)] \in 0..Limit
<1>1. builds[b] \in BuildStates
  BY DEF TypeOK, BuildStates
<1>2. builds[b].created \in Times
  BY <1>1 DEF BuildStates
<1>3. Today(b) \in Dates
  BY <1>2, DayIsADate DEF Today
<1> QED
  BY <1>1, <1>3 DEF TypeOK

(* What Append returns, element by element.                                *)
LEMMA Appended ==
  ASSUME NEW S, NEW s \in Seq(S), NEW x \in S
  PROVE  /\ Append(s, x) \in Seq(S)
         /\ Len(s) \in Nat
         /\ Len(Append(s, x)) = Len(s) + 1
         /\ \A i \in DOMAIN Append(s, x) :
              \/ i \in DOMAIN s /\ Append(s, x)[i] = s[i]
              \/ i = Len(s) + 1 /\ Append(s, x)[i] = x
  OBVIOUS

(* A step of one build: what the others claim survives it, because the     *)
(* cache and the counters of slots only grow.                              *)
LEMMA OthersAreKept ==
  ASSUME IInv, TypeOK', NEW b \in Builds,
         \A c \in Builds : c # b => builds'[c] = builds[c],
         versions \subseteq versions',
         \A d \in Dates : consumed[d] <= consumed'[d],
         BuildInv(b)'
  PROVE  IInv'
<1> USE ResearchAssumption
<1>1. SUFFICES ASSUME NEW c \in Builds, c # b
               PROVE  BuildInv(c)'
  BY DEF IInv
<1>2. BuildInv(c) /\ builds'[c] = builds[c]
  BY <1>1 DEF IInv
<1>3. Today(c)' = Today(c) /\ Today(c) \in Dates /\ builds[c] \in BuildStates
  BY <1>2, Typed DEF IInv, Today
<1>4. /\ consumed[Today(c)] \in 0..Limit
      /\ consumed'[Today(c)] \in 0..Limit
      /\ consumed[Today(c)] <= consumed'[Today(c)]
  BY <1>3 DEF IInv, TypeOK
<1>5. InShape(c)'
  BY <1>2 DEF BuildInv, InShape, At
<1>6. IsCharged(c)'
  BY <1>2, <1>3, <1>4 DEF BuildInv, IsCharged, BuildStates
<1>7. IsBacked(c)'
  BY <1>2 DEF BuildInv, IsBacked, SubjectsOf
<1>8. FoundSpent(c)'
  BY <1>2, <1>3, <1>4 DEF BuildInv, FoundSpent, SubjectsOf
<1> QED
  BY <1>5, <1>6, <1>7, <1>8 DEF BuildInv

-----------------------------------------------------------------------------
LEMMA InitInv == Init => IInv
<1> SUFFICES ASSUME Init PROVE IInv
  OBVIOUS
<1> USE ResearchAssumption
<1>1. 0 \in Times /\ 0 \in 0..Limit
  BY DEF Times
<1>2. NotStarted \in [step : Steps, created : Times, slate : Seq(Securities),
                      subjects : Seq(Subjects), retrieved : 0..Limit]
  BY <1>1 DEF NotStarted, Steps
<1>3. TypeOK
  BY <1>1, <1>2 DEF Init, TypeOK
<1>4. \A b \in Builds : /\ builds[b] = NotStarted
                        /\ Today(b) \in Dates
                        /\ consumed[Today(b)] = 0
  BY <1>1, DayIsADate DEF Init, Today, NotStarted
<1>5. \A b \in Builds : BuildInv(b)
  BY <1>4 DEF BuildInv, InShape, IsCharged, IsBacked, FoundSpent, At, SubjectsOf,
              NotStarted
<1> QED
  BY <1>3, <1>5 DEF IInv

(* A step that only moves a build to another point of its loop.            *)
LEMMA GoesToKeepsInv ==
  ASSUME IInv, NEW b \in Builds, NEW step \in Steps \ {"READY"}, GoesTo(b, step),
         UNCHANGED <<clock, versions, consumed>>,
         ~At(b, "READY"),
         step \in {"RESERVE", "CALL", "KEEP"} =>
           Len(builds[b].subjects) < Len(builds[b].slate)
  PROVE  IInv'
<1>1. TypeOK /\ BuildInv(b) /\ builds[b] \in BuildStates
  BY Typed DEF IInv
<1>2. builds' = [builds EXCEPT ![b] = [builds[b] EXCEPT !.step = step]]
  BY <1>1 DEF GoesTo, TypeOK
<1>3. TypeOK'
  BY <1>1, <1>2 DEF TypeOK, BuildStates
<1>4. /\ builds'[b].step = step
      /\ builds'[b].created = builds[b].created
      /\ builds'[b].slate = builds[b].slate
      /\ builds'[b].subjects = builds[b].subjects
      /\ builds'[b].retrieved = builds[b].retrieved
  BY <1>1, <1>2 DEF TypeOK, BuildStates
<1>5. InShape(b)'
  BY <1>1, <1>4 DEF BuildInv, InShape, At
<1>6. IsCharged(b)'
  BY <1>1, <1>4 DEF BuildInv, IsCharged, Today
<1>7. IsBacked(b)'
  BY <1>1, <1>4 DEF BuildInv, IsBacked, SubjectsOf
<1>8. FoundSpent(b)'
  BY <1>1, <1>4 DEF BuildInv, FoundSpent, SubjectsOf, Today
<1>9. \A c \in Builds : c # b => builds'[c] = builds[c]
  BY <1>1, <1>2 DEF TypeOK
<1>10. versions \subseteq versions' /\ \A d \in Dates : consumed[d] <= consumed'[d]
  BY <1>1, ResearchAssumption DEF TypeOK
<1> QED
  BY <1>3, <1>5, <1>6, <1>7, <1>8, <1>9, <1>10, OthersAreKept DEF BuildInv

(* A step that ends the work on a company.                                 *)
LEMMA RecordsKeepsInv ==
  ASSUME IInv, NEW b \in Builds, NEW kind \in Kinds, NEW at \in Times,
         Records(b, kind, at),
         clock' = clock, consumed' = consumed,
         versions \subseteq versions', versions' \subseteq Versions,
         ~At(b, "READY"), Len(builds[b].subjects) < Len(builds[b].slate),
         kind \in {"CACHED_FRESH", "RETRIEVED"} =>
           /\ [security |-> Current(b), at |-> at] \in versions'
           /\ at + Freshness > builds[b].created,
         kind = "NOT_RETRIEVED" => consumed[Today(b)] = Limit
  PROVE  IInv'
<1> DEFINE subject == [kind |-> kind, at |-> at]
           old == builds[b].subjects
           new == Append(old, subject)
<1>1. TypeOK /\ BuildInv(b) /\ builds[b] \in BuildStates
  BY Typed DEF IInv
<1>2. subject \in Subjects
  BY DEF Subjects
<1>3. /\ old \in Seq(Subjects)
      /\ new \in Seq(Subjects)
      /\ Len(old) \in Nat
      /\ Len(new) = Len(old) + 1
      /\ \A i \in DOMAIN new : \/ i \in DOMAIN old /\ new[i] = old[i]
                               \/ i = Len(old) + 1 /\ new[i] = subject
<2>1. old \in Seq(Subjects)
  BY <1>1 DEF BuildStates
<2> QED
  BY <2>1, <1>2, Appended
<1> HIDE DEF new
<1>4. builds' = [builds EXCEPT ![b] = [builds[b] EXCEPT !.subjects = new,
                                                        !.step = "LOOKUP"]]
  BY <1>1 DEF Records, TypeOK, new
<1>5. TypeOK'
  BY <1>1, <1>3, <1>4 DEF TypeOK, BuildStates, Steps
<1>6. /\ builds'[b].step = "LOOKUP"
      /\ builds'[b].created = builds[b].created
      /\ builds'[b].slate = builds[b].slate
      /\ builds'[b].subjects = new
      /\ builds'[b].retrieved = builds[b].retrieved
  BY <1>1, <1>4 DEF TypeOK, BuildStates
<1>7. InShape(b)'
<2>1. Len(builds[b].slate) \in Nat
  BY <1>1 DEF BuildStates
<2> QED
  BY <2>1, <1>3, <1>6 DEF InShape, At
<1>8. IsCharged(b)'
  BY <1>1, <1>6 DEF BuildInv, IsCharged, Today
<1>9. IsBacked(b)'
<2>1. SUFFICES ASSUME NEW i \in DOMAIN new, new[i].kind \in {"CACHED_FRESH", "RETRIEVED"}
               PROVE  /\ [security |-> builds[b].slate[i], at |-> new[i].at] \in versions'
                      /\ new[i].at + Freshness > builds[b].created
  BY <1>6 DEF IsBacked, SubjectsOf
<2>2. CASE i \in DOMAIN old /\ new[i] = old[i]
  BY <2>1, <2>2, <1>1 DEF BuildInv, IsBacked, SubjectsOf
<2>3. CASE i = Len(old) + 1 /\ new[i] = subject
  BY <2>1, <2>3 DEF Current
<2> QED
  BY <2>2, <2>3, <1>3
<1>10. FoundSpent(b)'
<2>1. SUFFICES ASSUME NEW i \in DOMAIN new, new[i].kind = "NOT_RETRIEVED"
               PROVE  consumed[Today(b)] = Limit
  BY <1>6 DEF FoundSpent, SubjectsOf, Today
<2>2. CASE i \in DOMAIN old /\ new[i] = old[i]
  BY <2>1, <2>2, <1>1 DEF BuildInv, FoundSpent, SubjectsOf
<2>3. CASE i = Len(old) + 1 /\ new[i] = subject
  BY <2>1, <2>3
<2> QED
  BY <2>2, <2>3, <1>3
<1>11. \A c \in Builds : c # b => builds'[c] = builds[c]
  BY <1>1, <1>4 DEF TypeOK
<1>12. \A d \in Dates : consumed[d] <= consumed'[d]
  BY <1>1, ResearchAssumption DEF TypeOK
<1> QED
  BY <1>5, <1>7, <1>8, <1>9, <1>10, <1>11, <1>12, OthersAreKept DEF BuildInv

-----------------------------------------------------------------------------
LEMMA StartKeepsInv == ASSUME IInv, NEW b \in Builds, Start(b) PROVE IInv'
<1> USE ResearchAssumption
<1>1. TypeOK /\ BuildInv(b) /\ builds[b] \in BuildStates
  BY Typed DEF IInv
<1>2. PICK slate \in Slates :
        builds' = [builds EXCEPT ![b] = [builds[b] EXCEPT !.step = "LOOKUP",
                                           !.created = clock, !.slate = slate]]
  BY <1>1 DEF Start, TypeOK
<1>3. slate \in Seq(Securities)
<2>1. PICK n \in 1..Cardinality(Securities) : slate \in [1..n -> Securities]
  BY DEF Slates
<2> QED
  BY <2>1
<1>4. builds[b].subjects = <<>> /\ builds[b].retrieved = 0
  BY <1>1 DEF Start, BuildInv, InShape
<1>5. TypeOK'
  BY <1>1, <1>2, <1>3 DEF Start, TypeOK, BuildStates, Steps
<1>6. /\ builds'[b].step = "LOOKUP"
      /\ builds'[b].subjects = <<>>
      /\ builds'[b].slate = slate
      /\ builds'[b].retrieved = 0
  BY <1>1, <1>2, <1>4 DEF TypeOK, BuildStates
<1>7. InShape(b)'
  BY <1>3, <1>6 DEF InShape, At
<1>8. IsCharged(b)'
<2>1. builds'[b].created \in Times
  BY <1>5 DEF TypeOK
<2>2. Today(b)' \in Dates
  BY <2>1, DayIsADate DEF Today
<2>3. consumed'[Today(b)'] \in 0..Limit
  BY <2>2, <1>5 DEF TypeOK
<2> QED
  BY <2>3, <1>6 DEF IsCharged, Today
<1>9. IsBacked(b)' /\ FoundSpent(b)'
  BY <1>6 DEF IsBacked, FoundSpent, SubjectsOf
<1>10. \A c \in Builds : c # b => builds'[c] = builds[c]
  BY <1>1, <1>2 DEF TypeOK
<1>11. versions \subseteq versions' /\ \A d \in Dates : consumed[d] <= consumed'[d]
  BY <1>1 DEF Start, TypeOK
<1> QED
  BY <1>5, <1>7, <1>8, <1>9, <1>10, <1>11, OthersAreKept DEF BuildInv

LEMMA LookUpKeepsInv == ASSUME IInv, NEW b \in Builds, LookUp(b) PROVE IInv'
<1>1. TypeOK /\ BuildInv(b) /\ builds[b] \in BuildStates
  BY Typed DEF IInv
<1>2. ~At(b, "READY") /\ Len(builds[b].subjects) < Len(builds[b].slate)
<2>1. /\ Len(builds[b].subjects) \in Nat
      /\ Len(builds[b].slate) \in Nat
      /\ Len(builds[b].subjects) # Len(builds[b].slate)
  BY <1>1 DEF LookUp, IsComplete, BuildStates
<2>2. ~At(b, "READY")
  BY DEF LookUp, At
<2>3. Len(builds[b].subjects) <= Len(builds[b].slate)
  BY <2>2, <1>1 DEF BuildInv, InShape
<2> QED
  BY <2>1, <2>2, <2>3
<1>3. CASE \E v \in {v \in LatestOf(Current(b)) : IsFresh(v, builds[b].created)} :
             Records(b, "CACHED_FRESH", v.at)
<2>1. PICK v \in versions : /\ v.security = Current(b)
                            /\ IsFresh(v, builds[b].created)
                            /\ Records(b, "CACHED_FRESH", v.at)
  BY <1>3 DEF LatestOf
<2>2. v \in Versions
  BY <1>1 DEF TypeOK
<2>3. v = [security |-> Current(b), at |-> v.at] /\ v.at \in Times
  BY <2>1, <2>2 DEF Versions
<2>4. "CACHED_FRESH" \in Kinds /\ v.at + Freshness > builds[b].created
  BY <2>1 DEF Kinds, IsFresh
<2> QED
  BY <1>1, <1>2, <2>1, <2>3, <2>4, RecordsKeepsInv DEF LookUp, TypeOK
<1>4. CASE GoesTo(b, "RESERVE")
  BY <1>2, <1>4, GoesToKeepsInv DEF LookUp, Steps
<1> QED
  BY <1>3, <1>4 DEF LookUp

LEMMA ReserveKeepsInv == ASSUME IInv, NEW b \in Builds, Reserve(b) PROVE IInv'
<1> USE ResearchAssumption
<1>1. TypeOK /\ BuildInv(b) /\ builds[b] \in BuildStates
  BY Typed DEF IInv
<1>2. Today(b) \in Dates /\ consumed[Today(b)] \in 0..Limit
  BY <1>1, Typed
<1>3. builds' = [builds EXCEPT ![b] = [builds[b] EXCEPT
                   !.retrieved = builds[b].retrieved + 1, !.step = "CALL"]]
  BY <1>1 DEF Reserve, TypeOK
<1>4. /\ builds'[b].step = "CALL"
      /\ builds'[b].created = builds[b].created
      /\ builds'[b].slate = builds[b].slate
      /\ builds'[b].subjects = builds[b].subjects
      /\ builds'[b].retrieved = builds[b].retrieved + 1
  BY <1>1, <1>3 DEF TypeOK, BuildStates
<1>5. consumed' = [consumed EXCEPT ![Today(b)] = consumed[Today(b)] + 1]
  BY DEF Reserve
<1>6. TypeOK'
<2>1. builds[b].retrieved + 1 \in 0..Limit /\ consumed[Today(b)] + 1 \in 0..Limit
  BY <1>1, <1>2 DEF Reserve, MayRetrieve, HasSlot, BuildStates
<2>2. consumed' \in [Dates -> 0..Limit]
  BY <2>1, <1>1, <1>5 DEF TypeOK
<2>3. builds' \in [Builds -> BuildStates]
  BY <2>1, <1>1, <1>3 DEF TypeOK, BuildStates, Steps
<2> QED
  BY <2>2, <2>3, <1>1 DEF Reserve, TypeOK, BuildStates
<1>7. Today(b)' = Today(b) /\ consumed'[Today(b)] = consumed[Today(b)] + 1
  BY <1>1, <1>2, <1>4, <1>5 DEF Today, TypeOK
<1>8. InShape(b)'
<2>1. Len(builds[b].subjects) < Len(builds[b].slate)
  BY <1>1 DEF Reserve, At, BuildInv, InShape
<2>2. Len(builds[b].subjects) \in Nat /\ Len(builds[b].slate) \in Nat
  BY <1>1 DEF BuildStates
<2> QED
  BY <2>1, <2>2, <1>4 DEF InShape, At
<1>9. IsCharged(b)'
  BY <1>1, <1>2, <1>4, <1>7 DEF BuildInv, IsCharged, BuildStates
<1>10. IsBacked(b)'
  BY <1>1, <1>4 DEF Reserve, BuildInv, IsBacked, SubjectsOf
<1>11. FoundSpent(b)'
<2>1. consumed[Today(b)] < Limit
  BY DEF Reserve, MayRetrieve, HasSlot
<2>2. \A i \in SubjectsOf(b) : builds[b].subjects[i].kind # "NOT_RETRIEVED"
  BY <2>1, <1>1, <1>2 DEF BuildInv, FoundSpent
<2> QED
  BY <2>2, <1>4 DEF FoundSpent, SubjectsOf
<1>12. \A c \in Builds : c # b => builds'[c] = builds[c]
  BY <1>1, <1>3 DEF TypeOK
<1>13. versions \subseteq versions' /\ \A d \in Dates : consumed[d] <= consumed'[d]
  BY <1>1, <1>2, <1>5 DEF Reserve, TypeOK
<1> QED
  BY <1>6, <1>8, <1>9, <1>10, <1>11, <1>12, <1>13, OthersAreKept DEF BuildInv

LEMMA SkipRetrievalKeepsInv ==
  ASSUME IInv, NEW b \in Builds, SkipRetrieval(b) PROVE IInv'
<1> USE ResearchAssumption
<1>1. TypeOK /\ BuildInv(b) /\ builds[b] \in BuildStates
  BY Typed DEF IInv
<1>2. consumed[Today(b)] = Limit
<2>1. consumed[Today(b)] \in 0..Limit /\ builds[b].retrieved \in 0..Limit
  BY <1>1, Typed DEF BuildStates
<2>2. builds[b].retrieved >= Limit \/ consumed[Today(b)] >= Limit
  BY <2>1 DEF SkipRetrieval, MayRetrieve, HasSlot
<2> QED
  BY <2>1, <2>2, <1>1 DEF BuildInv, IsCharged
<1>3. ~At(b, "READY") /\ Len(builds[b].subjects) < Len(builds[b].slate)
  BY <1>1 DEF SkipRetrieval, At, BuildInv, InShape
<1>4. builds[b].created \in Times /\ "NOT_RETRIEVED" \in Kinds
  BY <1>1 DEF BuildStates, Kinds
<1> QED
  BY <1>1, <1>2, <1>3, <1>4, RecordsKeepsInv DEF SkipRetrieval, TypeOK

LEMMA CallProviderKeepsInv ==
  ASSUME IInv, NEW b \in Builds, CallProvider(b) PROVE IInv'
<1>1. TypeOK /\ BuildInv(b) /\ builds[b] \in BuildStates
  BY Typed DEF IInv
<1>2. ~At(b, "READY") /\ Len(builds[b].subjects) < Len(builds[b].slate)
  BY <1>1 DEF CallProvider, At, BuildInv, InShape
<1>3. CASE GoesTo(b, "KEEP")
  BY <1>2, <1>3, GoesToKeepsInv DEF CallProvider, Steps
<1>4. CASE Records(b, "FAILED", builds[b].created)
<2>1. builds[b].created \in Times /\ "FAILED" \in Kinds
  BY <1>1 DEF BuildStates, Kinds
<2> QED
  BY <1>1, <1>2, <1>4, <2>1, RecordsKeepsInv DEF CallProvider, TypeOK
<1> QED
  BY <1>3, <1>4 DEF CallProvider

LEMMA KeepVersionKeepsInv ==
  ASSUME IInv, NEW b \in Builds, KeepVersion(b) PROVE IInv'
<1> DEFINE kept == [security |-> Current(b), at |-> builds[b].created]
<1>1. TypeOK /\ BuildInv(b) /\ builds[b] \in BuildStates
  BY Typed DEF IInv
<1>2. ~At(b, "READY") /\ Len(builds[b].subjects) < Len(builds[b].slate)
  BY <1>1 DEF KeepVersion, At, BuildInv, InShape
<1>3. builds[b].created \in Times /\ "RETRIEVED" \in Kinds
  BY <1>1 DEF BuildStates, Kinds
<1>4. builds[b].created + Freshness > builds[b].created
  BY <1>3, ResearchAssumption DEF Times
<1>5. Current(b) \in Securities
<2>1. builds[b].slate \in Seq(Securities) /\ Len(builds[b].subjects) \in Nat
  BY <1>1 DEF BuildStates
<2> QED
  BY <2>1, <1>2 DEF Current
<1>6. versions' = versions \cup {kept} /\ kept \in Versions
  BY <1>3, <1>5 DEF KeepVersion, Kept, Versions
<1>7. versions \subseteq versions' /\ versions' \subseteq Versions
  BY <1>1, <1>6 DEF TypeOK
<1> QED
  BY <1>2, <1>3, <1>4, <1>6, <1>7, RecordsKeepsInv DEF KeepVersion

LEMMA SaveBatchKeepsInv == ASSUME IInv, NEW b \in Builds, SaveBatch(b) PROVE IInv'
  BY GoesToKeepsInv DEF SaveBatch, At, Steps

LEMMA DieKeepsInv == ASSUME IInv, NEW b \in Builds, Die(b) PROVE IInv'
  BY GoesToKeepsInv DEF Die, At, Steps

(* What is said of the builds does not depend on the clock.                *)
LEMMA ClockKeepsInv ==
  ASSUME IInv, clock' \in Times, UNCHANGED <<versions, consumed, builds>>
  PROVE  IInv'
<1>1. TypeOK'
  BY DEF IInv, TypeOK
<1>2. \A b \in Builds : BuildInv(b)'
  BY DEF IInv, BuildInv, InShape, IsCharged, IsBacked, FoundSpent, At, SubjectsOf, Today
<1> QED
  BY <1>1, <1>2 DEF IInv

-----------------------------------------------------------------------------
LEMMA NextKeepsInv == IInv /\ [Next]_vars => IInv'
<1> SUFFICES ASSUME IInv, [Next]_vars PROVE IInv'
  OBVIOUS
<1>1. CASE Tick
<2>1. clock' \in Times
  BY <1>1, ResearchAssumption DEF Tick, IInv, TypeOK, Times
<2> QED
  BY <2>1, <1>1, ClockKeepsInv DEF Tick
<1>2. ASSUME NEW b \in Builds,
             \/ Start(b) \/ LookUp(b) \/ Reserve(b) \/ SkipRetrieval(b)
             \/ CallProvider(b) \/ KeepVersion(b) \/ SaveBatch(b) \/ Die(b)
      PROVE  IInv'
  BY <1>2, StartKeepsInv, LookUpKeepsInv, ReserveKeepsInv, SkipRetrievalKeepsInv,
     CallProviderKeepsInv, KeepVersionKeepsInv, SaveBatchKeepsInv, DieKeepsInv
<1>3. CASE UNCHANGED vars
<2>1. clock' \in Times
  BY <1>3 DEF vars, IInv, TypeOK
<2> QED
  BY <2>1, <1>3, ClockKeepsInv DEF vars
<1> QED
  BY <1>1, <1>2, <1>3 DEF Next

LEMMA InvHolds == Spec => []IInv
  BY InitInv, NextKeepsInv, PTL DEF Spec

(***************************************************************************)
(* No date ever has more slots reserved than the limit, however many       *)
(* builds reserve at once (consume_daily_deep_research_budget).            *)
(***************************************************************************)
THEOREM TypeCorrect == Spec => []TypeOK
<1>1. IInv => TypeOK
  BY DEF IInv
<1> QED
  BY <1>1, InvHolds, PTL

(***************************************************************************)
(* Every document a batch shows is a version of the cache, fresh when the  *)
(* batch was made (BuildResearchV3Service.build).                          *)
(***************************************************************************)
THEOREM DocumentsComeFromTheCache == Spec => []DocumentsAreBacked
<1>1. IInv => DocumentsAreBacked
  BY DEF IInv, BuildInv, IsBacked, DocumentsAreBacked
<1> QED
  BY <1>1, InvHolds, PTL

(***************************************************************************)
(* A company is left without deep research only when the slots of the      *)
(* batch's date are spent (BuildResearchV3Service.build).                  *)
(***************************************************************************)
THEOREM SlotsAreUsed == Spec => []SkippedOnlyWhenSpent
<1>1. IInv => SkippedOnlyWhenSpent
  BY DEF IInv, BuildInv, FoundSpent, SkippedOnlyWhenSpent
<1> QED
  BY <1>1, InvHolds, PTL
=============================================================================
