--------------------------- MODULE ResearchPipeline ---------------------------
(***************************************************************************)
(* Research V2: BuildResearchService.build and BootstrapOverviewService.   *)
(* bootstrap over the fundamentals in the run.                             *)
(*                                                                         *)
(* A build reads its instant, then the run; it screens that snapshot,      *)
(* refreshes the selected names one after the other, paying the provider,  *)
(* and appends all it fetched together with its batch, in the end.  A      *)
(* bootstrap appends each overview as soon as it has it.  Both read the    *)
(* run again to append, so a concurrent save costs them nothing unless it  *)
(* comes between that read and the commit, when the store refuses them.    *)
(***************************************************************************)
EXTENDS ResearchPackets

CONSTANTS
  Builders,      \* threads serving POST /commands/build-research
  Bootstrappers, \* threads serving POST /commands/bootstrap-overview
  UniverseOrder, \* the order in which the universe lists its names
  RequestLimit,  \* requests of one bootstrap
  Priced,        \* names with a price observation in the run
  Calendars      \* what the provider may publish, by instant

ASSUME PipelineAssumption ==
  /\ Builders \cap Bootstrappers = {}
  /\ DOMAIN UniverseOrder = Universe
  /\ {UniverseOrder[i] : i \in Universe} = Universe
  /\ RequestLimit \in Nat \ {0}
  /\ Priced \subseteq Universe
  /\ Calendars \subseteq [Instants -> [Universe -> [Endpoints -> Periods]]]

VARIABLES
  clock,        \* the current instant
  calendar,     \* the period each endpoint reports, by instant and name
  records,      \* fundamental_records of the run
  shown,        \* the last packet of each name among the run's batches
  builds,       \* builds in progress
  bootstraps,   \* bootstraps in progress
  overlapped    \* history: have two builds been in progress at once?

vars == <<clock, calendar, records, shown, builds, bootstraps, overlapped>>

Statuses == [reuse : {"FETCHED_THIS_CYCLE", "REUSED_CURRENT", "STALE"},
             record : Records]

(* A packet is the set of the statuses of its endpoints; {} is no packet.  *)
NoPackets == [n \in Universe |-> {}]

BuildStates == [phase : {"idle", "load", "refresh"},
                asOf : Instants,
                inputs : SUBSET Records,
                todo : Seq(Universe),
                packets : [Universe -> SUBSET Statuses]]

IdleBuild == [phase |-> "idle", asOf |-> 0, inputs |-> {}, todo |-> <<>>,
              packets |-> NoPackets]

BootstrapStates == [phase : {"idle", "next", "persist"},
                    asOf : Instants,
                    cached : SUBSET Universe,
                    spent : SUBSET Universe,
                    pending : SUBSET Records]

IdleBootstrap == [phase |-> "idle", asOf |-> 0, cached |-> {}, spent |-> {},
                  pending |-> {}]

Researched(packets) == {n \in Universe : packets[n] # {}}

(* A screening selects at most one COVERAGE and one REPORTING_CYCLE name   *)
(* besides the RANKED ones; a bootstrap sends at most RequestLimit.        *)
WithinLimits ==
  /\ \A b \in Builders :
       Len(builds[b].todo) + Cardinality(Researched(builds[b].packets))
         <= MaxRanked + 2
  /\ \A p \in Bootstrappers : Cardinality(bootstraps[p].spent) <= RequestLimit

TypeOK ==
  /\ clock \in Instants
  /\ calendar \in Calendars
  /\ records \in SUBSET Records
  /\ shown \in [Universe -> SUBSET Statuses]
  /\ builds \in [Builders -> BuildStates]
  /\ bootstraps \in [Bootstrappers -> BootstrapStates]
  /\ overlapped \in BOOLEAN
  /\ WithinLimits

Init ==
  /\ clock = 0
  /\ calendar \in Calendars
  /\ records = {}
  /\ shown = NoPackets
  /\ builds = [b \in Builders |-> IdleBuild]
  /\ bootstraps = [p \in Bootstrappers |-> IdleBootstrap]
  /\ overlapped = FALSE

Answer(name) == calendar[clock][name]

-----------------------------------------------------------------------------
(* BuildResearchService.build *)

StartBuild(b) ==
  /\ builds[b].phase = "idle"
  /\ builds' = [builds EXCEPT ![b].phase = "load", ![b].asOf = clock]
  /\ overlapped' = (overlapped \/ \E o \in Builders \ {b} : builds[o].phase # "idle")
  /\ UNCHANGED <<clock, calendar, records, shown, bootstraps>>

BuildProceeds == UNCHANGED <<clock, calendar, records, shown,
                             bootstraps, overlapped>>

(* load_research_inputs and the screening; without a priced name it raises. *)
LoadInputs(b) ==
  /\ builds[b].phase = "load"
  /\ Priced # {}
  /\ \E ranking \in Rankings(Priced, records) :
       builds' = [builds EXCEPT ![b].phase = "refresh",
                                ![b].inputs = records,
                                ![b].todo = SelectedOrder(Priced, records, ranking)]
  /\ BuildProceeds

(* The provider answers what the refresh of the next name asks.            *)
RefreshName(b, name) ==
  /\ builds[b].phase = "refresh"
  /\ builds[b].todo # <<>>
  /\ name = Head(builds[b].todo)
  /\ builds' = [builds EXCEPT
       ![b].todo = Tail(@),
       ![b].packets[name] = Refresh(name, builds[b].inputs, builds[b].asOf,
                                    Answer(name), clock)]
  /\ BuildProceeds

(* Mutant: the overviews are not saved with the statements. *)
FetchedStatements(packets) ==
  {s.record : s \in {u \in UNION {packets[n] : n \in Universe} :
                       /\ u.reuse = "FETCHED_THIS_CYCLE"
                       /\ u.record.endpoint \in Statements}}

FetchedRecords(packets) ==
  {s.record : s \in {u \in UNION {packets[n] : n \in Universe} :
                       u.reuse = "FETCHED_THIS_CYCLE"}}

(* persist_research_cycle: screening run, records and batch in one         *)
(* transition.  A record's id has the microsecond of its fetch, so the     *)
(* guard against rewriting one is never met.                               *)
PersistResearchCycle(b) ==
  /\ builds[b].phase = "refresh"
  /\ builds[b].todo = <<>>
  /\ records' = records \cup FetchedRecords(builds[b].packets)
  /\ shown' = [n \in Universe |-> IF builds[b].packets[n] # {}
                                  THEN builds[b].packets[n] ELSE shown[n]]
  /\ builds' = [builds EXCEPT ![b] = IdleBuild]
  /\ UNCHANGED <<clock, calendar, bootstraps, overlapped>>

(* Nothing is priced, the provider fails, the store refuses, or the        *)
(* process dies: all that was fetched is lost.                             *)
BuildRaises(b) ==
  /\ builds[b].phase # "idle"
  /\ builds' = [builds EXCEPT ![b] = IdleBuild]
  /\ BuildProceeds

-----------------------------------------------------------------------------
(* BootstrapOverviewService.bootstrap *)

BootstrapProceeds == UNCHANGED <<clock, calendar, shown, builds, overlapped>>

StartBootstrap(p) ==
  /\ bootstraps[p].phase = "idle"
  /\ bootstraps' = [bootstraps EXCEPT ![p] =
       [phase |-> "next", asOf |-> clock,
        cached |-> {n \in Universe : HasOverview(records, n)},
        spent |-> {}, pending |-> {}]]
  /\ BootstrapProceeds /\ UNCHANGED records

(* Mutant: one request too many. *)
NextMissingTooMany(p) ==
  {UniverseOrder[i] : i \in
     {j \in Universe : /\ UniverseOrder[j] \notin bootstraps[p].cached
                       /\ \A k \in 1..(j - 1) :
                            UniverseOrder[k] \in bootstraps[p].cached
                       /\ Cardinality(bootstraps[p].spent) <= RequestLimit}}

(* The first name without an overview, while requests are left.            *)
NextMissing(p) ==
  {UniverseOrder[i] : i \in
     {j \in Universe : /\ UniverseOrder[j] \notin bootstraps[p].cached
                       /\ \A k \in 1..(j - 1) :
                            UniverseOrder[k] \in bootstraps[p].cached
                       /\ Cardinality(bootstraps[p].spent) < RequestLimit}}

(* Mutant: overviews are collected and saved together. *)
FetchMore(p) ==
  /\ bootstraps[p].phase = "next"
  /\ \E name \in NextMissing(p), phase \in {"next", "persist"} :
       bootstraps' = [bootstraps EXCEPT
         ![p].phase = phase,
         ![p].cached = @ \cup {name},
         ![p].spent = @ \cup {name},
         ![p].pending = @ \cup {Record(name, "OVERVIEW", Answer(name)["OVERVIEW"],
                                       bootstraps[p].asOf)}]
  /\ BootstrapProceeds /\ UNCHANGED records

FetchOverview(p) ==
  /\ bootstraps[p].phase = "next"
  /\ \E name \in NextMissing(p) :
       bootstraps' = [bootstraps EXCEPT
         ![p].phase = "persist",
         ![p].spent = @ \cup {name},
         ![p].pending = {Record(name, "OVERVIEW", Answer(name)["OVERVIEW"],
                                bootstraps[p].asOf)}]
  /\ BootstrapProceeds /\ UNCHANGED records

PersistOverviewRecord(p) ==
  /\ bootstraps[p].phase = "persist"
  /\ records' = records \cup bootstraps[p].pending
  /\ bootstraps' = [bootstraps EXCEPT
       ![p].phase = "next",
       ![p].cached = @ \cup {r.name : r \in bootstraps[p].pending},
       ![p].pending = {}]
  /\ BootstrapProceeds

FinishBootstrap(p) ==
  /\ bootstraps[p].phase = "next"
  /\ NextMissing(p) = {}
  /\ bootstraps' = [bootstraps EXCEPT ![p] = IdleBootstrap]
  /\ BootstrapProceeds /\ UNCHANGED records

(* The provider fails, the store refuses, or the process dies.             *)
BootstrapRaises(p) ==
  /\ bootstraps[p].phase # "idle"
  /\ bootstraps' = [bootstraps EXCEPT ![p] = IdleBootstrap]
  /\ BootstrapProceeds /\ UNCHANGED records

-----------------------------------------------------------------------------
Tick ==
  /\ clock < MaxTime
  /\ clock' = clock + 1
  /\ UNCHANGED <<calendar, records, shown, builds, bootstraps, overlapped>>

Next ==
  \/ \E b \in Builders :
       \/ StartBuild(b) \/ LoadInputs(b)
       \/ \E name \in Universe : RefreshName(b, name)
       \/ PersistResearchCycle(b) \/ BuildRaises(b)
  \/ \E p \in Bootstrappers :
       \/ StartBootstrap(p) \/ FetchOverview(p)
       \/ PersistOverviewRecord(p)
       \/ FinishBootstrap(p) \/ BootstrapRaises(p)
  \/ Tick

Spec == Init /\ [][Next]_vars

(***************************************************************************)
(* The operator repeats the weekly build, a build goes on to its end, and  *)
(* failures are not for ever: from some time on, a build ends by saving    *)
(* what it has.  Nobody has to call the bootstrap.                         *)
(***************************************************************************)
Fairness ==
  /\ \A b \in Builders :
       WF_vars(\/ StartBuild(b) \/ LoadInputs(b)
               \/ \E name \in Universe : RefreshName(b, name)
               \/ PersistResearchCycle(b))
  /\ <>[][\A b \in Builders : BuildRaises(b) => PersistResearchCycle(b)]_vars

FairSpec == Spec /\ Fairness

-----------------------------------------------------------------------------
(* Properties *)

(***************************************************************************)
(* The bootstrap's promise: it "persists each successful row before the    *)
(* next request so a later failure cannot discard quota already spent".    *)
(* Of what a bootstrap has been answered, all but the last is on record,   *)
(* whatever ends it there.                                                 *)
(***************************************************************************)
SpentIsKept ==
  \A p \in Bootstrappers :
    Cardinality({n \in bootstraps[p].spent : ~HasOverview(records, n)}) <= 1

(***************************************************************************)
(* Every fact a saved packet shows, reused from a snapshot or fetched by   *)
(* its build, is a fundamental record of the run: the one append holds all *)
(* that the batch refers to.                                               *)
(***************************************************************************)
PacketsAreBacked ==
  \A n \in Universe : \A s \in shown[n] : s.record \in records

(***************************************************************************)
(* docs/research-packet-contract.md:722-745 and ADR-007: baseline evidence *)
(* is five current endpoints and 16 attributed metrics, with or without a  *)
(* value; an overview reused from the snapshot becomes stale when a        *)
(* statement fetched after it is of a newer quarter, and the packet still  *)
(* assembles.  Whatever facts the provider leaves out, a saved packet is   *)
(* baseline evidence exactly unless its overview was overtaken like that,  *)
(* and no metric computed from an overtaken overview passes for fresh.     *)
(***************************************************************************)
Overtaken(statuses) ==
  \E o, s \in statuses : /\ o.record.endpoint = "OVERVIEW"
                         /\ o.reuse # "FETCHED_THIS_CYCLE"
                         /\ s.record.period > o.record.period

SavedAsBaseline(n, statuses) ==
  LET packet == AssembledPacket(n, statuses)
  IN /\ Policy!BaselineQualified(packet, SecurityOf(n)) <=> ~Overtaken(statuses)
     /\ Overtaken(statuses) =>
          \A metric \in packet.metrics :
            metric.freshness = "FRESH" => metric.uses \cap InputsOf("OVERVIEW") = {}

BaselineUnlessOvertaken ==
  [][\A n \in Universe : shown'[n] # shown[n] => SavedAsBaseline(n, shown'[n])]_vars

(* No endpoint turns back to a quarter.  A statement is at most a quarter  *)
(* ahead of the overview, and if one is ahead of the overview of a quarter *)
(* then, as long as it showed that quarter, all the statements showed it.  *)
IsOrderly(published) ==
  \A n \in Universe, t, u \in Instants :
    /\ \A e \in Endpoints : t <= u => published[t][n][e] <= published[u][n][e]
    /\ \A e \in Statements :
         /\ published[t][n][e] <= published[t][n]["OVERVIEW"] + 1
         /\ published[t][n][e] = published[u][n]["OVERVIEW"]
              /\ published[t][n][e] < published[u][n][e]
            => \A f \in Statements : published[t][n][f] = published[t][n][e]

(***************************************************************************)
(* Research does not step back: a saved packet never shows an older period *)
(* of an endpoint than the packet of the same name before it, although the *)
(* provider's endpoints turn to a new quarter at different times, so that  *)
(* hydration may fetch a newer statement than its overview's quarter and a *)
(* later refresh goes by the quarter again.  Builds side by side may break *)
(* this (one of them refetches what the other has just fetched), so it is  *)
(* claimed as long as there were none, and of an orderly provider: if a    *)
(* statement is refetched ahead of the overview because of another one     *)
(* that lagged behind it the quarter before, the quarter is complete on    *)
(* record after that, and the next refresh reuses it.                      *)
(***************************************************************************)
NoStepBack ==
  \A n \in Universe :
    \A old \in shown[n], new \in shown'[n] :
      old.record.endpoint = new.record.endpoint
        => old.record.period <= new.record.period

ResearchNeverStepsBack ==
  [][NoStepBack \/ overlapped \/ ~IsOrderly(calendar)]_vars

(***************************************************************************)
(* The coverage slot starves nobody: whatever the ranks favour, and with a *)
(* bootstrap rewriting the snapshot's overviews, every priced name is      *)
(* researched sooner or later.                                             *)
(***************************************************************************)
EveryNameIsResearched ==
  <>(\A n \in Priced : HasCompleteStatementSet(n, records))

=============================================================================
