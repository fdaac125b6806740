----------------------------- MODULE Preparation -----------------------------
(***************************************************************************)
(* What runs before the first host is tested: the configuration is loaded  *)
(* (Configuration), its projects are resolved (Projects), their servers    *)
(* are listed, filtered and asked about (Collect, IPFilter) and completed  *)
(* (Details).  Each stage begins when the one before has returned, and     *)
(* shares nothing with it but what it is handed, so a behaviour is about   *)
(* one of them, with any input the one before may leave.                   *)
(***************************************************************************)
EXTENDS Collect

CONSTANTS
  Configs,                                           \* of Configuration
  Configured, Catalogs, Everything, NoID, ListSize,  \* of Projects
  Segments, Width, Texts, Rules, Hosts, MaxRules,    \* of IPFilter
  Found, ProjectNames, Gateways                      \* of Details

ASSUME ListAssumption == ListSize \in Nat \ {0}

VARIABLES
  area,                                                       \* the stage
  raw, cfg, stage, plan,                                      \* of Configuration
  setting, web, preselected, catalog, known, unsettled,       \* of Projects
  catalogChanges, resolving, turnOf, pageOf, got, questions, projects, allMode,
  rules, filterAt, next, passed, filtered,                    \* of IPFilter
  lists, start, disturbed, listChanges, adding, pageAt, listed, cut, mac, dataDisks, naming, named

configVars  == <<raw, cfg, stage, plan>>
projectVars == <<setting, web, preselected, catalog, known, unsettled, catalogChanges, resolving,
                 turnOf, pageOf, got, questions, projects, allMode>>
filterVars  == <<rules, filterAt, next, passed, filtered>>
detailVars  == <<lists, start, disturbed, listChanges, adding, pageAt, listed, cut, mac, dataDisks,
                 naming, named>>

Loading    == INSTANCE Configuration
Projecting == INSTANCE Projects WITH DiskSize <- PageSize, lists <- catalog, disturbed <- unsettled,
                                     changes <- catalogChanges, at <- resolving, turn <- turnOf,
                                     page <- pageOf, asked <- questions, result <- projects
Filtering == INSTANCE IPFilter WITH at <- filterAt, kept <- passed, dropped <- filtered
Adding    == INSTANCE Details WITH changes <- listChanges, at <- adding, page <- pageAt, got <- listed

ASSUME ConfigsAssumption == Configs \subseteq Loading!Config

\* A configuration without a name of a project is refused when it is loaded.
ASSUME ProjectsAssumption ==
  /\ Configured \subseteq {s \in Projecting!Settings : Projecting!WantedBy(s) # << >>}
  /\ Catalogs \subseteq [list : Seq(Projecting!ProjectSet), disks : Seq(Projecting!ProjectSet)]

\* A rule that is none of these does not compile, and stands for Bad.
ASSUME FilterAssumption ==
  /\ Segments \in Nat \ {0} /\ Width \in Nat
  /\ Texts \subseteq Seq(Filtering!Segment)
  /\ Hosts \in Seq([ip : Texts, eip : Texts])
  /\ \A r \in Rules : Filtering!IsRule(r)

\* A disk is in the list of the disks once.
ASSUME DetailsAssumption ==
  /\ \A s \in DOMAIN Found : Found[s].cards \in Seq(STRING)
  /\ Gateways \subseteq [enis     : Seq([id : STRING, server : STRING, mac : STRING]),
                         disks    : Seq([disk : STRING, system : BOOLEAN, attached : Seq(STRING),
                                         project : Projecting!ProjectSet]),
                         projects : Seq(Projecting!ProjectSet)]
  /\ \A g \in Gateways : \A i, j \in DOMAIN g.disks : g.disks[i].disk = g.disks[j].disk => i = j

PreparationInit ==
  /\ area \in {"configuration", "projects", "collection", "filter", "details"}
  /\ IF area = "collection" THEN Init ELSE Begin({}, {})
  /\ IF area = "configuration" THEN Loading!Init ELSE Loading!Begin(CHOOSE c \in Configs : TRUE)
  /\ IF area = "projects" THEN Projecting!Init
     ELSE Projecting!Begin(CHOOSE s \in Configured : TRUE, TRUE, CHOOSE c \in Catalogs : TRUE)
  /\ IF area = "filter" THEN Filtering!Init ELSE Filtering!Begin([g \in Filtering!Groups |-> {}])
  /\ IF area = "details" THEN Adding!Init ELSE Adding!Begin(CHOOSE g \in Gateways : TRUE)

\* The tool's own steps; those of the gateway and of the user are left out.
Working ==
  \/ /\ area = "collection" /\ Collecting
     /\ UNCHANGED <<area, configVars, projectVars, filterVars, detailVars>>
  \/ /\ area = "configuration" /\ Loading!Next
     /\ UNCHANGED <<area, vars, projectVars, filterVars, detailVars>>
  \/ /\ area = "projects" /\ Projecting!Resolving
     /\ UNCHANGED <<area, vars, configVars, filterVars, detailVars>>
  \/ /\ area = "filter" /\ Filtering!Next
     /\ UNCHANGED <<area, vars, configVars, projectVars, detailVars>>
  \/ /\ area = "details" /\ Adding!Completing
     /\ UNCHANGED <<area, vars, configVars, projectVars, filterVars>>

Surroundings ==
  \/ /\ area = "collection" /\ Gateway
     /\ UNCHANGED <<area, configVars, projectVars, filterVars, detailVars>>
  \/ /\ area = "projects" /\ (Projecting!Change \/ Projecting!Preselect)
     /\ UNCHANGED <<area, vars, configVars, filterVars, detailVars>>
  \/ /\ area = "details" /\ Adding!Change
     /\ UNCHANGED <<area, vars, configVars, projectVars, filterVars>>

preparationVars == <<area, vars, configVars, projectVars, filterVars, detailVars>>

PreparationSpec == PreparationInit /\ [][Working \/ Surroundings]_preparationVars

\* The tool's goroutines run on, and every request ends, since the client has a
\* timeout, with an answer or an error; nobody has to answer the terminal.
FairPreparationSpec == PreparationSpec /\ WF_preparationVars(Working)

-----------------------------------------------------------------------------
(* Properties *)

\* A configuration is completed and executed as its fields are documented, but for once on
\* the hosts and service names that cannot be asked for (config.go:198).
ConfigurationInv == area = "configuration" => Loading!ConfigurationInv

\* Names become the projects they name (project.go:12).
ProjectsInv == area = "projects" => Projecting!ProjectsInv

\* The filter keeps what its rules mean, in whichever kind they are written.
FilterInv == area = "filter" => Filtering!FilterInv

\* What is added to a server is its own, and all of it (main.go:309).
DetailsInv == area = "details" => Adding!DetailsInv

\* Every stage ends by itself or with a question: the pages of every list run out
\* although servers come and go between them, whether a request fails, fails with status
\* 200 or is answered, and the pools drain.
PreparationEnds ==
  <>CASE area = "collection"    -> at \in {"ok", "failed"}
      [] area = "configuration" -> stage \in {"refused", "planned"}
      [] area = "projects"      -> resolving \in {"page", "choose", "done", "failed"}
      [] area = "filter"        -> filterAt \in {"error", "done"}
      [] area = "details"       -> adding \in {"ok", "failed"}
=============================================================================
