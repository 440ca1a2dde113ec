---------------------------- MODULE ReadSources ----------------------------
(***************************************************************************)
(* What each read command asks Home Assistant and the companion for, in the   *)
(* order it asks, and what it makes of a source that does not answer.         *)
(*                                                                            *)
(* A command is a sequence of reads, what its answer rests on, and how it      *)
(* decides between rows and "there is none".  What a row looks like, and the   *)
(* arguments refused before anything is read, are left out.  ReadCommand runs   *)
(* a command.                                                                 *)
(***************************************************************************)
EXTENDS Sequences

(***************************************************************************)
(* Reads.  `on` is what a failure may lead to:                                *)
(*   fail    the command ends with the error                                  *)
(*   absent  the command ends saying that what was asked for is not there     *)
(*   gate    a machine's answer is refused, a person is told in the answer    *)
(*   live    fatal to everyone, unless a partial answer was asked for         *)
(*   registry  as gate, but fatal if "states" went unread too                 *)
(*   say     the answer says so                                               *)
(*   scope   the answer says so; under --json only the log does               *)
(*   warn    a line at Warn on stderr, and no more                            *)
(*   hide    nothing is told                                                  *)
(* `empty` is what a source without what was asked for ends with.  A read is   *)
(* done only if all of `given` held something, none of `lacking` did, and all  *)
(* of `reached` answered.                                                     *)
(***************************************************************************)
Read(source, on) ==
    <<[from |-> source, on |-> on, empty |-> "go on",
       given |-> {}, lacking |-> {}, reached |-> {}]>>

Must(source) == Read(source, {"fail"})
Says(source) == Read(source, {"say"})
Warns(source) == Read(source, {"warn"})
Hides(source) == Read(source, {"hide"})

OrNone(reads) == [i \in DOMAIN reads |-> [reads[i] EXCEPT !.empty = "none"]]
OrUnknown(reads) == [i \in DOMAIN reads |-> [reads[i] EXCEPT !.empty = "unknown"]]
Given(source, reads) == [i \in DOMAIN reads |-> [reads[i] EXCEPT !.given = @ \cup {source}]]
Lacking(source, reads) == [i \in DOMAIN reads |-> [reads[i] EXCEPT !.lacking = @ \cup {source}]]
Reached(source, reads) == [i \in DOMAIN reads |-> [reads[i] EXCEPT !.reached = @ \cup {source}]]

(***************************************************************************)
(* Commands.  There are rows if every source of `rests` held some (`join`), or *)
(* one did (`union`); `skips` says that a narrowing flag is left out when the  *)
(* sources it needs went unread.                                              *)
(***************************************************************************)
ReadAs(does, how, rests) ==
    [does |-> does, how |-> how, rests |-> rests, skips |-> FALSE, gate |-> "none"]

Lists(does, rests) == ReadAs(does, "join", rests)
Searches(does, rests) == [ReadAs(does, "union", rests) EXCEPT !.gate = "search"]

\* The listing narrowed by a flag that is applied with these sources.
Narrowed(command, by) == [command EXCEPT !.rests = @ \cup by]

(***************************************************************************)
(* What several commands read.                                               *)
(***************************************************************************)
\* The entity registry is needed, the rest of the context is not.
fetchRegistryContext(on) ==
    Read("entities", on)
        \o Reached("entities", Warns("areas") \o Warns("labels") \o Warns("floors") \o Warns("devices"))

\* What was asked for is looked up in what has been read.
Finds(source) == OrUnknown(Read(source, {}))

\* A socket that does not open is warned of, a list that fails is dropped.
RegistryIfAny == fetchRegistryContext({"warn", "hide"})

fetchDeviceRegistryContext == Must("devices") \o Must("entities") \o Must("areas") \o Must("labels")

\* Mutant: no states are no automations.
StatesIfAny == Hides("states")

fetchAutomations == Must("states")
fetchScripts == Must("states")
fetchTraceList(on) == Read("traces", on)
fetchScriptTraceList(on) == Read("traces", on)
fetchFireCounts == Warns("logbook")
loadUsers == Hides("users")

\* One entity's state.
GetState(on) == OrUnknown(Read("state", on))
fetchEntityState == GetState({"fail"})

\* Whatever GetState fails with, there is "no live state".
errUnknownEntity == GetState({"absent"})

(***************************************************************************)
(* Automations and scripts.                                                  *)
(***************************************************************************)
\* Whatever keeps the companion from being found ends the command.
connectCompanion == Must("companion")

\* --label says so when the registry is out of reach.
AutoLs ==
    Lists(fetchAutomations \o fetchTraceList({"warn"}) \o RegistryIfAny \o fetchFireCounts, {"states"})
AutoLsByLabel ==
    Narrowed(Lists(fetchAutomations \o fetchTraceList({"warn"}) \o fetchRegistryContext({"warn"})
                   \o fetchFireCounts, {"states"}), {"entities"})
AutoLsFailing == Narrowed(AutoLs, {"traces"})

resolveAutomation == fetchAutomations
AutoShow == Lists(resolveAutomation \o fetchEntityState \o fetchTraceList({"say"}), {"traces"})

AutoCat == Lists(resolveAutomation \o connectCompanion \o Must("definition"), {"definition"})
resolveAutomationConfigID == resolveAutomation
AutoDiff ==
    Lists(connectCompanion \o resolveAutomationConfigID \o Must("definition"), {"definition"})

ScriptLs ==
    Lists(fetchScripts \o fetchScriptTraceList({"warn"}) \o RegistryIfAny \o fetchFireCounts, {"states"})
ScriptLsByLabel == Narrowed(ScriptLs, {"entities"})
ScriptLsFailing == Narrowed(ScriptLs, {"traces"})

ScriptShow == Lists(fetchEntityState \o fetchScriptTraceList({"say"}), {"traces"})
renderScriptShowJSON == ScriptShow
ScriptCat == Lists(connectCompanion \o Must("definition"), {"definition"})
ScriptDiff == ScriptCat

\* A trace by its address, or the newest one of an automation that is named.
latestAutomationRun == Must("states") \o OrUnknown(Must("traces"))
TraceShow == Lists(Must("states") \o Must("socket") \o Must("trace"), {"trace"})
TraceShowNewest == Lists(Must("socket") \o latestAutomationRun \o Must("trace"), {"trace"})

(***************************************************************************)
(* Registries and helpers.                                                   *)
(***************************************************************************)
DeviceLs == Lists(fetchDeviceRegistryContext, {"devices"})
DeviceLsByArea == Narrowed(DeviceLs, {"areas"})
resolveDevice == Finds("device")
DeviceShow == Lists(fetchDeviceRegistryContext \o resolveDevice, {"device"})

LabelLs == Lists(Must("labels"), {"labels"})
FloorLs == Lists(Must("floors"), {"floors"})
AreaLs == Lists(OrNone(Must("areas")) \o Hides("floors") \o Hides("labels"), {"areas"})

\* An entity without its identity is an error, everything else is warned of.
fetchStorageHelpers == Read("states", {"warn", "fail"})
HelperLs ==
    ReadAs(connectCompanion \o Must("helpers") \o fetchStorageHelpers, "union", {"helpers", "states"})
HelperShow == Lists(connectCompanion \o Must("helpers"), {"helpers"})
HelperCat == HelperShow

(***************************************************************************)
(* Configuration, templates and dashboards.                                  *)
(***************************************************************************)
ConfigEntries == Lists(Must("entries"), {"entries"})
ConfigFiles == Lists(connectCompanion \o Must("files"), {"files"})
ConfigFile == Lists(connectCompanion \o Must("content"), {})

\* A block that is not there may be a template; not to know that changes nothing.
templateRedirect == Hides("template")
ConfigBlock ==
    Lists(connectCompanion \o Must("block") \o Lacking("block", templateRedirect), {"block"})

TplEval == Lists(Must("rendering"), {})
TplCat == Lists(connectCompanion \o Must("template"), {"template"})

DashLs == Lists(Must("socket") \o Must("dashboards"), {"dashboards"})
DashResources == Lists(Must("socket") \o Must("resources"), {"resources"})

(***************************************************************************)
(* References and searches.                                                  *)
(***************************************************************************)
connectRefSources == Must("socket") \o connectCompanion

\* The list must be had; a dashboard that cannot be read is put in the scope.
scanDashboards(on) == Must("dashboard list") \o Read("dashboards", on)

Swept == {"config files", "dashboards"}

RefScan ==
    Searches(connectRefSources \o Read("config files", {"scope"}) \o scanDashboards({"scope"}), Swept)

\* Mutant: what could not be read is only warned of.
WarnedEntitySet == Warns("states") \o Warns("entities")

\* The set of live entities, against which the references are held.  Both halves are asked
\* for before either is judged; this is the order in which they are.
liveEntitySet == Read("states", {"live"}) \o Read("entities", {"registry"})

RefValidate ==
    [ReadAs(connectRefSources \o liveEntitySet \o Read("config files", {"gate"})
             \o scanDashboards({"gate"}), "union", Swept) EXCEPT !.gate = "verdict"]

\* The companion's 400 is about the term.
Grep ==
    Searches(connectRefSources \o Read("config files", {"say", "fail"}) \o scanDashboards({"say"}), Swept)

(***************************************************************************)
(* Custom components, health and the log.                                    *)
(***************************************************************************)
\* Over the WebSocket, else over REST: it is missing when both fail.
fetchLogEntries(on) == Read("log", on)
Log == Lists(fetchLogEntries({"fail"}), {"log"})

\* Versions are looked up only if there is a component.
enrichVersions == Given("manifests", Must("states"))
fetchCustomComponents == Hides("manifests") \o enrichVersions

CcLs == Lists(fetchCustomComponents, {"manifests"})

findCustomComponent == Given("manifests", Finds("component"))

\* Without the states every registered entity counts as live; states without their identity
\* are an error.
componentEntityIDs == Given("component", Must("entities") \o Read("live", {"hide", "fail"}))
CcShow ==
    Lists(fetchCustomComponents \o findCustomComponent \o componentEntityIDs,
          {"manifests", "component"})
CcLogs ==
    Lists(fetchCustomComponents \o findCustomComponent \o Given("component", fetchLogEntries({"fail"})),
          {"manifests", "component", "log"})

discoverCompanion == Says("companion") \o Reached("companion", Says("companion health"))
Health == Lists(Must("config") \o fetchLogEntries({"say"}) \o discoverCompanion, {})

\* What was read is written before the command fails with what was not.
CompanionStatus ==
    Lists(Says("socket") \o Must("companion") \o Must("companion health") \o Hides("status"), {})

CompanionLogs == Lists(connectCompanion \o Must("records"), {"records"})
WireguardStatus == Lists(connectCompanion \o Must("tunnel"), {})

Issues == Lists(Must("issues"), {"issues"})

\* Under --json the users are asked for even so.
Changes == Lists(OrNone(Must("logbook")) \o loadUsers, {"logbook"})

(***************************************************************************)
(* Entities.                                                                 *)
(***************************************************************************)
EntLs == Lists(Must("states") \o RegistryIfAny, {"states"})
EntLsByDomain == Lists(OrNone(Must("states")) \o RegistryIfAny, {"states"})
\* Without a registry --area and --label narrow nothing.
EntLsByArea == [Narrowed(EntLs, {"entities"}) EXCEPT !.skips = TRUE]

changedByLogbookEntries == Hides("logbook")
EntShow ==
    Lists(fetchEntityState \o fetchRegistryContext({"hide"}) \o loadUsers \o Says("statistics")
          \o changedByLogbookEntries, {})

\* States that are no numbers are no points.
fetchHistoryPoints == Must("history")

\* The last recorded state asks whether the entity exists at all; how far back
\* statistics go is a note beside the answer.
writeStatisticsCoverageNote == Says("statistics")
EntHist ==
    Lists(fetchHistoryPoints \o Lacking("history", errUnknownEntity) \o writeStatisticsCoverageNote,
          {"history"})
EntHistAttr == Lists(fetchHistoryPoints \o Lacking("history", errUnknownEntity), {"history"})
EntAnomalies == EntHistAttr

\* No metadata: the entity's state decides why that is.
statisticMetadata == Must("metadata")
errNoStatistic == Hides("similar ids") \o errUnknownEntity
newestStatisticHint == Says("newest row")
EntHistStats ==
    Lists(Must("socket") \o statisticMetadata \o Lacking("metadata", errNoStatistic)
          \o Given("metadata", Must("statistics"))
          \o Given("metadata", Lacking("statistics", newestStatisticHint)), {"metadata", "statistics"})

\* Where no entry names who changed it, the state's own context does.
fetchLogbookEntries == Must("logbook")
EntWho ==
    Lists(fetchLogbookEntries \o loadUsers \o Lacking("logbook", GetState({"absent", "fail"})),
          {"logbook"})

findCompanionRelations == Warns("relations")
EntRelated ==
    ReadAs(Must("states") \o Must("socket") \o fetchRegistryContext({"fail"})
            \o findCompanionRelations, "union", {"states", "entities", "relations"})

EnergyShow == Lists(Must("socket") \o Must("preferences"), {"preferences"})

\* The preview of a service call: a service that is not registered is refused.
SvcPreview == Lists(OrUnknown(Warns("services")), {})

=============================================================================
