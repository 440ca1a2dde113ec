--------------------------- MODULE DashboardWrite ---------------------------
(***************************************************************************)
(* The dashboard commands (cmd/dash.go, cmd/dashbackup.go): show, grep, save, *)
(* replace, create and delete, over one WebSocket each, while other clients   *)
(* of Home Assistant edit.  A socket that is lost stays lost.                 *)
(***************************************************************************)
EXTENDS FiniteSets

CONSTANTS
    Dashboard,   \* url paths
    Default,     \* the empty url path; listed only when a file pins it
    Config,      \* contents of a dashboard
    NoConfig,    \* nothing stored
    Hit,         \* contents that hold the value looked for
    Rewritten    \* the content with the value replaced

ASSUME DashboardAssumption ==
    /\ Default \in Dashboard
    /\ NoConfig \notin Config
    /\ Hit \subseteq Config
    /\ Rewritten \in [Config -> Config \ Hit]
    /\ \A c \in Config \ Hit : Rewritten[c] = c

\* How a dashboard is defined; Default is there also when it is not listed.
Mode == {"unlisted", "storage", "yaml"}

Command ==
    [name : {"show"}, url : Dashboard, confirm : {FALSE}]
    \cup [name : {"save", "replace"}, url : Dashboard, confirm : BOOLEAN]
    \cup [name : {"create", "delete"}, url : Dashboard \ {Default}, confirm : BOOLEAN]
    \cup [name : {"grep"}, url : {Default}, confirm : {FALSE}]

Outcome == {"none", "failed", "refused", "not found", "exists", "unchanged", "planned",
            "done", "gone", "no stored config", "shown", "hits", "no hits", "incomplete"}

VARIABLES
    mode,      \* Home Assistant: how each dashboard is defined
    config,    \* what is stored for it
    step,
    command,
    socket,    \* the WebSocket works
    listed,    \* the answer of lovelace/dashboards/list
    fetched,   \* the config fetched last
    toScan,    \* grep: dashboards to go
    scanned,   \* grep: those that could be read, and what they held
    keptCopy,  \* what the snapshot taken by the command holds
    result,
    foreseen,  \* history: previews that passed, nothing having changed since
    sighted    \* history: of these, those that had read the list of dashboards

dashHA == <<mode, config>>
previews == <<foreseen, sighted>>
dashVars == <<dashHA, step, command, socket, listed, fetched, toScan, scanned, keptCopy,
              result, previews>>

DashInit ==
    /\ mode \in [Dashboard -> Mode]
    /\ config \in [Dashboard -> Config \cup {NoConfig}]
    /\ \A d \in Dashboard :
          mode[d] = "unlisted" /\ d # Default => config[d] = NoConfig
    /\ step = "idle"
    /\ command = CHOOSE c \in Command : TRUE
    /\ socket = TRUE
    /\ listed = [d \in Dashboard |-> "unlisted"]
    /\ fetched = NoConfig
    /\ toScan = {} /\ scanned = {}
    /\ keptCopy = NoConfig
    /\ result = "none"
    /\ foreseen = {} /\ sighted = {}

-----------------------------------------------------------------------------
Found(list, d) == list[d] # "unlisted"
Gone(d) == mode[d] = "unlisted"

End(what) == step' = "ended" /\ result' = what
Then(next) == step' = next /\ UNCHANGED result

InvokeDash ==
    /\ step \in {"idle", "ended"}
    /\ command' \in Command
    /\ step' = "list" /\ result' = "none"
    /\ socket' = TRUE
    /\ listed' = [d \in Dashboard |-> "unlisted"]
    /\ fetched' = NoConfig /\ keptCopy' = NoConfig /\ toScan' = {} /\ scanned' = {}
    /\ UNCHANGED <<dashHA, previews>>

LoseSocket ==
    /\ step \notin {"idle", "ended"} /\ socket
    /\ socket' = FALSE
    /\ UNCHANGED <<dashHA, step, command, listed, fetched, toScan, scanned, keptCopy,
                   result, previews>>

-----------------------------------------------------------------------------
(* What each command resolves before it plans.                               *)

\* refuseYamlModeDashboardWrite, of the default only if it is listed.
YamlPinned(d) == listed'[d] = "yaml"

\* findDashboardIn; the default needs no listing.
Resolved(d) == d = Default \/ Found(listed', d)

\* What is to be written is written, or shown.
Shown == IF command.confirm THEN {} ELSE {command}
Proceed(next) ==
    /\ IF command.confirm THEN Then(next) ELSE End("planned")
    /\ foreseen' = foreseen \cup Shown
Plan(next) == Proceed(next) /\ sighted' = sighted \cup Shown
PlanUnseen(next) == Proceed(next) /\ UNCHANGED sighted
Stop(what) == End(what) /\ UNCHANGED previews
GoOn(next) == Then(next) /\ UNCHANGED previews

\* Mutant: what is not listed is not scanned.
ListedTargets(list) == {d \in Dashboard : list[d] # "unlisted"}

\* dashboardScanTargets: the default one also when it is not on the list.
ScanTargets(list) == {d \in Dashboard : d = Default \/ list[d] # "unlisted"}

ShowTarget(d) == IF Resolved(d) THEN GoOn("fetch") ELSE Stop("not found")

SaveTarget(d) ==
    IF YamlPinned(d) THEN Stop("refused")
    ELSE IF ~Resolved(d) THEN Stop("not found")
    ELSE Plan("snapshot")

ReplaceTarget(d) ==
    IF YamlPinned(d) THEN Stop("refused")
    ELSE IF ~Resolved(d) THEN Stop("not found")
    ELSE GoOn("fetch")

CreateTarget(d) == IF Found(listed', d) THEN Stop("exists") ELSE Plan("write")

DeleteTarget(d) ==
    IF ~Found(listed', d) THEN Stop("not found")
    ELSE IF YamlPinned(d) THEN Stop("refused")
    ELSE Plan("write")

AfterList ==
    LET d == command.url
    IN  CASE command.name = "show"    -> ShowTarget(d)
          [] command.name = "save"    -> SaveTarget(d)
          [] command.name = "replace" -> ReplaceTarget(d)
          [] command.name = "create"  -> CreateTarget(d)
          [] command.name = "delete"  -> DeleteTarget(d)
          [] command.name = "grep"    -> GoOn("scan")

\* DashboardList.  runDashCreate asks only whether the dashboard was found: a list that
\* cannot be had passes for one without it, in a preview and in a confirmed run.
ListDashboards ==
    /\ step = "list"
    /\ \/ socket /\ listed' = mode /\ AfterList
       \/ /\ UNCHANGED listed
          /\ IF command.name = "create" THEN PlanUnseen("write") ELSE Stop("failed")
    /\ toScan' = IF step' = "scan" THEN ScanTargets(listed') ELSE {}
    /\ UNCHANGED <<dashHA, command, socket, fetched, scanned, keptCopy>>

\* classifyDashboardConfig of the target; jsonwalk.Replace; the renderings of show.
Fetch ==
    LET here == config[command.url]
    IN  /\ step = "fetch"
        /\ \/ Stop("failed") /\ UNCHANGED fetched
           \/ /\ socket /\ fetched' = here
              /\ IF command.name = "show"
                 THEN Stop(IF here = NoConfig THEN "no stored config" ELSE "shown")
                 ELSE IF here \notin Hit
                 THEN Stop("unchanged")
                 ELSE Plan("snapshot")
        /\ UNCHANGED <<dashHA, command, socket, listed, toScan, scanned, keptCopy>>

\* walkDashboardConfigs: a dashboard without a config counts as read.
Scan ==
    /\ step = "scan" /\ toScan # {}
    /\ \E d \in toScan :
          /\ toScan' = toScan \ {d}
          /\ \/ socket /\ scanned' = scanned \cup {<<d, config[d]>>}
             \/ UNCHANGED scanned
    /\ UNCHANGED <<dashHA, step, command, socket, listed, fetched, keptCopy, result, previews>>

\* runDashGrep, searchScopeGateError.
Hits == \E p \in scanned : p[2] \in Hit
Partial == \E d \in ScanTargets(listed) : ~\E p \in scanned : p[1] = d

ReportScan ==
    /\ step = "scan" /\ toScan = {}
    /\ \/ Partial /\ End("incomplete")
       \/ End(IF Hits THEN "hits" ELSE IF Partial THEN "incomplete" ELSE "no hits")
    /\ UNCHANGED <<dashHA, command, socket, listed, fetched, toScan, scanned, keptCopy, previews>>

-----------------------------------------------------------------------------
(* The writes.                                                               *)

\* snapshotDashboardBeforeSave: what cannot be read or written is not kept, and
\* the save goes ahead.
Snapshot ==
    LET here == config[command.url]
    IN  /\ step = "snapshot" /\ Then("write")
        /\ \/ /\ socket /\ here # NoConfig
              /\ keptCopy' = here
           \/ UNCHANGED keptCopy
        /\ UNCHANGED <<dashHA, command, socket, listed, fetched, toScan, scanned, previews>>

\* Home Assistant's side of the write (external).
DashPermitted ==
    CASE command.name \in {"save", "replace"} ->
           mode[command.url] \in {"storage"} \cup (IF command.url = Default THEN {"unlisted"} ELSE {})
      [] command.name = "create" -> Gone(command.url)
      [] OTHER -> mode[command.url] = "storage"

Execute ==
    LET d == command.url
    IN  /\ CASE command.name = "save" ->
                  \E c \in Config : config' = [config EXCEPT ![d] = c] /\ UNCHANGED mode
             [] command.name = "replace" ->
                  config' = [config EXCEPT ![d] = Rewritten[fetched]] /\ UNCHANGED mode
             [] command.name = "create" ->
                  mode' = [mode EXCEPT ![d] = "storage"] /\ UNCHANGED config
             [] OTHER ->
                  /\ mode' = [mode EXCEPT ![d] = "unlisted"]
                  /\ config' = [config EXCEPT ![d] = NoConfig]
        /\ foreseen' = {} /\ sighted' = {}

\* A failed delete is asked about once more.
WriteFails == IF command.name = "delete" THEN Then("recheck") ELSE End("failed")

\* A delete may take effect and be answered with an error all the same.
Write ==
    /\ step = "write"
    /\ \/ socket /\ DashPermitted /\ Execute /\ (End("done") \/ WriteFails)
       \/ UNCHANGED <<dashHA, previews>> /\ WriteFails
    /\ UNCHANGED <<command, socket, listed, fetched, toScan, scanned, keptCopy>>

\* findDashboard: "gone" is what it is taken for when it cannot be found, and
\* that is also when the list cannot be had.
Recheck ==
    /\ step = "recheck"
    /\ \/ socket /\ listed' = mode /\ End(IF Gone(command.url) THEN "gone" ELSE "failed")
       \/ UNCHANGED listed /\ End("gone")
    /\ UNCHANGED <<dashHA, command, socket, fetched, toScan, scanned, keptCopy, previews>>

\* Another client edits, creates or deletes.
EditElsewhere ==
    /\ \E d \in Dashboard :
          \/ /\ mode[d] = "storage"
             /\ \E c \in Config \ {config[d]} : config' = [config EXCEPT ![d] = c]
             /\ UNCHANGED mode
          \/ /\ d # Default /\ mode[d] = "storage"
             /\ mode' = [mode EXCEPT ![d] = "unlisted"]
             /\ config' = [config EXCEPT ![d] = NoConfig]
          \/ /\ d # Default /\ mode[d] = "unlisted"
             /\ mode' = [mode EXCEPT ![d] = "storage"]
             /\ UNCHANGED config
    /\ foreseen' = {} /\ sighted' = {}
    /\ UNCHANGED <<step, command, socket, listed, fetched, toScan, scanned, keptCopy, result>>

DashNext ==
    \/ InvokeDash \/ LoseSocket \/ ListDashboards \/ Fetch \/ Scan \/ ReportScan
    \/ Snapshot \/ Write \/ Recheck \/ EditElsewhere

DashSpec == DashInit /\ [][DashNext]_dashVars

-----------------------------------------------------------------------------
(* Properties *)

DashTypeOK ==
    /\ mode \in [Dashboard -> Mode] /\ listed \in [Dashboard -> Mode]
    /\ config \in [Dashboard -> Config \cup {NoConfig}]
    /\ step \in {"idle", "list", "fetch", "scan", "snapshot", "write", "recheck", "ended"}
    /\ command \in Command
    /\ socket \in BOOLEAN
    /\ fetched \in Config \cup {NoConfig}
    /\ toScan \subseteq Dashboard
    /\ scanned \subseteq Dashboard \X (Config \cup {NoConfig})
    /\ keptCopy \in Config \cup {NoConfig}
    /\ result \in Outcome

\* A confirmed command is not refused for its target, and what it writes Home Assistant
\* accepts.
GoesThrough ==
    /\ result \notin {"refused", "not found", "exists", "unchanged"}
    /\ step = "write" => DashPermitted

\* H-2 (INVARIANTS.md:55, dash.go:963), of every preview that passed: its confirmed run,
\* with nothing changed at Home Assistant since, goes through.  The code breaks this: a
\* `dash create` is previewed also over a list that could not be had, and its confirmed
\* run then finds that the dashboard exists.
DashPreviewForetells ==
    command.confirm /\ [command EXCEPT !.confirm = FALSE] \in foreseen => GoesThrough

\* H-2, of the previews that had the list of dashboards, over one socket for the preview
\* and another for the confirmed run: that run goes through.  Not claimed of a `dash
\* create` previewed over a failed list only, which DashPreviewForetells shows to fail.
SightedPreviewForetells ==
    command.confirm /\ [command EXCEPT !.confirm = FALSE] \in sighted => GoesThrough

\* D-7: grep says that nothing was found only when it has read every dashboard of the
\* list, the default one also when it is not on it.
NoHitsIsComplete ==
    result = "no hits" =>
        \A d \in Dashboard : d = Default \/ Found(listed, d) =>
            \E c \in (Config \ Hit) \cup {NoConfig} : <<d, c>> \in scanned

=============================================================================
