---------------------------- MODULE MCOneProcess -----------------------------
(***************************************************************************)
(* What goes in and out of one process: the calls of an MCP client, one HTTP   *)
(* request with its retries, the WebSocket and the discovery over it, and a     *)
(* read command with the sources it asks.  They share no state; a behaviour    *)
(* follows one of them and leaves the others as they began.                    *)
(***************************************************************************)
EXTENDS McpServer, RetryBudget, Connection, ReadCommand, TLC

CONSTANTS c1, c2

VARIABLE part

MCBackoff == <<1, 2>>

\* Commands that deny what they could not read and tell nobody: the custom
\* components, a listing that leaves its narrowing out, and others whose denial at
\* least names what to try instead.
MuteAboutComponents == {CcLs, CcShow, CcLogs}
Mute ==
    MuteAboutComponents
        \cup {EntLsByArea, ScriptLsByLabel, EntHist, EntHistAttr, EntAnomalies, EntHistStats, EntWho}

MCAsks ==
    {Log, AutoLs, AutoLsByLabel, AutoLsFailing, AutoShow, AutoCat, AutoDiff,
     ScriptLs, ScriptLsFailing, ScriptShow, ScriptCat, ScriptDiff, TraceShow, TraceShowNewest,
     DeviceLs, DeviceLsByArea, DeviceShow, LabelLs, FloorLs, AreaLs, HelperLs, HelperShow, HelperCat,
     ConfigEntries, ConfigFiles, ConfigFile, ConfigBlock, TplEval, TplCat, DashLs, DashResources,
     RefScan, RefValidate, Grep,
     Health, CompanionStatus, CompanionLogs, WireguardStatus, Issues, Changes,
     EntLs, EntLsByDomain, EntShow, EntRelated, EnergyShow, SvcPreview}
        \cup Mute

-----------------------------------------------------------------------------
Parts == {"server", "request", "connection", "read"}

\* Where a part that is not followed stands.
RequestRests == request = [sender |-> "ha", method |-> "GET", ingress |-> FALSE] /\ ~session
ConnectionRests == url
ReadRests == command = LabelLs /\ ~options.json

ProcessInit ==
    /\ part \in Parts
    /\ Init
    /\ RequestInit /\ (part = "request" \/ RequestRests)
    /\ ConnectionInit /\ (part = "connection" \/ ConnectionRests)
    /\ ReadInit /\ (part = "read" \/ ReadRests)

InServer(Step) ==
    part = "server" /\ Step /\ UNCHANGED <<part, requestVars, connectionVars, readVars>>
InRequest(Step) ==
    part = "request" /\ Step /\ UNCHANGED <<part, vars, connectionVars, readVars>>
InConnection(Step) ==
    part = "connection" /\ Step /\ UNCHANGED <<part, vars, requestVars, readVars>>
InRead(Step) ==
    part = "read" /\ Step /\ UNCHANGED <<part, vars, requestVars, connectionVars>>

ProcessNext ==
    InServer(Next) \/ InRequest(RequestNext) \/ InConnection(ConnectionNext) \/ InRead(ReadNext)

processVars == <<part, vars, requestVars, connectionVars, readVars>>

\* The fairness of McpServer's FairSpec and of RequestFair.
ProcessSpec ==
    /\ ProcessInit
    /\ [][ProcessNext]_processVars
    /\ WF_processVars(InServer(open /\ ReadLine))
    /\ \A c \in Call : WF_processVars(InServer(open /\ Handle(c)))
    /\ WF_processVars(InRequest(OwnStep))

-----------------------------------------------------------------------------
\* Every part's state has its type.
ProcessTypeOK == RequestTypeOK /\ ConnectionTypeOK /\ ReadTypeOK

\* Both kinds of connection share one --timeout among their attempts: see
\* WithinBudget and DialsWithinTimeout.
WithinTimeout == WithinBudget /\ DialsWithinTimeout

\* Every command that is not known to be mute tells what went unread before it
\* denies anything: see UnreadIsNotEmpty.
UnreadIsTold == command \notin Mute => UnreadIsNotEmpty

\* Every request that is followed ends: see EveryRequestEnds.
EveryFollowedRequestEnds ==
    part = "request" ~> (step = "answered" \/ [](step = "sign" /\ NeedsSession))

=============================================================================
