----------------------------- MODULE ConfigFlow -----------------------------
(***************************************************************************)
(* Config entries and the flows that configure them: `config show`, delete,  *)
(* options, flow-start, flow-step and flow-inspect (cmd/flow.go,              *)
(* haapi/flow.go) against Home Assistant's two flow managers.                 *)
(*                                                                            *)
(* A flow is in progress in the manager that started it until it finishes, is *)
(* aborted or expires.  Requests that start or step one are sent once; their  *)
(* answers may be lost.                                                       *)
(***************************************************************************)
EXTENDS FiniteSets

CONSTANTS
    Client,      \* processes on the instance
    Entry,       \* config entries
    FlowId,      \* flow ids, each used once
    NoFlow,
    NoEntry

ASSUME FlowAssumption == NoFlow \notin FlowId /\ NoEntry \notin Entry

Manager == {"config", "options"}

\* "probe" is show --probe-options-flow.
OnEntry == {"show", "probe", "delete", "options"}
OnFlow == {"step", "inspect"}
CommandSet ==
    [name : OnEntry, entry : Entry, id : {NoFlow}, manager : {"options"}, confirm : BOOLEAN]
    \cup [name : {"start"}, entry : {NoEntry}, id : {NoFlow}, manager : {"config"}, confirm : BOOLEAN]
    \cup [name : OnFlow, entry : {NoEntry}, id : FlowId, manager : Manager, confirm : BOOLEAN]

\* show, probe and inspect have no --confirm.
Commands == {c \in CommandSet : c.name \in {"show", "probe", "inspect"} => ~c.confirm}

\* What a started or stepped flow answers with; "garbled" does not parse.
FlowType == {"form", "menu", "external", "create_entry", "abort", "garbled"}
InProgress == {"form", "menu", "external", "garbled"}

Refusals == {"fetch", "unknown entry", "no options flow", "no config flow", "no such flow", "failed"}
Results == {"none", "planned", "done", "diagnostics", "options_flow", "unavailable", "warned",
            "flow"} \cup Refusals

VARIABLES
    entries,    \* Home Assistant: "absent", "plain" or with "options"
    handler,    \* the integration offers a config flow
    running,    \* the manager of each flow in progress
    used,       \* flow ids given out
    at,         \* where each process is
    cmd,
    answer,     \* the flow response a process holds: its type and id
    cancelled,  \* processes whose context was cancelled
    flowResult,
    probed,     \* history: flows the process' own probe has started
    left,       \* history: of these, those no caller could abort
    rewritten,  \* history: the probe made HA rewrite the entry, and told so
    flowForeseen    \* history: previews that passed, nothing having changed since

NoAnswer == [type |-> "none", id |-> NoFlow]

ha == <<entries, handler, running, used>>
told == <<probed, left, rewritten, flowForeseen>>
flowVars == <<ha, at, cmd, answer, cancelled, flowResult, told>>

FlowInit ==
    /\ entries \in [Entry -> {"absent", "plain", "options"}]
    /\ handler \in BOOLEAN
    /\ running = [f \in FlowId |-> "none"]
    /\ used = {}
    /\ at = [p \in Client |-> "idle"]
    /\ cmd = [p \in Client |-> CHOOSE c \in Commands : TRUE]
    /\ answer = [p \in Client |-> NoAnswer]
    /\ cancelled = {}
    /\ flowResult = [p \in Client |-> "none"]
    /\ probed = [p \in Client |-> {}]
    /\ left = {}
    /\ rewritten = [p \in Client |-> "no"]
    /\ flowForeseen = {}

-----------------------------------------------------------------------------
Goto(p, label) == at' = [at EXCEPT ![p] = label]
Answer(p, what) == Goto(p, "ended") /\ flowResult' = [flowResult EXCEPT ![p] = what]

\* A request of a cancelled process fails, and any request may.
CanSend(p) == p \notin cancelled

InvokeFlow(p) ==
    /\ at[p] \in {"idle", "ended"}
    /\ \E c \in Commands :
          /\ cmd' = [cmd EXCEPT ![p] = c]
          /\ Goto(p, CASE c.name \in OnEntry -> "resolve"
                       [] c.name = "start" /\ ~c.confirm -> "handlers"
                       [] c.name = "step" /\ c.confirm -> "post"
                       [] c.name = "start" /\ c.confirm -> "post"
                       [] OTHER -> "lookup")
    /\ answer' = [answer EXCEPT ![p] = NoAnswer]
    /\ flowResult' = [flowResult EXCEPT ![p] = "none"]
    /\ cancelled' = cancelled \ {p}
    /\ probed' = [probed EXCEPT ![p] = {}]
    /\ rewritten' = [rewritten EXCEPT ![p] = "no"]
    /\ left' = left \ probed[p]
    /\ UNCHANGED <<ha, flowForeseen>>

PlanFlow(p) == Answer(p, "planned") /\ flowForeseen' = flowForeseen \cup {cmd[p]}

\* Mutant: the preview does not ask whether the entry has options.
ResolvesAny(p) ==
    LET c == cmd[p]
        state == entries[c.entry]
    IN  /\ at[p] = "resolve"
        /\ IF state = "absent"
           THEN Answer(p, "unknown entry") /\ UNCHANGED flowForeseen
           ELSE IF c.name \in {"show", "probe"}
           THEN Goto(p, "diagnose") /\ UNCHANGED <<flowResult, flowForeseen>>
           ELSE IF ~c.confirm
           THEN PlanFlow(p)
           ELSE IF c.name = "options" /\ state = "plain"
           THEN Answer(p, "no options flow") /\ UNCHANGED flowForeseen
           ELSE Goto(p, "post") /\ UNCHANGED <<flowResult, flowForeseen>>
        /\ UNCHANGED <<ha, cmd, answer, cancelled, probed, left, rewritten>>

\* resolveConfigEntry, and what each command requires of the entry.
ResolveEntry(p) ==
    LET c == cmd[p]
        state == entries[c.entry]
    IN  /\ at[p] = "resolve"
        /\ \/ Answer(p, "fetch") /\ UNCHANGED flowForeseen
           \/ /\ CanSend(p)
              /\ IF state = "absent"
                 THEN Answer(p, "unknown entry") /\ UNCHANGED flowForeseen
                 ELSE IF c.name = "options" /\ state = "plain"
                 THEN Answer(p, "no options flow") /\ UNCHANGED flowForeseen
                 ELSE IF c.name \in {"show", "probe"}
                 THEN Goto(p, "diagnose") /\ UNCHANGED <<flowResult, flowForeseen>>
                 ELSE IF ~c.confirm
                 THEN PlanFlow(p)
                 ELSE Goto(p, "post") /\ UNCHANGED <<flowResult, flowForeseen>>
        /\ UNCHANGED <<ha, cmd, answer, cancelled, probed, left, rewritten>>

\* Only an integration without diagnostics, whose entry has an options flow, is
\* probed, and only if asked for.
Diagnose(p) ==
    /\ at[p] = "diagnose"
    /\ \/ CanSend(p) /\ Answer(p, "diagnostics")
       \/ Answer(p, "unavailable")
       \/ /\ CanSend(p) /\ cmd[p].name = "probe" /\ entries[cmd[p].entry] = "options"
          /\ Goto(p, "post") /\ UNCHANGED flowResult
    /\ UNCHANGED <<ha, cmd, answer, cancelled, told>>

\* ensureConfigFlowHandler.
ConfigFlowHandlers(p) ==
    /\ at[p] = "handlers"
    /\ \/ Answer(p, "fetch") /\ UNCHANGED flowForeseen
       \/ CanSend(p) /\ handler /\ PlanFlow(p)
       \/ CanSend(p) /\ ~handler /\ Answer(p, "no config flow") /\ UNCHANGED flowForeseen
    /\ UNCHANGED <<ha, cmd, answer, cancelled, probed, left, rewritten>>

\* InspectFlow, of flow-inspect and of the preview of flow-step.
InspectFlow(p) ==
    LET c == cmd[p]
        found == running[c.id] = c.manager
    IN  /\ at[p] = "lookup"
        /\ \/ Answer(p, "failed") /\ UNCHANGED flowForeseen
           \/ CanSend(p) /\ ~found /\ Answer(p, "no such flow") /\ UNCHANGED flowForeseen
           \/ CanSend(p) /\ found /\ c.name = "inspect" /\ Answer(p, "flow") /\ UNCHANGED flowForeseen
           \/ CanSend(p) /\ found /\ c.name = "step" /\ PlanFlow(p)
        /\ UNCHANGED <<ha, cmd, answer, cancelled, probed, left, rewritten>>

-----------------------------------------------------------------------------
(* The one request that changes something: doPostOnce, StepFlow, doDelete.   *)

\* A flow of p answers with type, in the manager of its command.
Progress(p, f, type) ==
    /\ running' = [running EXCEPT ![f] = IF type \in InProgress THEN cmd[p].manager ELSE "none"]
    /\ used' = used \cup {f}
    /\ flowForeseen' = {}

Receive(p, f, type) == answer' = [answer EXCEPT ![p] = [type |-> type, id |-> f]]

StartFlow(p) ==
    LET c == cmd[p]
        probe == c.name = "probe"
    IN  /\ at[p] = "post" /\ c.name \in {"probe", "options", "start"} /\ CanSend(p)
        /\ IF c.name = "start" THEN handler ELSE entries[c.entry] = "options"
        /\ \E f \in FlowId \ used, type \in FlowType :
              /\ Progress(p, f, type)
              /\ probed' = IF probe THEN [probed EXCEPT ![p] = @ \cup {f}] ELSE probed
              /\ \/ /\ Receive(p, f, type)
                    /\ Goto(p, IF probe THEN "abort" ELSE "render")
                    /\ rewritten' = [rewritten EXCEPT ![p] =
                          IF probe /\ type = "create_entry" THEN "unsaid" ELSE @]
                    /\ UNCHANGED <<flowResult, left>>
                 \/ /\ Answer(p, IF probe THEN "unavailable" ELSE "failed")
                    /\ left' = left \cup (IF probe THEN {f} ELSE {})
                    /\ UNCHANGED <<answer, rewritten>>
        /\ UNCHANGED <<entries, handler, cmd, cancelled>>

StepFlow(p) ==
    LET c == cmd[p]
    IN  /\ at[p] = "post" /\ c.name = "step" /\ CanSend(p) /\ running[c.id] = c.manager
        /\ \E type \in FlowType :
              /\ Progress(p, c.id, type)
              /\ \/ Receive(p, c.id, type) /\ Goto(p, "render") /\ UNCHANGED flowResult
                 \/ Answer(p, "failed") /\ UNCHANGED answer
        /\ UNCHANGED <<entries, handler, cmd, cancelled, probed, left, rewritten>>

DeleteConfigEntry(p) ==
    LET c == cmd[p]
    IN  /\ at[p] = "post" /\ c.name = "delete" /\ CanSend(p) /\ entries[c.entry] # "absent"
        /\ entries' = [entries EXCEPT ![c.entry] = "absent"]
        /\ flowForeseen' = {}
        /\ Answer(p, "done") \/ Answer(p, "failed")
        /\ UNCHANGED <<handler, running, used, cmd, answer, cancelled, probed, left, rewritten>>

\* Refused by HA, or not delivered.
Rejected(p) ==
    LET c == cmd[p]
        gone == CASE c.name = "step" -> running[c.id] # c.manager
                  [] c.name = "start" -> ~handler
                  [] c.name = "delete" -> entries[c.entry] = "absent"
                  [] OTHER -> entries[c.entry] # "options"
    IN  /\ at[p] = "post"
        /\ \/ Answer(p, IF c.name = "probe" THEN "unavailable" ELSE "failed")
           \/ /\ CanSend(p) /\ gone
              /\ Answer(p, CASE c.name = "step" -> "no such flow"
                             [] c.name = "probe" -> "unavailable"
                             [] c.name = "start" -> "no config flow"
                             [] OTHER -> "unknown entry")
        /\ UNCHANGED <<ha, cmd, answer, cancelled, told>>

\* Mutant: only a form that could be read is aborted.
AbortForm(p) ==
    LET f == answer[p].id
    IN  /\ at[p] = "abort"
        /\ Goto(p, "read")
        /\ IF answer[p].type = "form"
           THEN running' = [running EXCEPT ![f] = "none"] /\ flowForeseen' = {}
           ELSE UNCHANGED <<running, flowForeseen>>
        /\ UNCHANGED <<entries, handler, used, cmd, answer, cancelled, flowResult, probed,
                       left, rewritten>>

\* AbortOptionsFlow: with a context of its own, whatever the answer holds, as
\* soon as it holds an id.
Abort(p) ==
    LET f == answer[p].id
    IN  /\ at[p] = "abort"
        /\ Goto(p, "read")
        /\ \/ /\ running' = [running EXCEPT ![f] = "none"]
              /\ UNCHANGED left /\ flowForeseen' = {}
           \/ left' = left \cup {f} /\ UNCHANGED <<running, flowForeseen>>
        /\ UNCHANGED <<entries, handler, used, cmd, answer, cancelled, flowResult, probed, rewritten>>

\* The end of readOptionsFlowValues.
ReadValues(p) ==
    LET type == answer[p].type
    IN  /\ at[p] = "read"
        /\ Answer(p, CASE type = "form" -> "options_flow"
                       [] type = "create_entry" -> "warned"
                       [] OTHER -> "unavailable")
        /\ rewritten' = IF rewritten[p] = "unsaid" /\ type = "create_entry"
                        THEN [rewritten EXCEPT ![p] = "said"] ELSE rewritten
        /\ UNCHANGED <<ha, cmd, answer, cancelled, probed, left, flowForeseen>>

\* renderFlowResult: with --json the answer is written as it came, without parsing it.
RenderFlow(p) ==
    /\ at[p] = "render"
    /\ \/ answer[p].type = "garbled" /\ Answer(p, "failed")
       \/ Answer(p, "flow")
    /\ UNCHANGED <<ha, cmd, answer, cancelled, told>>

-----------------------------------------------------------------------------
Cancel(p) ==
    /\ at[p] \notin {"idle", "ended"} /\ p \notin cancelled
    /\ cancelled' = cancelled \cup {p}
    /\ UNCHANGED <<ha, at, cmd, answer, flowResult, told>>

\* Other users of Home Assistant, and flows that expire.
FlowElsewhere ==
    /\ \/ \E e \in Entry, s \in {"absent", "plain", "options"} :
             /\ s # entries[e]
             /\ entries' = [entries EXCEPT ![e] = s] /\ UNCHANGED <<handler, running>>
       \/ handler' = ~handler /\ UNCHANGED <<entries, running>>
       \/ \E f \in FlowId : running[f] # "none" /\
             running' = [running EXCEPT ![f] = "none"] /\ UNCHANGED <<entries, handler>>
    /\ flowForeseen' = {}
    /\ UNCHANGED <<used, at, cmd, answer, cancelled, flowResult, probed, left, rewritten>>

FlowNext ==
    \/ FlowElsewhere
    \/ \E p \in Client :
          \/ InvokeFlow(p) \/ ResolveEntry(p) \/ Diagnose(p) \/ ConfigFlowHandlers(p)
          \/ InspectFlow(p) \/ StartFlow(p) \/ StepFlow(p) \/ DeleteConfigEntry(p)
          \/ Rejected(p) \/ Abort(p) \/ ReadValues(p) \/ RenderFlow(p) \/ Cancel(p)

FlowSpec == FlowInit /\ [][FlowNext]_flowVars

-----------------------------------------------------------------------------
(* Properties *)

FlowTypeOK ==
    /\ entries \in [Entry -> {"absent", "plain", "options"}]
    /\ handler \in BOOLEAN
    /\ running \in [FlowId -> Manager \cup {"none"}]
    /\ used \subseteq FlowId
    /\ at \in [Client -> {"idle", "resolve", "diagnose", "handlers", "lookup", "post", "abort",
                          "read", "render", "ended"}]
    /\ cmd \in [Client -> Commands]
    /\ answer \in [Client -> [type : FlowType \cup {"none"}, id : FlowId \cup {NoFlow}]]
    /\ cancelled \subseteq Client
    /\ flowResult \in [Client -> Results]

\* `config show` is a read: when its probe of an options flow has ended, cancelled
\* or not and whatever the answer was, the flow it started is no longer in progress,
\* unless the answer with its id or the abort itself was lost; and when Home
\* Assistant has rewritten the entry instead of answering with a form, the result
\* says so.
ProbeLeavesNoTrace ==
    \A p \in Client :
        at[p] = "ended" =>
            /\ \A f \in probed[p] \ left : running[f] = "none"
            /\ rewritten[p] # "unsaid"

\* H-2, "a preview fails exactly where the confirmed run would": a confirmed command
\* whose preview passed, with nothing changed at Home Assistant since, is not
\* refused for what it names.
PreviewForetells ==
    [][\A p \in Client :
         /\ cmd[p].confirm /\ [cmd[p] EXCEPT !.confirm = FALSE] \in flowForeseen
         /\ at[p] # "ended" /\ at'[p] = "ended"
         => flowResult'[p] \notin {"unknown entry", "no options flow", "no config flow",
                               "no such flow"}]_flowVars

=============================================================================
