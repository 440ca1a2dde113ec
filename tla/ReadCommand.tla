---------------------------- MODULE ReadCommand ----------------------------
(***************************************************************************)
(* One read command: it asks its sources one after the other (ReadSources),   *)
(* any of them may fail, and it answers from what it got.                     *)
(***************************************************************************)
EXTENDS ReadSources, Naturals

CONSTANT Asks    \* the commands a run may be

\* A read and a command, as ReadSources builds them.
ReadStep ==
    [from : STRING, empty : {"go on", "none", "unknown"},
     on : SUBSET {"fail", "absent", "gate", "live", "registry", "say", "scope", "warn", "hide"},
     given : SUBSET STRING, lacking : SUBSET STRING, reached : SUBSET STRING]
Commands ==
    [does : Seq(ReadStep), how : {"join", "union"}, rests : SUBSET STRING, skips : BOOLEAN,
     gate : {"none", "search", "verdict"}]

ASSUME ReadAssumption == Asks \subseteq Commands

VARIABLES
    command,    \* of Asks
    options,    \* --json, --allow-partial, --exit-code
    turn,       \* the read that is next
    got,        \* sources that held something of what was asked for
    missing,    \* sources that failed, or answered for a part of themselves
    stated,     \* of these, the ones the answer names
    warned,     \* and the ones a line on stderr names
    conclusion  \* what the run ends with

readVars == <<command, options, turn, got, missing, stated, warned, conclusion>>

\* Sources that can answer and yet have skipped a file or a dashboard.
Partial == {"config files", "dashboards"}

\* "hedged": nothing in what could be read.
Conclusions == {"none yet", "error", "refused", "unknown", "rows", "none", "hedged"}

ReadInit ==
    /\ command \in Asks
    /\ options \in [json : BOOLEAN, allowPartial : BOOLEAN, exitCode : BOOLEAN]
    /\ options.exitCode => command.gate = "verdict"
    /\ options.allowPartial => command.gate # "none"
    /\ turn = 1
    /\ got = {} /\ missing = {} /\ stated = {} /\ warned = {}
    /\ conclusion = "none yet"

Asking == conclusion = "none yet" /\ turn <= Len(command.does)
read == command.does[turn]

Wanted ==
    /\ read.given \subseteq got
    /\ read.lacking \cap got = {}
    /\ read.reached \cap missing = {}

(***************************************************************************)
(* A source that failed, or fell short.                                      *)
(***************************************************************************)
\* validateAnswersAMachine, and --json for the searches.
AnswersAMachine == options.json \/ options.exitCode

validateScanGateError == AnswersAMachine /\ ~options.allowPartial

End(how) == conclusion' = how /\ UNCHANGED <<turn, stated, warned>>
GoOn == turn' = turn + 1 /\ UNCHANGED conclusion
Say(source) == stated' = stated \cup {source} /\ UNCHANGED warned
Warn(source) == warned' = warned \cup {source} /\ UNCHANGED stated

\* reportSweepScope: in the body for a person, in the log under --json.
reportSweepScope(source) == IF options.json THEN Warn(source) ELSE Say(source)

Gate == IF validateScanGateError THEN End("refused") ELSE GoOn /\ reportSweepScope(read.from)

MissedBy(on) ==
    \/ on = "fail" /\ End("error")
    \/ on = "absent" /\ End("unknown")
    \/ on = "gate" /\ Gate
    \/ /\ on = "live"
       /\ IF options.allowPartial THEN GoOn /\ reportSweepScope(read.from) ELSE End("error")
    \/ /\ on = "registry"
       /\ IF "states" \in missing THEN End("error") ELSE Gate
    \/ on = "say" /\ GoOn /\ Say(read.from)
    \/ on = "scope" /\ GoOn /\ reportSweepScope(read.from)
    \/ on = "warn" /\ GoOn /\ Warn(read.from)
    \/ on = "hide" /\ GoOn /\ UNCHANGED <<stated, warned>>

Missed ==
    /\ Asking /\ Wanted
    /\ missing' = missing \cup {read.from}
    /\ \/ UNCHANGED got
       \/ read.from \in Partial /\ got' = got \cup {read.from}
    /\ \E on \in read.on : MissedBy(on)
    /\ UNCHANGED <<command, options>>

(***************************************************************************)
(* A source that answered in full.                                           *)
(***************************************************************************)
Held ==
    /\ Asking /\ Wanted
    /\ got' = got \cup {read.from}
    /\ GoOn
    /\ UNCHANGED <<command, options, missing, stated, warned>>

Empty ==
    /\ Asking /\ Wanted
    /\ IF read.empty = "go on" THEN GoOn ELSE End(read.empty)
    /\ UNCHANGED <<command, options, got, missing, stated, warned>>

Skip ==
    /\ Asking /\ ~Wanted
    /\ GoOn
    /\ UNCHANGED <<command, options, got, missing, stated, warned>>

(***************************************************************************)
(* The answer.                                                               *)
(***************************************************************************)
HasRows ==
    IF command.how = "union"
    THEN command.rests \cap got # {}
    ELSE command.rests \subseteq got \cup (IF command.skips THEN missing ELSE {})

searchScopeGateError ==
    command.gate = "search" /\ missing # {} /\ options.json /\ ~options.allowPartial

\* emptyListing, or what a search says instead.
NoRows == IF command.gate = "search" /\ missing # {} /\ ~options.json THEN "hedged" ELSE "none"

Conclude ==
    /\ conclusion = "none yet" /\ turn > Len(command.does)
    /\ conclusion' = IF searchScopeGateError THEN "refused"
                 ELSE IF HasRows THEN "rows" ELSE NoRows
    /\ UNCHANGED <<command, options, turn, got, missing, stated, warned>>

ReadNext == Held \/ Empty \/ Missed \/ Skip \/ Conclude

ReadSpec == ReadInit /\ [][ReadNext]_readVars

(***************************************************************************)
(* Properties.                                                               *)
(***************************************************************************)
ReadTypeOK ==
    /\ command \in Asks
    /\ options \in [json : BOOLEAN, allowPartial : BOOLEAN, exitCode : BOOLEAN]
    /\ turn \in 1 .. Len(command.does) + 1
    /\ \A sources \in {got, missing, stated, warned} :
           sources \subseteq {command.does[i].from : i \in DOMAIN command.does}
    /\ conclusion \in Conclusions

\* H-21, H-7: a fetch that failed is not an empty answer.  Whoever is told that
\* there is none, or that what they named does not exist, is told of every source
\* this rests on that went unread.
UnreadIsNotEmpty ==
    conclusion \in {"none", "unknown"} =>
        missing \cap (command.rests \cup {"state"}) \subseteq stated \cup warned

\* D-7, D-31: a search or a verdict over a part of the instance says so in its
\* body, or is refused where nobody would read that, unless a partial answer was
\* asked for; and it does not deny what it could not search.
SearchTellsItsScope ==
    command.gate # "none" /\ conclusion \in {"rows", "none", "hedged"} /\ missing # {} =>
        /\ options.allowPartial \/ (~AnswersAMachine /\ missing \subseteq stated)
        /\ conclusion = "none" => options.json \/ command.gate = "verdict"

=============================================================================
