----------------------------- MODULE CacheStore -----------------------------
(***************************************************************************)
(* The cache of traces, logs and samples (internal/cache, cmd/cache.go):      *)
(* `cache refresh`, `cache clear`, `cache status` and the samples `ent hist`   *)
(* leaves behind.  Each database statement is atomic, a command is not.       *)
(***************************************************************************)
EXTENDS FiniteSets

CONSTANTS
    User,        \* hactl processes
    Trace,       \* traces Home Assistant may have
    Sample,      \* samples of a history
    Never        \* no stamp

CacheCommand == {"traces", "logs", "both", "clear", "hist", "status"}

VARIABLES
    stored,      \* traces.db
    tracesStamp, \* meta traces_sync: what the refresh that set it had fetched
    logFile,     \* logs.jsonl: the generation of the log it holds
    logsStamp,
    samples,     \* timeseries.db
    generation,  \* Home Assistant: of its log
    user,        \* per process: command, step, what it has fetched
    unbroken     \* history: no two commands that write overlapped, none died halfway

cacheDisk == <<stored, tracesStamp, logFile, logsStamp, samples>>
cacheVars == <<cacheDisk, generation, user, unbroken>>

Generation == {"old", "new"}
Away == [command |-> "status", step |-> "away", toGet |-> {}, got |-> {}]

CacheInit ==
    /\ stored = {} /\ tracesStamp = Never
    /\ logFile = Never /\ logsStamp = Never
    /\ samples = {}
    /\ generation = "old"
    /\ user = [p \in User |-> Away]
    /\ unbroken = TRUE

-----------------------------------------------------------------------------
Moves(p, next) == user' = [user EXCEPT ![p].step = next]
Leaves(p) == user' = [user EXCEPT ![p] = Away]
Busy(p) == \E q \in User \ {p} : user[q].step # "away"
In(p, step) == user[p].step = step

FirstStep(c) == CASE c \in {"traces", "both"} -> "list"
                  [] c = "logs"  -> "fetch log"
                  [] c = "clear" -> "clear traces"
                  [] OTHER -> c

StartCache(p) ==
    /\ In(p, "away")
    /\ \E c \in CacheCommand :
          /\ user' = [user EXCEPT ![p] = [Away EXCEPT !.command = c, !.step = FirstStep(c)]]
          /\ unbroken' = (unbroken /\ ~Busy(p))
    /\ UNCHANGED <<cacheDisk, generation>>

\* TraceList of the automations must answer, that of the scripts may fail.
ListTraces(p) ==
    /\ In(p, "list")
    /\ \E some \in SUBSET Trace :
          user' = [user EXCEPT ![p].toGet = some, ![p].step = "get"]
    /\ UNCHANGED <<cacheDisk, generation, unbroken>>

\* TraceGet, one by one; a trace that cannot be had is left out.
GetTrace(p) ==
    /\ In(p, "get")
    /\ \E t \in user[p].toGet, g \in BOOLEAN :
          user' = [user EXCEPT ![p].toGet = @ \ {t}, ![p].got = IF g THEN @ \cup {t} ELSE @,
                               ![p].step = IF user[p].toGet = {t} THEN "drop" ELSE @]
    /\ UNCHANGED <<cacheDisk, generation, unbroken>>

NoneListed(p) ==
    /\ In(p, "get") /\ user[p].toGet = {}
    /\ Moves(p, "drop")
    /\ UNCHANGED <<cacheDisk, generation, unbroken>>

\* Mutant: what the last refresh stored is left in.
KeepsTraces(p) ==
    /\ In(p, "drop") /\ Moves(p, "store")
    /\ UNCHANGED <<cacheDisk, generation, unbroken>>

\* RefreshTraces: three statements; StoreTraces is one transaction, INSERT OR REPLACE.
DropTraces(p) ==
    /\ In(p, "drop") /\ Moves(p, "store")
    /\ stored' = {}
    /\ UNCHANGED <<tracesStamp, logFile, logsStamp, samples, generation, unbroken>>

StoreTraces(p) ==
    /\ In(p, "store") /\ Moves(p, "stamp")
    /\ stored' = stored \cup user[p].got
    /\ UNCHANGED <<tracesStamp, logFile, logsStamp, samples, generation, unbroken>>

StampTraces(p) ==
    /\ In(p, "stamp")
    /\ tracesStamp' = user[p].got
    /\ IF user[p].command = "both" THEN Moves(p, "fetch log") ELSE Leaves(p)
    /\ UNCHANGED <<stored, logFile, logsStamp, samples, generation, unbroken>>

\* refreshLogsFromHA; RefreshLogs rewrites the file and stamps it.  A log half written by a
\* process that dies there is not told apart from a whole one.
FetchLog(p) ==
    /\ In(p, "fetch log")
    /\ user' = [user EXCEPT ![p].got = {generation}, ![p].step = "write log"]
    /\ UNCHANGED <<cacheDisk, generation, unbroken>>

WriteLog(p) ==
    /\ In(p, "write log") /\ Moves(p, "stamp log")
    /\ \E g \in user[p].got : logFile' = g
    /\ UNCHANGED <<stored, tracesStamp, logsStamp, samples, generation, unbroken>>

StampLog(p) ==
    /\ In(p, "stamp log") /\ Leaves(p)
    /\ \E g \in user[p].got : logsStamp' = g
    /\ UNCHANGED <<stored, tracesStamp, logFile, samples, generation, unbroken>>

\* Store.Clear, then the time series.
ClearTraces(p) ==
    /\ In(p, "clear traces") /\ Moves(p, "clear log")
    /\ stored' = {}
    /\ UNCHANGED <<tracesStamp, logFile, logsStamp, samples, generation, unbroken>>

ClearLogs(p) ==
    /\ In(p, "clear log") /\ Moves(p, "clear meta")
    /\ logFile' = Never
    /\ UNCHANGED <<stored, tracesStamp, logsStamp, samples, generation, unbroken>>

ClearMeta(p) ==
    /\ In(p, "clear meta") /\ Moves(p, "clear samples")
    /\ tracesStamp' = Never /\ logsStamp' = Never
    /\ UNCHANGED <<stored, logFile, samples, generation, unbroken>>

ClearSamples(p) ==
    /\ In(p, "clear samples") /\ Moves(p, "cleared")
    /\ samples' = {}
    /\ UNCHANGED <<stored, tracesStamp, logFile, logsStamp, generation, unbroken>>

\* runCacheClear and runCacheStatus have said what they say.
SayCache(p) ==
    /\ user[p].step \in {"cleared", "status"} /\ Leaves(p)
    /\ UNCHANGED <<cacheDisk, generation, unbroken>>

\* StoreSamples: one transaction, INSERT OR IGNORE; a failure is not told.
StoreSamples(p) ==
    /\ In(p, "hist") /\ Leaves(p)
    /\ \E some \in SUBSET Sample : samples' = samples \cup some
    /\ UNCHANGED <<stored, tracesStamp, logFile, logsStamp, generation, unbroken>>

\* Home Assistant or a statement fails, or the process dies: what is done stays done.
CacheFails(p) ==
    /\ ~In(p, "away") /\ Leaves(p)
    /\ unbroken' = (unbroken /\ user[p].step \in {"list", "get", "drop", "fetch log",
                                                  "clear traces", "cleared", "status", "hist"})
    /\ UNCHANGED <<cacheDisk, generation>>

LogMoves ==
    /\ generation' \in Generation \ {generation}
    /\ UNCHANGED <<cacheDisk, user, unbroken>>

CacheNext ==
    \/ LogMoves
    \/ \E p \in User :
          \/ StartCache(p) \/ ListTraces(p) \/ GetTrace(p) \/ NoneListed(p) \/ DropTraces(p)
          \/ StoreTraces(p) \/ StampTraces(p) \/ FetchLog(p) \/ WriteLog(p) \/ StampLog(p)
          \/ ClearTraces(p) \/ ClearLogs(p) \/ ClearMeta(p) \/ ClearSamples(p) \/ SayCache(p)
          \/ StoreSamples(p) \/ CacheFails(p)

CacheSpec == CacheInit /\ [][CacheNext]_cacheVars

-----------------------------------------------------------------------------
(* Properties *)

CacheTypeOK ==
    /\ stored \subseteq Trace /\ samples \subseteq Sample
    /\ tracesStamp \in (SUBSET Trace) \cup {Never}
    /\ logFile \in Generation \cup {Never} /\ logsStamp \in Generation \cup {Never}
    /\ generation \in Generation

\* What `cache status` tells of the last sync is what is stored: between commands, the
\* traces and the log are those the stamped refresh had fetched, and after "cache cleared"
\* nothing at all is left, as long as commands came one at a time and none was cut in two.
StampTellsStored ==
    unbroken =>
        /\ (\A p \in User : In(p, "away")) =>
              /\ tracesStamp = (IF tracesStamp = Never THEN Never ELSE stored)
              /\ logFile = logsStamp
        /\ (\E p \in User : In(p, "cleared")) => stored = {} /\ logFile = Never /\ samples = {}

=============================================================================
