------------------------------ MODULE StableIds ------------------------------
(***************************************************************************)
(* The short ids of traces and log entries (pkg/ids): `auto show`, `script    *)
(* show` and `log` hand them out, `trace show` and `log show` take them, and  *)
(* cache/ids.json, written without a lock, joins the two.                     *)
(***************************************************************************)
EXTENDS Sequences, FiniteSets, Functions, SequencesExt

CONSTANTS
    Reader,      \* hactl processes
    Row,         \* runs and log entries
    Id,
    Candidates,  \* per key, the prefixes of its hash, the shortest first
    Torn         \* a file that does not parse

Registry == UNION {[d -> Id] : d \in SUBSET Row}

ASSUME IdsAssumption ==
    /\ Candidates \in [Row -> Seq(Id)]
    /\ \A k \in Row : Candidates[k] # <<>>
    /\ \A j, k \in Row : j # k => Last(Candidates[j]) \notin ToSet(Candidates[k])
    /\ Torn \notin Registry

NoIds == [k \in {} |-> Torn]

VARIABLES
    file,     \* cache/ids.json; a missing file is an empty one
    reader,   \* per process: the step, the rows to come, the registry in memory
    told,     \* history: <<id, key>> printed since the last `cache clear`
    solo      \* history: since then nobody overlapped, died or could not save

idVars == <<file, reader, told, solo>>

AtRest == [step |-> "rest", rows |-> {}, entries |-> NoIds, asked |-> Torn, found |-> Torn]

IdsInit ==
    /\ file = NoIds
    /\ reader = [p \in Reader |-> AtRest]
    /\ told = {} /\ solo = TRUE

-----------------------------------------------------------------------------
Others(p) == {q \in Reader \ {p} : reader[q].step # "rest"}
Overlaps(p) == solo' = (solo /\ Others(p) = {})

\* runLog, runAutoShow, runScriptShow: at least one row.
StartListing(p) ==
    /\ reader[p].step = "rest"
    /\ \E rows \in (SUBSET Row) \ {{}} : reader' = [reader EXCEPT ![p] = [AtRest EXCEPT !.step = "load", !.rows = rows]]
    /\ Overlaps(p)
    /\ UNCHANGED <<file, told>>

\* runTraceShow, runLogShow, with an id that was printed.
StartShow(p) ==
    /\ reader[p].step = "rest"
    /\ \E t \in told : reader' = [reader EXCEPT ![p] = [AtRest EXCEPT !.step = "load", !.asked = t[1]]]
    /\ Overlaps(p)
    /\ UNCHANGED <<file, told>>

\* Registry.Load: a file that does not parse is warned about and counts as empty.
LoadIds(p) ==
    /\ reader[p].step = "load"
    /\ reader' = [reader EXCEPT ![p].entries = IF file = Torn THEN NoIds ELSE file,
                                ![p].step = IF reader[p].asked = Torn THEN "assign" ELSE "resolve"]
    /\ UNCHANGED <<file, told, solo>>

\* Mutant: the first prefix is good enough.
firstPrefix(entries, k) == Candidates[k][1]

\* Registry.generate: the shortest prefix nobody has.
generate(entries, k) ==
    LET free == {n \in DOMAIN Candidates[k] : Candidates[k][n] \notin Range(entries)}
    IN  Candidates[k][Min(free)]

\* Registry.GetOrCreate, row by row.
GetOrCreate(p) ==
    LET e == reader[p].entries
    IN  /\ reader[p].step = "assign"
        /\ \E k \in reader[p].rows \ DOMAIN e :
              reader' = [reader EXCEPT ![p].entries =
                  [x \in DOMAIN e \cup {k} |-> IF x = k THEN generate(e, k) ELSE e[x]]]
        /\ UNCHANGED <<file, told, solo>>

\* Registry.Save: the file is truncated, then written.
Truncate(p) ==
    /\ reader[p].step = "assign" /\ reader[p].rows \subseteq DOMAIN reader[p].entries
    /\ \/ /\ file' = Torn /\ reader' = [reader EXCEPT ![p].step = "write"]
          /\ UNCHANGED solo
       \/ /\ UNCHANGED file /\ reader' = [reader EXCEPT ![p].step = "print"]
          /\ solo' = FALSE
    /\ UNCHANGED told

WriteIds(p) ==
    /\ reader[p].step = "write"
    /\ file' = reader[p].entries
    /\ reader' = [reader EXCEPT ![p].step = "print"]
    /\ UNCHANGED <<told, solo>>

PrintRows(p) ==
    /\ reader[p].step = "print"
    /\ told' = told \cup {<<reader[p].entries[k], k>> : k \in reader[p].rows}
    /\ reader' = [reader EXCEPT ![p] = AtRest]
    /\ UNCHANGED <<file, solo>>

\* Registry.Resolve.
Resolve(p) ==
    LET e == reader[p].entries
    IN  /\ reader[p].step = "resolve"
        /\ reader' = [reader EXCEPT ![p].step = "answer", ![p].entries = NoIds,
              ![p].found = IF reader[p].asked \in Range(e)
                           THEN CHOOSE k \in DOMAIN e : e[k] = reader[p].asked ELSE Torn]
        /\ UNCHANGED <<file, told, solo>>

Answer(p) ==
    /\ reader[p].step = "answer"
    /\ reader' = [reader EXCEPT ![p] = AtRest]
    /\ UNCHANGED <<file, told, solo>>

\* runCacheClear removes the file.
ClearIds(p) ==
    /\ reader[p].step = "rest"
    /\ file' = NoIds /\ told' = {}
    /\ solo' = (Others(p) = {})
    /\ UNCHANGED reader

ReaderDies(p) ==
    /\ reader[p].step # "rest"
    /\ reader' = [reader EXCEPT ![p] = AtRest]
    /\ solo' = FALSE
    /\ UNCHANGED <<file, told>>

IdsNext ==
    \E p \in Reader :
        \/ StartListing(p) \/ StartShow(p) \/ LoadIds(p) \/ GetOrCreate(p) \/ Truncate(p)
        \/ WriteIds(p) \/ PrintRows(p) \/ Resolve(p) \/ Answer(p) \/ ClearIds(p) \/ ReaderDies(p)

IdsSpec == IdsInit /\ [][IdsNext]_idVars

-----------------------------------------------------------------------------
(* Properties *)

IdsTypeOK ==
    /\ file \in Registry \cup {Torn}
    /\ \A p \in Reader : reader[p].entries \in Registry /\ reader[p].rows \subseteq Row
    /\ told \subseteq Id \X Row
    /\ solo \in BOOLEAN

\* One process at a time, an id that was printed leads to what it was printed for, through
\* any number of later listings, until the cache is cleared; and no two rows share one,
\* whatever their hashes have in common.  Not claimed of listings that overlap, die or cannot
\* save: each writes the whole file over with what it loaded and added, without a lock.
AloneIdsStay ==
    /\ \A p \in Reader : IsInjective(reader[p].entries)
    /\ solo => \A p \in Reader : reader[p].step = "answer" => <<reader[p].asked, reader[p].found>> \in told

=============================================================================
