-------------------------- MODULE ReferenceRename --------------------------
(***************************************************************************)
(* `ent rename` and `ref replace` (cmd/ent.go, cmd/ref.go): one entity id is *)
(* replaced in the registry, in the config files (by the companion, in one  *)
(* request) and in every dashboard (by Home Assistant, one save each).      *)
(* There is no transaction around these writes: the command plans first,    *)
(* refuses what it can refuse, and says what it left undone.                *)
(*                                                                          *)
(* One command runs at a time.  Confirmed ones are serialized by the write  *)
(* lock of InstanceWrite; a preview writes nothing.  A source's text is     *)
(* abstracted to its version and to whether it holds the old id.            *)
(***************************************************************************)
EXTENDS Naturals, FiniteSets

CONSTANTS
    File,        \* config files, as the companion walks them
    Dashboard,   \* dashboards Home Assistant lists
    Yaml,        \* those in YAML mode: readable, not savable
    NoDashboard,
    Ops,         \* commands of this instance: "rename", "replace"
    NoCommand,
    MaxEdits     \* bound on edits by others

Source == File \cup Dashboard

ASSUME SourceAssumption ==
    /\ File \cap Dashboard = {}
    /\ Yaml \subseteq Dashboard
    /\ NoDashboard \notin Dashboard
    /\ "registry" \notin Source
    /\ Ops \subseteq {"rename", "replace"}
    /\ MaxEdits \in Nat

Command == [op : Ops, confirm : BOOLEAN, partial : BOOLEAN]
ASSUME CommandAssumption == NoCommand \notin Command

Text == [rev : 0 .. MaxEdits, old : BOOLEAN]

PC == {"idle", "resolve", "count", "update", "plan", "config", "report",
       "save", "overwrite", "exit"}

\* The ways a command ends: those before "refused" exit with status 0.
Result == {"none", "previewed", "notfound", "done", "refused", "partly", "failed"}

VARIABLES
    text,        \* every source as it is stored
    unreadable,  \* sources that cannot be read now
    renamed,     \* the registry has the entity under its new id
    snapshots,   \* backups/dashboards: what was fetched before a save
    edits,       \* edits by others so far
    cmd, pc, result,
    todo,        \* dashboards the walk has still to fetch
    unscanned,   \* dashboards it could not fetch
    base,        \* each dashboard as it was fetched
    skipped,     \* files the companion says it could not read
    found,       \* whether it reports a change in any file
    unsaved,     \* planned dashboards not yet written
    saving,      \* the dashboard being written
    failedSaves, \* whether a save has failed
    wrote,       \* history: what this command has written
    undisturbed, \* history: nobody else has changed anything since it began
    kept,        \* history: the snapshot of saving succeeded, and is current
    previewed    \* history: commands whose preview passed, nothing changed since

world == <<text, unreadable, renamed, snapshots, edits>>
walk == <<todo, unscanned, base>>
saves == <<unsaved, saving, failedSaves>>
control == <<cmd, pc, result>>
history == <<undisturbed, kept, previewed>>
vars == <<world, control, walk, skipped, found, saves, wrote, history>>

Blank == [rev |-> 0, old |-> FALSE]

Init ==
    /\ text \in [Source -> [rev : {0}, old : BOOLEAN]]
    /\ unreadable = {} /\ renamed = FALSE /\ snapshots = {} /\ edits = 0
    /\ cmd = NoCommand /\ pc = "idle" /\ result = "none"
    /\ todo = {} /\ unscanned = {} /\ base = [d \in Dashboard |-> Blank]
    /\ skipped = {} /\ found = FALSE
    /\ unsaved = {} /\ saving = NoDashboard /\ failedSaves = FALSE
    /\ wrote = {}
    /\ undisturbed = TRUE /\ kept = FALSE /\ previewed = {}

-----------------------------------------------------------------------------
Goto(label) == pc' = label /\ UNCHANGED <<cmd, result>>

End(how) == pc' = "exit" /\ result' = how /\ UNCHANGED cmd

\* The command without --confirm: what a preview says of it.
Plan(c) == <<c.op, c.partial>>

Begin(c) ==
    /\ pc = "idle"
    /\ cmd' = c
    /\ pc' = IF c.op = "rename" THEN "resolve" ELSE "plan"
    /\ todo' = Dashboard
    /\ undisturbed' = TRUE
    /\ UNCHANGED <<world, result, unscanned, base, skipped, found, saves, wrote, kept, previewed>>

\* walkDashboardConfigs: one fetch per dashboard; a failed one leaves a gap.
Walk ==
    /\ pc \in {"count", "plan"}
    /\ \E d \in todo :
         /\ todo' = todo \ {d}
         /\ \/ d \in unreadable /\ unscanned' = unscanned \cup {d} /\ UNCHANGED base
            \/ d \notin unreadable /\ base' = [base EXCEPT ![d] = text[d]] /\ UNCHANGED unscanned
    /\ UNCHANGED <<world, control, skipped, found, saves, wrote, history>>

\* The dashboards to rewrite, and those among them that cannot be saved.
Hits == {d \in Dashboard \ unscanned : base[d].old}
Stuck == Hits \cap Yaml

-----------------------------------------------------------------------------
(* runEntRename: the registry's half *)

\* The old id is registered and the new one is free, then the companion's scan.
Resolve ==
    /\ pc = "resolve"
    /\ \/ renamed /\ End("refused") /\ UNCHANGED skipped
       \/ ~renamed /\ Goto("count") /\ skipped' = unreadable \cap File
    /\ UNCHANGED <<world, walk, found, saves, wrote, history>>

Count ==
    /\ pc = "count" /\ todo = {}
    /\ IF unscanned \cup skipped # {} /\ ~cmd.partial THEN End("refused")
       ELSE IF cmd.confirm THEN Goto("update") ELSE End("previewed")
    /\ UNCHANGED <<world, walk, skipped, found, saves, wrote, history>>

\* Home Assistant renames the entry; its answer may be lost.
Update ==
    /\ pc = "update"
    /\ ~renamed
    /\ renamed' = TRUE
    /\ wrote' = wrote \cup {"registry"}
    /\ Goto("plan") \/ End("failed")
    /\ todo' = Dashboard /\ unscanned' = {} /\ skipped' = {}
    /\ UNCHANGED <<text, unreadable, snapshots, edits, base, found, saves, history>>

-----------------------------------------------------------------------------
(* refReplaceWithOptions: the references' half *)

\* Mutant: a reference that cannot be written does not stop the plan.
PlanGate_IgnoresYaml ==
    /\ pc = "plan" /\ todo = {}
    /\ IF unscanned # {} /\ ~cmd.partial THEN End("refused") ELSE Goto("config")
    /\ UNCHANGED <<world, walk, skipped, found, saves, wrote, history>>

PlanGate ==
    /\ pc = "plan" /\ todo = {}
    /\ IF unscanned # {} /\ ~cmd.partial THEN End("refused")
       ELSE IF cmd.confirm /\ Stuck # {} /\ ~cmd.partial THEN End("refused")
       ELSE Goto("config")
    /\ UNCHANGED <<world, walk, skipped, found, saves, wrote, history>>

Cleaned(S) == [s \in Source |-> IF s \in S THEN [text[s] EXCEPT !.old = FALSE] ELSE text[s]]

\* The files the companion (external) can read and finds the old id in.
Matches == {f \in File \ unreadable : text[f].old}

\* Mutant: a preview's request is a write.
Config_NoDryRun ==
    /\ pc = "config"
    /\ text' = Cleaned(Matches)
    /\ wrote' = wrote \cup Matches
    /\ skipped' = unreadable \cap File
    /\ found' = (Matches # {})
    /\ Goto("report")
    /\ UNCHANGED <<unreadable, renamed, snapshots, edits, walk, saves, history>>

Config ==
    /\ pc = "config"
    /\ text' = IF cmd.confirm THEN Cleaned(Matches) ELSE text
    /\ wrote' = IF cmd.confirm THEN wrote \cup Matches ELSE wrote
    /\ skipped' = unreadable \cap File
    /\ found' = (Matches # {})
    /\ Goto("report")
    /\ UNCHANGED <<unreadable, renamed, snapshots, edits, walk, saves, history>>

\* The companion fails, or its answer is lost, some files already rewritten.
ConfigFails ==
    /\ pc = "config"
    /\ \E S \in SUBSET Matches :
         /\ cmd.confirm \/ S = {}
         /\ text' = Cleaned(S)
         /\ wrote' = wrote \cup S
    /\ End("failed")
    /\ UNCHANGED <<unreadable, renamed, snapshots, edits, walk, skipped, found, saves, history>>

\* Mutant: the preview does not refuse what cannot be written.
Report_PreviewsYaml ==
    /\ pc = "report"
    /\ IF skipped # {} /\ ~cmd.partial /\ ~cmd.confirm THEN End("refused")
       ELSE IF ~found /\ Hits = {} THEN End("notfound")
       ELSE IF cmd.confirm THEN Goto("save")
       ELSE End("previewed")
    /\ unsaved' = IF pc' = "save" THEN Hits \ Yaml ELSE {}
    /\ UNCHANGED <<world, walk, skipped, found, saving, failedSaves, wrote, history>>

(* What the answer leaves to do.  A confirmed run no longer refuses: the     *)
(* companion has written.  Nothing to replace ends the command at once.      *)
Report ==
    /\ pc = "report"
    /\ IF skipped # {} /\ ~cmd.partial /\ ~cmd.confirm THEN End("refused")
       ELSE IF ~found /\ Hits = {} THEN End("notfound")
       ELSE IF cmd.confirm THEN Goto("save")
       ELSE IF Stuck # {} /\ ~cmd.partial THEN End("refused")
       ELSE End("previewed")
    /\ unsaved' = IF pc' = "save" THEN Hits \ Yaml ELSE {}
    /\ UNCHANGED <<world, walk, skipped, found, saving, failedSaves, wrote, history>>

\* Mutant: the snapshot is of the plan's own fetch.
Snapshot_OfPlan ==
    /\ pc = "save"
    /\ saving' \in unsaved
    /\ \/ snapshots' = snapshots \cup {<<saving', base[saving']>>} /\ kept' = TRUE
       \/ UNCHANGED snapshots /\ kept' = FALSE
    /\ Goto("overwrite")
    /\ UNCHANGED <<text, unreadable, renamed, edits, walk, skipped, found, unsaved, failedSaves,
                   wrote, undisturbed, previewed>>

\* snapshotDashboardBeforeSave: fetched once more; a failure is only logged.
Snapshot ==
    /\ pc = "save"
    /\ saving' \in unsaved
    /\ \/ /\ saving' \notin unreadable
          /\ snapshots' = snapshots \cup {<<saving', text[saving']>>}
          /\ kept' = TRUE
       \/ UNCHANGED snapshots /\ kept' = FALSE
    /\ Goto("overwrite")
    /\ UNCHANGED <<text, unreadable, renamed, edits, walk, skipped, found, unsaved, failedSaves,
                   wrote, undisturbed, previewed>>

\* What is saved is the document the plan fetched, with the id replaced.
Saved == [text EXCEPT ![saving] = [base[saving] EXCEPT !.old = FALSE]]

\* Mutant: a failed save goes unreported.
Overwrite_Forgets ==
    /\ pc = "overwrite"
    /\ \/ text' = Saved /\ wrote' = wrote \cup {saving}
       \/ UNCHANGED <<text, wrote>>
    /\ unsaved' = unsaved \ {saving}
    /\ saving' = NoDashboard
    /\ Goto("save")
    /\ UNCHANGED <<unreadable, renamed, snapshots, edits, walk, skipped, found, failedSaves, history>>

Overwrite ==
    /\ pc = "overwrite"
    /\ \/ text' = Saved /\ wrote' = wrote \cup {saving} /\ failedSaves' \in {failedSaves, TRUE}
       \/ UNCHANGED <<text, wrote>> /\ failedSaves' = TRUE
    /\ unsaved' = unsaved \ {saving}
    /\ saving' = NoDashboard
    /\ Goto("save")
    /\ UNCHANGED <<unreadable, renamed, snapshots, edits, walk, skipped, found, history>>

Finish ==
    /\ pc = "save" /\ unsaved = {}
    /\ End(IF skipped # {} \/ failedSaves THEN "partly" ELSE "done")
    /\ UNCHANGED <<world, walk, skipped, found, saves, wrote, history>>

\* Every other error return.
Fail ==
    /\ pc \in {"resolve", "count", "update", "plan"}
    /\ End("failed")
    /\ UNCHANGED <<world, walk, skipped, found, saves, wrote, history>>

-----------------------------------------------------------------------------
Passed == ~cmd.confirm /\ undisturbed /\ result \in {"previewed", "notfound"}

\* The command has reported, or its process was killed.
Leave ==
    /\ pc # "idle"
    /\ cmd' = NoCommand /\ pc' = "idle" /\ result' = "none"
    /\ todo' = {} /\ unscanned' = {} /\ base' = [d \in Dashboard |-> Blank]
    /\ skipped' = {} /\ found' = FALSE
    /\ unsaved' = {} /\ saving' = NoDashboard /\ failedSaves' = FALSE
    /\ wrote' = {} /\ kept' = FALSE
    /\ previewed' = IF wrote # {} THEN {}
                    ELSE IF Passed THEN previewed \cup {Plan(cmd)} ELSE previewed
    /\ UNCHANGED <<world, undisturbed>>

(* Others edit a source, rename the entity, break what can be read or        *)
(* repair it.                                                                *)
Edit(s) ==
    /\ edits < MaxEdits
    /\ edits' = edits + 1
    /\ \E b \in BOOLEAN : text' = [text EXCEPT ![s] = [rev |-> edits + 1, old |-> b]]
    /\ kept' = (kept /\ s # saving)
    /\ UNCHANGED <<unreadable, renamed>>

Break(s) ==
    /\ unreadable' = IF s \in unreadable THEN unreadable \ {s} ELSE unreadable \cup {s}
    /\ UNCHANGED <<text, renamed, edits, kept>>

RenameByHand ==
    /\ renamed' = ~renamed
    /\ UNCHANGED <<text, unreadable, edits, kept>>

Others ==
    /\ (\E s \in Source : Edit(s) \/ Break(s)) \/ RenameByHand
    /\ undisturbed' = FALSE
    /\ previewed' = {}
    /\ UNCHANGED <<snapshots, control, walk, skipped, found, saves, wrote>>

Next ==
    \/ \E c \in Command : Begin(c)
    \/ Walk \/ Resolve \/ Count \/ Update
    \/ PlanGate \/ Config \/ ConfigFails \/ Report
    \/ Snapshot \/ Overwrite \/ Finish \/ Fail \/ Leave
    \/ Others

Spec == Init /\ [][Next]_vars

-----------------------------------------------------------------------------
(* Properties *)

TypeOK ==
    /\ text \in [Source -> Text]
    /\ unreadable \subseteq Source
    /\ renamed \in BOOLEAN
    /\ snapshots \subseteq Dashboard \X Text
    /\ edits \in 0 .. MaxEdits
    /\ cmd \in Command \cup {NoCommand} /\ pc \in PC /\ result \in Result
    /\ todo \subseteq Dashboard /\ unscanned \subseteq Dashboard
    /\ base \in [Dashboard -> Text]
    /\ skipped \subseteq File /\ found \in BOOLEAN
    /\ unsaved \subseteq Dashboard /\ saving \in Dashboard \cup {NoDashboard}
    /\ failedSaves \in BOOLEAN
    /\ wrote \subseteq Source \cup {"registry"}
    /\ undisturbed \in BOOLEAN /\ kept \in BOOLEAN
    /\ previewed \subseteq Ops \X BOOLEAN

\* Where a rename with --allow-partial may leave the old id.
Excused == IF cmd.partial THEN unscanned \cup Yaml ELSE {}

(* A rename that reports success left the old id in nothing it could have    *)
(* written, whatever earlier runs of it were cut short (docs/manual.md's     *)
(* "idempotent remediation", refReplaceWithOptions).                         *)
DoneLeavesNoReference ==
    pc = "exit" /\ result = "done" /\ undisturbed =>
        \A s \in Source \ Excused : ~text[s].old

(* A preview and a refusal have rewritten no reference, and a rename whose   *)
(* registry half did not happen has not either (docs/decisions.md D-6 and    *)
(* D-11, "a failed rename leaves every reference untouched").                *)
RefusedBeforeRewriting ==
    /\ pc # "idle" /\ (~cmd.confirm \/ result = "refused") => wrote \subseteq {"registry"}
    /\ pc # "idle" /\ cmd.op = "rename" /\ wrote # {} => "registry" \in wrote

(* A dashboard that is overwritten was snapshotted as it was, edits since    *)
(* the plan included, unless the snapshot failed or somebody wrote after it   *)
(* (snapshotDashboardBeforeSave).                                            *)
OverwrittenIsKept ==
    [][\A d \in Dashboard :
         saving = d /\ pc = "overwrite" /\ pc' = "save" /\ text'[d] # text[d] /\ kept
            => <<d, text[d]>> \in snapshots]_vars

Tells(op) ==
    pc = "exit" /\ result = "refused" /\ cmd.confirm /\ cmd.op = op => Plan(cmd) \notin previewed

(* What the preview of `ref replace` accepted, its confirmed run does not     *)
(* refuse, unless something changed in between (INVARIANTS.md H-2).           *)
PreviewTellsReplace == Tells("replace")

(* The same of `ent rename` (INVARIANTS.md:55).                              *)
PreviewTellsRename == Tells("rename")

-----------------------------------------------------------------------------
(* Why they hold: the parts of the inductive invariant *)

\* The steps behind the plan's gate, and those of the saves.
Gated == {"config", "report", "save", "overwrite"}
Saving == {"save", "overwrite"}

\* What is running, and what it may have written, at each step.
Stage ==
    /\ pc = "idle" => wrote = {} /\ unscanned = {} /\ ~failedSaves
    /\ pc # "idle" => cmd \in Command
    /\ pc # "exit" => result = "none"
    /\ pc = "resolve" => todo = Dashboard
    /\ pc \in {"resolve", "count", "update"} => cmd.op = "rename" /\ wrote = {}
    /\ pc \in {"update"} \cup Saving => cmd.confirm
    /\ pc \in {"plan"} \cup Gated /\ cmd.op = "rename" => cmd.confirm /\ "registry" \in wrote
    /\ pc \in {"plan", "config"} => wrote \subseteq {"registry"}
    /\ pc # "idle" /\ ~cmd.confirm => wrote = {}

\* What the plan's walk has read is what is stored.
Fetched ==
    undisturbed /\ pc \in {"count", "plan", "config", "report"} =>
        \A d \in Dashboard \ (todo \cup unscanned) : d \notin unreadable /\ base[d] = text[d]

\* What the gate let through.
Admitted ==
    /\ pc \in Gated => todo = {}
    /\ pc \in Gated /\ ~cmd.partial => unscanned = {} /\ (cmd.confirm => Stuck = {})
    /\ ~failedSaves \/ pc \in Saving \cup {"exit"}

\* How far the confirmed rewrite has got.
Rewriting ==
    /\ pc \in {"report"} \cup Saving /\ cmd.confirm /\ undisturbed =>
         \A f \in File \ skipped : ~text[f].old
    /\ pc \in Saving => unsaved \subseteq Hits \ Yaml
    /\ pc = "overwrite" => saving \in unsaved
    /\ pc \in Saving /\ undisturbed => \A d \in Dashboard \ unscanned :
         /\ base[d] = text[d] \/ ~text[d].old
         /\ d \in Hits \ Yaml /\ d \notin unsaved /\ ~failedSaves => ~text[d].old

Snapshotted == pc = "overwrite" /\ kept => <<saving, text[saving]>> \in snapshots

\* What a preview of `ref replace` without --allow-partial has seen.
Clear == unreadable \cap Dashboard = {} /\ \A y \in Yaml : ~text[y].old

Previews ==
    /\ pc = "exit" /\ Passed /\ Plan(cmd) = <<"replace", FALSE>> => Clear
    /\ <<"replace", FALSE>> \in previewed =>
         Clear /\ unscanned = {} /\ \A y \in Yaml : ~base[y].old
    /\ PreviewTellsReplace

\* The inductive invariant of ReferenceRename_proofs (refReplaceWithOptions).
RInv ==
    /\ TypeOK /\ Stage /\ Fetched /\ Admitted /\ Rewriting /\ Snapshotted /\ Previews
    /\ DoneLeavesNoReference /\ RefusedBeforeRewriting

=============================================================================
