---------------------- MODULE ReferenceRename_proofs -----------------------
(***************************************************************************)
(* That a rename's reports and previews are true for every number of files   *)
(* and dashboards.  RInv is inductive; each action has a lemma, with one step *)
(* per conjunct.  The conjuncts that speak of what is stored (Fetched,       *)
(* Rewriting, Previews) hold while nobody else changes anything, the others  *)
(* whatever others do.                                                       *)
(***************************************************************************)
EXTENDS ReferenceRename, TLAPS

USE SourceAssumption, CommandAssumption
USE DEF world, walk, saves, control, history, Goto, End

(* Replacing the old id in a text keeps its version (jsonwalk.Replace). *)
LEMMA Replaced ==
    ASSUME NEW t \in Text
    PROVE  /\ [t EXCEPT !.old = FALSE] \in Text
           /\ ~[t EXCEPT !.old = FALSE].old
  BY DEF Text

(* What the companion leaves of the sources when it rewrites S. *)
LEMMA CleanedTexts ==
    ASSUME TypeOK, NEW S
    PROVE  /\ Cleaned(S) \in [Source -> Text]
           /\ \A s \in S \cap Source : ~Cleaned(S)[s].old
           /\ \A s \in Source \ S : Cleaned(S)[s] = text[s]
  <1>1. \A s \in Source : text[s] \in Text
    BY DEF TypeOK
  <1> QED
    BY <1>1, Replaced DEF Cleaned

(* What a save leaves of them. *)
LEMMA SavedTexts ==
    ASSUME TypeOK, saving \in Dashboard
    PROVE  /\ Saved \in [Source -> Text]
           /\ ~Saved[saving].old
           /\ \A s \in Source \ {saving} : Saved[s] = text[s]
  <1>1. base[saving] \in Text
    BY DEF TypeOK
  <1> QED
    BY <1>1, Replaced DEF TypeOK, Saved, Source

(* A command starts with nothing fetched, planned or written. *)
LEMMA BeginStep == ASSUME RInv, NEW c \in Command, Begin(c) PROVE RInv'
  <1> USE DEF RInv, Begin
  <1>1. TypeOK'
    BY DEF TypeOK, PC
  <1>2. Stage'
    BY DEF Stage, Gated, Saving
  <1>3. Fetched'
    BY DEF Fetched
  <1>4. Admitted'
    BY DEF Admitted, Gated, Saving
  <1>5. Rewriting'
    BY DEF Rewriting, Saving
  <1>6. Snapshotted'
    BY DEF Snapshotted
  <1>7. Previews'
    BY DEF Previews, PreviewTellsReplace, Tells, Clear
  <1>8. DoneLeavesNoReference'
    BY DEF DoneLeavesNoReference
  <1>9. RefusedBeforeRewriting'
    BY DEF Stage, RefusedBeforeRewriting
  <1> QED
    BY <1>1, <1>2, <1>3, <1>4, <1>5, <1>6, <1>7, <1>8, <1>9

(* One more dashboard is fetched, as it is stored, or left unscanned. *)
LEMMA WalkStep == RInv /\ Walk => RInv'
  <1> SUFFICES ASSUME RInv, Walk PROVE RInv'
    OBVIOUS
  <1> USE DEF RInv, Walk
  <1>1. TypeOK'
    BY DEF TypeOK, Source
  <1>2. Stage'
    BY DEF Stage
  <1>3. Fetched'
    BY DEF TypeOK, Fetched
  <1>4. Admitted'
    BY DEF Admitted
  <1>5. Rewriting'
    BY DEF Rewriting, Saving
  <1>6. Snapshotted'
    BY DEF Snapshotted
  <1>7. Previews'
    BY DEF TypeOK, Previews, PreviewTellsReplace, Tells, Clear
  <1>8. DoneLeavesNoReference'
    BY DEF DoneLeavesNoReference
  <1>9. RefusedBeforeRewriting'
    BY DEF RefusedBeforeRewriting
  <1> QED
    BY <1>1, <1>2, <1>3, <1>4, <1>5, <1>6, <1>7, <1>8, <1>9

(* The registry is asked; nothing is written. *)
LEMMA ResolveStep == RInv /\ Resolve => RInv'
  <1> SUFFICES ASSUME RInv, Resolve PROVE RInv'
    OBVIOUS
  <1> USE DEF RInv, Resolve
  <1>1. TypeOK'
    BY DEF TypeOK, PC, Result
  <1>2. Stage'
    BY DEF Stage, Gated, Saving
  <1>3. Fetched'
    BY DEF Stage, Fetched
  <1>4. Admitted'
    BY DEF Admitted, Gated, Saving
  <1>5. Rewriting'
    BY DEF Rewriting, Saving
  <1>6. Snapshotted'
    BY DEF Snapshotted
  <1>7. Previews'
    BY DEF Stage, Previews, PreviewTellsReplace, Tells, Clear, Plan
  <1>8. DoneLeavesNoReference'
    BY DEF DoneLeavesNoReference
  <1>9. RefusedBeforeRewriting'
    BY DEF Stage, RefusedBeforeRewriting
  <1> QED
    BY <1>1, <1>2, <1>3, <1>4, <1>5, <1>6, <1>7, <1>8, <1>9

(* A scan with gaps is refused before the registry is touched. *)
LEMMA CountStep == RInv /\ Count => RInv'
  <1> SUFFICES ASSUME RInv, Count PROVE RInv'
    OBVIOUS
  <1> USE DEF RInv, Count
  <1>1. TypeOK'
    BY DEF TypeOK, PC, Result
  <1>2. Stage'
    BY DEF Stage, Gated, Saving
  <1>3. Fetched'
    BY DEF Fetched
  <1>4. Admitted'
    BY DEF Admitted, Gated, Saving
  <1>5. Rewriting'
    BY DEF Rewriting, Saving
  <1>6. Snapshotted'
    BY DEF Snapshotted
  <1>7. Previews'
    BY DEF Stage, Previews, PreviewTellsReplace, Tells, Clear, Plan
  <1>8. DoneLeavesNoReference'
    BY DEF DoneLeavesNoReference
  <1>9. RefusedBeforeRewriting'
    BY DEF Stage, RefusedBeforeRewriting
  <1> QED
    BY <1>1, <1>2, <1>3, <1>4, <1>5, <1>6, <1>7, <1>8, <1>9

(* The registry entry is the first thing a rename writes. *)
LEMMA UpdateStep == RInv /\ Update => RInv'
  <1> SUFFICES ASSUME RInv, Update PROVE RInv'
    OBVIOUS
  <1> USE DEF RInv, Update
  <1>1. TypeOK'
    BY DEF TypeOK, PC, Result
  <1>2. Stage'
    BY DEF Stage
  <1>3. Fetched'
    BY DEF Fetched
  <1>4. Admitted'
    BY DEF Admitted, Gated, Saving
  <1>5. Rewriting'
    BY DEF Rewriting, Saving
  <1>6. Snapshotted'
    BY DEF Snapshotted
  <1>7. Previews'
    BY DEF Previews, PreviewTellsReplace, Tells, Clear, Passed
  <1>8. DoneLeavesNoReference'
    BY DEF DoneLeavesNoReference
  <1>9. RefusedBeforeRewriting'
    BY DEF RefusedBeforeRewriting
  <1> QED
    BY <1>1, <1>2, <1>3, <1>4, <1>5, <1>6, <1>7, <1>8, <1>9

(* What passes the plan's gate has no gap and no unsavable hit, or may. *)
LEMMA PlanGateStep == RInv /\ PlanGate => RInv'
  <1> SUFFICES ASSUME RInv, PlanGate PROVE RInv'
    OBVIOUS
  <1> USE DEF RInv, PlanGate
  <1>1. TypeOK'
    BY DEF TypeOK, PC, Result
  <1>2. Stage'
    BY DEF Stage, Saving
  <1>3. Fetched'
    BY DEF Fetched
  <1>4. Admitted'
    BY DEF Admitted, Gated, Saving, Hits, Stuck
  <1>5. Rewriting'
    BY DEF Rewriting, Saving
  <1>6. Snapshotted'
    BY DEF Snapshotted
  <1>7. Previews'
    BY DEF Stage, Previews, PreviewTellsReplace, Tells, Clear, Passed, Plan, Hits, Stuck, Command
  <1>8. DoneLeavesNoReference'
    BY DEF DoneLeavesNoReference
  <1>9. RefusedBeforeRewriting'
    BY DEF Stage, RefusedBeforeRewriting
  <1> QED
    BY <1>1, <1>2, <1>3, <1>4, <1>5, <1>6, <1>7, <1>8, <1>9

(* An answered request has rewritten every file it could read, or none. *)
LEMMA ConfigStep == RInv /\ Config => RInv'
  <1> SUFFICES ASSUME RInv, Config PROVE RInv'
    OBVIOUS
  <1> USE DEF RInv, Config, Matches
  <1>1. TypeOK'
    <2>1. text' \in [Source -> Text]
      BY CleanedTexts DEF TypeOK
    <2> QED
      BY <2>1 DEF TypeOK, PC, Source
  <1>2. Stage'
    BY DEF Stage, Gated, Saving
  <1>3. Fetched'
    BY CleanedTexts DEF Fetched, Source
  <1>4. Admitted'
    BY DEF Admitted, Gated, Saving, Hits, Stuck
  <1>5. Rewriting'
    BY CleanedTexts DEF Rewriting, Saving, Source
  <1>6. Snapshotted'
    BY DEF Snapshotted
  <1>7. Previews'
    BY CleanedTexts DEF Previews, PreviewTellsReplace, Tells, Clear, Source
  <1>8. DoneLeavesNoReference'
    BY CleanedTexts DEF DoneLeavesNoReference
  <1>9. RefusedBeforeRewriting'
    BY DEF Stage, RefusedBeforeRewriting, Gated
  <1> QED
    BY <1>1, <1>2, <1>3, <1>4, <1>5, <1>6, <1>7, <1>8, <1>9

(* A failed request may have rewritten some files, and ends the command. *)
LEMMA ConfigFailsStep == RInv /\ ConfigFails => RInv'
  <1> SUFFICES ASSUME RInv, ConfigFails PROVE RInv'
    OBVIOUS
  <1> USE DEF RInv, ConfigFails, Matches
  <1>1. TypeOK'
    <2>1. text' \in [Source -> Text]
      BY CleanedTexts
    <2> QED
      BY <2>1 DEF TypeOK, PC, Result, Source
  <1>2. Stage'
    BY DEF Stage, Gated, Saving
  <1>3. Fetched'
    BY CleanedTexts DEF Fetched
  <1>4. Admitted'
    BY DEF Admitted, Gated
  <1>5. Rewriting'
    BY CleanedTexts DEF Rewriting, Saving
  <1>6. Snapshotted'
    BY DEF Snapshotted
  <1>7. Previews'
    BY CleanedTexts DEF Previews, PreviewTellsReplace, Tells, Clear, Passed, Source
  <1>8. DoneLeavesNoReference'
    BY CleanedTexts DEF DoneLeavesNoReference
  <1>9. RefusedBeforeRewriting'
    BY DEF Stage, RefusedBeforeRewriting, Gated
  <1> QED
    BY <1>1, <1>2, <1>3, <1>4, <1>5, <1>6, <1>7, <1>8, <1>9

(* Only a preview is still refused; a confirmed run goes on to its saves. *)
LEMMA ReportStep == RInv /\ Report => RInv'
  <1> SUFFICES ASSUME RInv, Report PROVE RInv'
    OBVIOUS
  <1> USE DEF RInv, Report
  <1>1. TypeOK'
    BY DEF TypeOK, PC, Result, Hits
  <1>2. Stage'
    BY DEF Stage, Gated, Saving
  <1>3. Fetched'
    BY DEF Fetched
  <1>4. Admitted'
    BY DEF Admitted, Gated, Saving, Hits, Stuck
  <1>5. Rewriting'
    BY DEF Fetched, Admitted, Rewriting, Gated, Saving, Hits
  <1>6. Snapshotted'
    BY DEF Snapshotted
  <1>7. Previews'
    BY DEF Fetched, Admitted, Previews, PreviewTellsReplace, Tells, Clear, Passed, Plan, Gated, Hits, Stuck
  <1>8. DoneLeavesNoReference'
    BY DEF DoneLeavesNoReference
  <1>9. RefusedBeforeRewriting'
    BY DEF RefusedBeforeRewriting
  <1> QED
    BY <1>1, <1>2, <1>3, <1>4, <1>5, <1>6, <1>7, <1>8, <1>9

(* The snapshot holds what is stored now; the planned saves stand. *)
LEMMA SnapshotStep == RInv /\ Snapshot => RInv'
  <1> SUFFICES ASSUME RInv, Snapshot PROVE RInv'
    OBVIOUS
  <1> USE DEF RInv, Snapshot
  <1>1. TypeOK'
    <2>1. snapshots' \subseteq Dashboard \X Text /\ saving' \in Dashboard
      BY DEF TypeOK, Source
    <2> QED
      BY <2>1 DEF TypeOK, PC
  <1>2. Stage'
    BY DEF Stage, Gated, Saving
  <1>3. Fetched'
    BY DEF Fetched
  <1>4. Admitted'
    BY DEF Admitted, Gated, Saving, Hits, Stuck
  <1>5. Rewriting'
    BY DEF Rewriting, Saving, Hits
  <1>6. Snapshotted'
    BY DEF Snapshotted
  <1>7. Previews'
    BY DEF Previews, PreviewTellsReplace, Tells, Clear
  <1>8. DoneLeavesNoReference'
    BY DEF DoneLeavesNoReference
  <1>9. RefusedBeforeRewriting'
    BY DEF RefusedBeforeRewriting
  <1> QED
    BY <1>1, <1>2, <1>3, <1>4, <1>5, <1>6, <1>7, <1>8, <1>9

(* A save clears its dashboard, or is remembered as failed. *)
LEMMA OverwriteStep == RInv /\ Overwrite => RInv'
  <1> SUFFICES ASSUME RInv, Overwrite PROVE RInv'
    OBVIOUS
  <1> USE DEF RInv, Overwrite
  <1>1. TypeOK'
    <2>1. text' \in [Source -> Text]
      BY SavedTexts DEF TypeOK, Rewriting
    <2>2. wrote' \subseteq Source \cup {"registry"}
      BY DEF TypeOK, Rewriting, Source
    <2> QED
      BY <2>1, <2>2 DEF TypeOK, PC
  <1>2. Stage'
    BY DEF Stage, Gated, Saving
  <1>3. Fetched'
    BY SavedTexts DEF Fetched
  <1>4. Admitted'
    BY DEF Admitted, Gated, Saving, Hits, Stuck
  <1>5. Rewriting'
    <2>1. saving \in Hits \ Yaml /\ saving \in Dashboard
      BY DEF TypeOK, Rewriting, Saving
    <2>2. \A s \in Source \ {saving} : text'[s] = text[s]
      BY <2>1, SavedTexts
    <2>3. text'[saving] = text[saving] \/ ~text'[saving].old
      BY <2>1, SavedTexts
    <2>4. text'[saving] = text[saving] => failedSaves' \/ ~text'[saving].old
      BY <2>1, SavedTexts
    <2>5. Hits' = Hits
      BY DEF Hits
    <2>6. pc' = "save" /\ unsaved' \subseteq Hits \ Yaml
      BY DEF Rewriting, Saving
    <2>7. ASSUME cmd.confirm, undisturbed, NEW f \in File \ skipped
          PROVE  ~text'[f].old
      BY <2>1, <2>2, <2>7 DEF Rewriting, Saving, Source
    <2>8. ASSUME undisturbed, NEW d \in Dashboard \ unscanned
          PROVE  /\ base[d] = text'[d] \/ ~text'[d].old
                 /\ d \in Hits \ Yaml /\ d \notin unsaved' /\ ~failedSaves' => ~text'[d].old
      <3>1. CASE d = saving
        BY <2>1, <2>3, <2>4, <2>8, <3>1 DEF Rewriting, Saving
      <3>2. CASE d # saving
        <4>1. text'[d] = text[d] /\ (d \notin unsaved' => d \notin unsaved)
          BY <2>2, <3>2 DEF Source
        <4>2. ~failedSaves' => ~failedSaves
          OBVIOUS
        <4>3. /\ base[d] = text[d] \/ ~text[d].old
              /\ d \in Hits \ Yaml /\ d \notin unsaved /\ ~failedSaves => ~text[d].old
          BY <2>8 DEF Rewriting, Saving
        <4> QED
          BY <4>1, <4>2, <4>3
      <3> QED
        BY <3>1, <3>2
    <2> QED
      BY <2>5, <2>6, <2>7, <2>8 DEF Rewriting
  <1>6. Snapshotted'
    BY DEF Snapshotted
  <1>7. Previews'
    BY SavedTexts DEF Rewriting, Previews, PreviewTellsReplace, Tells, Clear, Saving, Hits, Source
  <1>8. DoneLeavesNoReference'
    BY SavedTexts DEF DoneLeavesNoReference
  <1>9. RefusedBeforeRewriting'
    BY DEF Stage, RefusedBeforeRewriting, Gated, Saving
  <1> QED
    BY <1>1, <1>2, <1>3, <1>4, <1>5, <1>6, <1>7, <1>8, <1>9

(* Success is claimed when no save failed and no file was skipped. *)
LEMMA FinishStep == RInv /\ Finish => RInv'
  <1> SUFFICES ASSUME RInv, Finish PROVE RInv'
    OBVIOUS
  <1> USE DEF RInv, Finish
  <1>1. TypeOK'
    BY DEF TypeOK, PC, Result
  <1>2. Stage'
    BY DEF Stage, Gated, Saving
  <1>3. Fetched'
    BY DEF Fetched
  <1>4. Admitted'
    BY DEF Admitted, Gated
  <1>5. Rewriting'
    BY DEF Rewriting, Saving
  <1>6. Snapshotted'
    BY DEF Snapshotted
  <1>7. Previews'
    BY DEF Previews, PreviewTellsReplace, Tells, Clear, Passed
  <1>8. DoneLeavesNoReference'
    BY DEF Stage, Admitted, Rewriting, DoneLeavesNoReference, Excused, Gated, Saving, Hits, Stuck, Source
  <1>9. RefusedBeforeRewriting'
    BY DEF RefusedBeforeRewriting
  <1> QED
    BY <1>1, <1>2, <1>3, <1>4, <1>5, <1>6, <1>7, <1>8, <1>9

(* An error return before the gate has written at most the registry. *)
LEMMA FailStep == RInv /\ Fail => RInv'
  <1> SUFFICES ASSUME RInv, Fail PROVE RInv'
    OBVIOUS
  <1> USE DEF RInv, Fail
  <1>1. TypeOK'
    BY DEF TypeOK, PC, Result
  <1>2. Stage'
    BY DEF Stage, Gated, Saving
  <1>3. Fetched'
    BY DEF Fetched
  <1>4. Admitted'
    BY DEF Admitted, Gated
  <1>5. Rewriting'
    BY DEF Rewriting, Saving
  <1>6. Snapshotted'
    BY DEF Snapshotted
  <1>7. Previews'
    BY DEF Previews, PreviewTellsReplace, Tells, Clear, Passed
  <1>8. DoneLeavesNoReference'
    BY DEF DoneLeavesNoReference
  <1>9. RefusedBeforeRewriting'
    BY DEF RefusedBeforeRewriting
  <1> QED
    BY <1>1, <1>2, <1>3, <1>4, <1>5, <1>6, <1>7, <1>8, <1>9

(* A preview that passed is remembered if nothing has changed since. *)
LEMMA LeaveStep == RInv /\ Leave => RInv'
  <1> SUFFICES ASSUME RInv, Leave PROVE RInv'
    OBVIOUS
  <1> USE DEF RInv, Leave
  <1>1. TypeOK'
    <2>1. Blank \in Text
      BY DEF Blank, Text
    <2>2. previewed' \subseteq Ops \X BOOLEAN
      BY DEF TypeOK, Stage, Plan, Command
    <2> QED
      BY <2>1, <2>2 DEF TypeOK, PC, Result
  <1>2. Stage'
    BY DEF Stage, Gated, Saving
  <1>3. Fetched'
    BY DEF Fetched
  <1>4. Admitted'
    BY DEF Admitted, Gated
  <1>5. Rewriting'
    BY DEF Rewriting, Saving
  <1>6. Snapshotted'
    BY DEF Snapshotted
  <1>7. Previews'
    <2>1. PreviewTellsReplace' /\ pc' # "exit"
      BY DEF PreviewTellsReplace, Tells
    <2>2. Clear' = Clear /\ \A y \in Yaml : ~base'[y].old
      BY DEF Clear, Blank
    <2>3. ASSUME <<"replace", FALSE>> \in previewed' PROVE Clear
      <3>1. CASE <<"replace", FALSE>> \in previewed
        BY <3>1 DEF Previews
      <3>2. CASE <<"replace", FALSE>> \notin previewed
        <4>1. Passed /\ Plan(cmd) = <<"replace", FALSE>>
          BY <2>3, <3>2
        <4>2. pc = "exit"
          BY <4>1 DEF Passed, Stage
        <4> QED
          BY <4>1, <4>2 DEF Previews
      <3> QED
        BY <3>1, <3>2
    <2> QED
      BY <2>1, <2>2, <2>3 DEF Previews
  <1>8. DoneLeavesNoReference'
    BY DEF DoneLeavesNoReference
  <1>9. RefusedBeforeRewriting'
    BY DEF RefusedBeforeRewriting
  <1> QED
    BY <1>1, <1>2, <1>3, <1>4, <1>5, <1>6, <1>7, <1>8, <1>9

(* What others change ends every claim about an undisturbed run. *)
LEMMA OthersStep == RInv /\ Others => RInv'
  <1> SUFFICES ASSUME RInv, Others PROVE RInv'
    OBVIOUS
  <1> USE DEF RInv, Others
  <1>1. TypeOK'
    <2>1. CASE \E s \in Source : Edit(s)
      <3>1. PICK s \in Source : Edit(s)
        BY <2>1
      <3>2. text' \in [Source -> Text] /\ edits' \in 0 .. MaxEdits
        BY <3>1 DEF Edit, TypeOK, Text
      <3>3. kept' \in BOOLEAN
        BY <3>1 DEF Edit
      <3> QED
        BY <3>1, <3>2, <3>3 DEF Edit, TypeOK
    <2>2. CASE \E s \in Source : Break(s)
      BY <2>2 DEF TypeOK, Break
    <2>3. CASE RenameByHand
      BY <2>3 DEF TypeOK, RenameByHand
    <2> QED
      BY <2>1, <2>2, <2>3
  <1>2. Stage'
    BY DEF Stage
  <1>3. Fetched'
    BY DEF Fetched
  <1>4. Admitted'
    BY DEF Admitted, Hits, Stuck
  <1>5. Rewriting'
    BY DEF Rewriting, Hits
  <1>6. Snapshotted'
    BY DEF TypeOK, Snapshotted, Source, Edit, Break, RenameByHand
  <1>7. Previews'
    BY DEF Previews, PreviewTellsReplace, Tells, Passed
  <1>8. DoneLeavesNoReference'
    BY DEF DoneLeavesNoReference
  <1>9. RefusedBeforeRewriting'
    BY DEF RefusedBeforeRewriting
  <1> QED
    BY <1>1, <1>2, <1>3, <1>4, <1>5, <1>6, <1>7, <1>8, <1>9

(* The program starts in the invariant. *)
LEMMA Initially == Init => RInv
  <1> SUFFICES ASSUME Init PROVE RInv
    OBVIOUS
  <1> USE DEF Init
  <1>1. text \in [Source -> Text] /\ Blank \in Text
    BY DEF Text, Blank
  <1>2. TypeOK
    <2>1. base \in [Dashboard -> Text] /\ edits \in 0 .. MaxEdits
      BY <1>1
    <2> QED
      BY <1>1, <2>1 DEF TypeOK, PC, Result
  <1>3. Stage /\ Fetched /\ Admitted /\ Rewriting /\ Snapshotted
    BY DEF Stage, Fetched, Admitted, Rewriting, Snapshotted, Gated, Saving
  <1>4. Previews /\ DoneLeavesNoReference /\ RefusedBeforeRewriting
    BY DEF Previews, PreviewTellsReplace, Tells, DoneLeavesNoReference, RefusedBeforeRewriting
  <1> QED
    BY <1>2, <1>3, <1>4 DEF RInv

(* Every step keeps it. *)
LEMMA Inductive == RInv /\ [Next]_vars => RInv'
  <1> SUFFICES ASSUME RInv, [Next]_vars PROVE RInv'
    OBVIOUS
  <1>1. ASSUME NEW c \in Command, Begin(c) PROVE RInv'
    BY <1>1, BeginStep
  <1>2. CASE Walk \/ Resolve \/ Count \/ Update
    BY <1>2, WalkStep, ResolveStep, CountStep, UpdateStep
  <1>3. CASE PlanGate \/ Config \/ ConfigFails \/ Report
    BY <1>3, PlanGateStep, ConfigStep, ConfigFailsStep, ReportStep
  <1>4. CASE Snapshot \/ Overwrite \/ Finish \/ Fail
    BY <1>4, SnapshotStep, OverwriteStep, FinishStep, FailStep
  <1>5. CASE Leave \/ Others
    BY <1>5, LeaveStep, OthersStep
  <1>6. CASE UNCHANGED vars
    <2> USE <1>6 DEF vars, history, RInv
    <2>1. TypeOK' /\ Stage' /\ Fetched'
      BY DEF TypeOK, Stage, Fetched
    <2>2. Hits' = Hits /\ Stuck' = Stuck /\ Excused' = Excused /\ Passed' = Passed
      BY DEF Hits, Stuck, Excused, Passed
    <2>3. Admitted' /\ Rewriting' /\ Snapshotted'
      BY <2>2 DEF Admitted, Rewriting, Snapshotted
    <2>4. Previews'
      BY <2>2 DEF Previews, PreviewTellsReplace, Tells, Clear
    <2>5. DoneLeavesNoReference' /\ RefusedBeforeRewriting'
      BY <2>2 DEF DoneLeavesNoReference, RefusedBeforeRewriting
    <2> QED
      BY <2>1, <2>3, <2>4, <2>5
  <1> QED
    BY <1>1, <1>2, <1>3, <1>4, <1>5, <1>6 DEF Next

(* In every reachable state the parts of RInv hold together: each stage of   *)
(* runEntRename and refReplaceWithOptions relies on what the last one left.  *)
THEOREM RenameInvariance == Spec => []RInv
  BY Initially, Inductive, PTL DEF Spec

(* Success means that nothing hactl could write still holds the old id, also *)
(* when earlier runs were killed or failed half-way (refReplaceWithOptions).  *)
THEOREM SuccessIsComplete == Spec => []DoneLeavesNoReference
  <1>1. RInv => DoneLeavesNoReference
    BY DEF RInv
  <1> QED
    BY <1>1, RenameInvariance, PTL

(* A refusal comes before the first reference is rewritten, and so does the   *)
(* registry's half (the gates of refReplaceWithOptions and runEntRename).     *)
THEOREM RefusalIsEarly == Spec => []RefusedBeforeRewriting
  <1>1. RInv => RefusedBeforeRewriting
    BY DEF RInv
  <1> QED
    BY <1>1, RenameInvariance, PTL

(* The preview of `ref replace` refuses what its confirmed run refuses        *)
(* (INVARIANTS.md H-2).                                                       *)
THEOREM PreviewIsHonest == Spec => []PreviewTellsReplace
  <1>1. RInv => PreviewTellsReplace
    BY DEF RInv, Previews
  <1> QED
    BY <1>1, RenameInvariance, PTL

(* The version a save replaces is in its snapshot (snapshotDashboardBeforeSave). *)
THEOREM NothingOverwrittenUnseen == Spec => OverwrittenIsKept
  <1>1. RInv /\ [Next]_vars =>
          [\A d \in Dashboard :
             saving = d /\ pc = "overwrite" /\ pc' = "save" /\ text'[d] # text[d] /\ kept
                => <<d, text[d]>> \in snapshots]_vars
    BY DEF RInv, Snapshotted
  <1> QED
    BY <1>1, RenameInvariance, PTL DEF Spec, OverwrittenIsKept

=============================================================================
