-------------------------- MODULE DefinitionDelete --------------------------
(***************************************************************************)
(* Helpers, templates and scripts as definitions the companion keeps and      *)
(* entities Home Assistant registers (cmd/helper.go, cmd/tpl.go, cmd/orphan.go,*)
(* companion_reload.go): a creation, and a deletion with its clean-up, against *)
(* lost answers, retries and other clients.                                   *)
(***************************************************************************)
EXTENDS FiniteSets, Naturals

CONSTANTS
    Def,       \* definitions: a domain and a slug, or a template's unique id
    Slug,      \* what the commands address
    SlugOf,    \* two helpers of different domains may share one
    Template,  \* the definitions that are templates
    MaxSend    \* attempts at one request

ASSUME DefinitionAssumption ==
    /\ SlugOf \in [Def -> Slug] /\ Slug # {}
    /\ Template \subseteq Def
    /\ MaxSend \in Nat \ {0}

\* A storage-backed helper was made in Home Assistant's own editor.
Kept == {"absent", "yaml", "storage"}
DefCommand == [name : {"create", "delete"}, of : {"helper", "template"}, slug : Slug,
               confirm : BOOLEAN]

VARIABLES
    kept,       \* the companion: how each definition is kept
    wired,      \* definitions whose file Home Assistant reads
    registered, \* the entity registry
    dstep, dcommand,
    remote,     \* the definition the command resolved
    orphans,    \* what to clean up
    sent,       \* attempts at the write made so far
    verdict,
    missed,     \* history: the registry could not be read, or not cleaned up
    alone       \* history: no other client has changed anything since the command began

defHA == <<kept, wired, registered>>
defHistory == <<missed, alone>>
defVars == <<defHA, dstep, dcommand, remote, orphans, sent, verdict, defHistory>>

Named(c) == {d \in Def : SlugOf[d] = c.slug /\ (d \in Template <=> c.of = "template")}
Exists(d) == kept[d] # "absent"

\* An entity without a definition is a ghost of an earlier deletion.
DefInit ==
    /\ kept \in [Def -> Kept] /\ \A d \in Template : kept[d] # "storage"
    /\ wired \in SUBSET Def
    /\ registered \in SUBSET Def
    /\ dstep = "idle"
    /\ dcommand = CHOOSE c \in DefCommand : TRUE
    /\ remote = {} /\ orphans = {} /\ sent = 0 /\ verdict = "none"
    /\ missed = FALSE /\ alone = TRUE

-----------------------------------------------------------------------------
DefEnds(what) == dstep' = "ended" /\ verdict' = what
DefGoes(next) == dstep' = next /\ UNCHANGED verdict

Begin ==
    /\ dstep \in {"idle", "ended"}
    /\ dcommand' \in DefCommand
    /\ dstep' = IF dcommand'.name = "delete" THEN "resolve" ELSE "wiring"
    /\ remote' = {} /\ orphans' = {} /\ sent' = 0 /\ verdict' = "none"
    /\ missed' = FALSE /\ alone' = TRUE
    /\ UNCHANGED defHA

\* A request that fails ends the command: no companion, no answer, no config.
Breaks ==
    /\ dstep \in {"resolve", "wiring"}
    /\ DefEnds("failed")
    /\ UNCHANGED <<defHA, dcommand, remote, orphans, sent, defHistory>>

\* What is created is one of those the slug can name: its domain is an argument.  The
\* preview asks whether Home Assistant reads the domain's file, the companion asks again.
CreateHelper ==
    /\ dstep = "wiring" /\ dcommand.of = "helper"
    /\ \E d \in Named(dcommand) :
          /\ remote' = {d}
          /\ IF dcommand.confirm THEN DefGoes("write")
             ELSE DefEnds(IF d \in wired THEN "planned" ELSE "refused")
    /\ UNCHANGED <<defHA, dcommand, orphans, sent, defHistory>>

\* A template's file is not asked about.
CreateTemplate ==
    /\ dstep = "wiring" /\ dcommand.of = "template"
    /\ remote' \in {{d} : d \in Named(dcommand)}
    /\ IF dcommand.confirm THEN DefGoes("write") ELSE DefEnds("planned")
    /\ UNCHANGED <<defHA, dcommand, orphans, sent, defHistory>>

Existing == {d \in Named(dcommand) : Exists(d)}

NotFound ==
    /\ dstep = "resolve" /\ Existing = {}
    /\ DefEnds("not found")
    /\ UNCHANGED <<defHA, dcommand, remote, orphans, sent, defHistory>>

\* GetHelper: the first match of several; a storage-backed one has nothing to delete.
DeleteHelper ==
    /\ dstep = "resolve" /\ dcommand.of = "helper"
    /\ \E d \in Existing :
          /\ remote' = {d}
          /\ IF kept[d] = "storage" THEN DefEnds("refused")
             ELSE IF dcommand.confirm THEN DefGoes("orphans")
             ELSE DefEnds("planned")
    /\ UNCHANGED <<defHA, dcommand, orphans, sent, defHistory>>

\* Its entities are part of the preview.
DeleteTemplate ==
    /\ dstep = "resolve" /\ dcommand.of = "template"
    /\ remote' \in {{d} : d \in Existing}
    /\ DefGoes("orphans")
    /\ UNCHANGED <<defHA, dcommand, orphans, sent, defHistory>>

\* Mutant: the clean-up reached the templates and not the helpers.
TemplatesOnly ==
    /\ dstep = "orphans"
    /\ \/ orphans' = remote \cap registered \cap Template /\ UNCHANGED missed
       \/ orphans' = {} /\ missed' = TRUE
    /\ IF dcommand.confirm THEN DefGoes("write") ELSE DefEnds("planned")
    /\ UNCHANGED <<defHA, dcommand, remote, sent, alone>>

\* registeredEntityID, templateEntityIDs: before the deletion, afterwards the entity could
\* as well be an older ghost.  A registry that cannot be read has nothing to clean up.  One
\* entity stands for those of a template, which are removed one after the other.
ReadOrphans ==
    /\ dstep = "orphans"
    /\ \/ orphans' = remote \cap registered /\ UNCHANGED missed
       \/ orphans' = {} /\ missed' = TRUE
    /\ IF dcommand.confirm THEN DefGoes("write") ELSE DefEnds("planned")
    /\ UNCHANGED <<defHA, dcommand, remote, sent, alone>>

-----------------------------------------------------------------------------
(* The companion and Home Assistant (external).  The companion deletes by the *)
(* slug alone and refuses when that is not one YAML definition.               *)

Deletable == {d \in Named(dcommand) : kept[d] = "yaml"}

\* A template is written also where Home Assistant does not read it.
Creatable == {d \in remote : kept[d] = "absent" /\ d \in wired \cup Template}

\* A file that is not read, or a reload that fails, leaves the entity unregistered.
ServeCreate ==
    \E d \in Creatable :
        /\ kept' = [kept EXCEPT ![d] = "yaml"]
        /\ registered' \in {registered} \cup {registered \cup {e} : e \in {d} \cap wired}

ServeDelete ==
    \E d \in Deletable :
        /\ Deletable = {d}
        /\ kept' = [kept EXCEPT ![d] = "absent"]
        /\ UNCHANGED registered

Serves == IF dcommand.name = "create" THEN ServeCreate ELSE ServeDelete
Declines == IF dcommand.name = "create" THEN Creatable = {} ELSE Cardinality(Deletable) # 1

\* Said of a creation: the companion's own read of what Home Assistant then has.
Confirmed(d) == d \in registered'

\* Mutant: nothing ends the retries.
Forever == dcommand.name = "delete"

\* doWithRetry: a request whose answer is lost is sent again if its method allows it,
\* which a DELETE does and a POST does not.
Again == dcommand.name = "delete" /\ sent + 1 < MaxSend

WriteAnswered ==
    IF dcommand.name = "delete" THEN DefGoes("clean up")
    ELSE IF \A d \in remote : Confirmed(d) THEN DefEnds("done")
    ELSE DefEnds("done, warned")

\* Mutant: the clean-up follows a deletion that failed as well.
LostCleansUp == IF Again THEN DefGoes("write") ELSE DefGoes("clean up")

WriteLost == IF Again THEN DefGoes("write") ELSE DefEnds("failed")

Unserved == UNCHANGED <<kept, registered>>

SendWrite ==
    /\ dstep = "write"
    /\ sent' = sent + 1
    /\ \/ Serves /\ (WriteAnswered \/ WriteLost)
       \/ Unserved /\ WriteLost
       \/ Unserved /\ Declines /\ DefEnds("failed")
    /\ UNCHANGED <<wired, dcommand, remote, orphans, missed, alone>>

\* removeOrphanedEntity: a failure is logged and the deletion still reported.
CleanUp ==
    /\ dstep = "clean up"
    /\ \/ registered' = registered \ orphans /\ UNCHANGED missed
       \/ orphans # {} /\ missed' = TRUE /\ UNCHANGED registered
    /\ DefEnds("done")
    /\ UNCHANGED <<kept, wired, dcommand, remote, orphans, sent, alone>>

\* Another client creates or deletes a definition, or Home Assistant registers one.
OthersChange ==
    /\ \/ /\ \E d \in Def, k \in Kept :
                /\ kept[d] # k /\ (d \in Template => k # "storage")
                /\ kept' = [kept EXCEPT ![d] = k]
          /\ UNCHANGED registered
       \/ /\ \E d \in Def \ registered : Exists(d) /\ registered' = registered \cup {d}
          /\ UNCHANGED kept
    /\ alone' = FALSE
    /\ UNCHANGED <<wired, dstep, dcommand, remote, orphans, sent, verdict, missed>>

DefNext ==
    \/ Begin \/ Breaks \/ NotFound \/ ReadOrphans \/ SendWrite \/ CleanUp
    \/ CreateHelper \/ CreateTemplate \/ DeleteHelper \/ DeleteTemplate
    \/ OthersChange

DefSpec == DefInit /\ [][DefNext]_defVars

-----------------------------------------------------------------------------
(* Properties *)

DefTypeOK ==
    /\ kept \in [Def -> Kept]
    /\ wired \subseteq Def /\ registered \subseteq Def
    /\ dstep \in {"idle", "wiring", "resolve", "orphans", "write", "clean up", "ended"}
    /\ dcommand \in DefCommand
    /\ remote \subseteq Def /\ orphans \subseteq Def
    /\ sent \in 0..MaxSend
    /\ verdict \in {"none", "failed", "refused", "not found", "planned", "done", "done, warned"}

\* "A delete leaves nothing behind" (INVARIANTS.md): a deletion reported as done has left no
\* ghost of what it deleted, but where the registry would not be read or cleaned, or another
\* client was at the definitions of that slug.
NoGhost ==
    dcommand.name = "delete" /\ verdict = "done" /\ ~missed /\ alone =>
        \A d \in remote : Exists(d) \/ d \notin registered

\* The clean-up takes the entity of no definition that exists, unless it came back by
\* another client's hand while the command ran.
LiveKeepsItsEntity ==
    [][alone => \A d \in registered \ registered' : kept[d] = "absent"]_defVars

=============================================================================
