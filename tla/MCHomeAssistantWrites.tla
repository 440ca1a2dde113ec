----------------------- MODULE MCHomeAssistantWrites -----------------------
(***************************************************************************)
(* The commands that write through Home Assistant itself or through the       *)
(* companion's definitions: config entries and flows, dashboards, registries, *)
(* helpers and templates.  They share no state but the instance lock, which   *)
(* only RegistryWrite needs; a behaviour follows one family and leaves the    *)
(* others as they began.                                                      *)
(***************************************************************************)
EXTENDS ConfigFlow, DashboardWrite, RegistryWrite, DefinitionDelete, TLC

VARIABLE part

CONSTANTS d0, d1, old, new, p1, p2, t1, a, b, e1, h1, h2, tpl, s1, s2

MCRewritten == [c \in Config |-> new]

(* A preview by p1 and then its confirmation, of a label, an area or a        *)
(* deletion, while p2 confirms what disturbs it.                              *)
Line(n, add, remove, confirm) ==
    [name |-> n, target |-> t1, add |-> add, remove |-> remove, confirm |-> confirm]
MCAsked ==
    p1 :> (UNION {{Line(n, {a}, {}, c) : n \in {"label", "area", "delete"}} : c \in BOOLEAN}
           \cup {Line("create", {a}, {}, TRUE), Line("clear", {}, {}, TRUE),
                 Line("create", {Blank}, {}, FALSE)})
    @@ p2 :> {Line("label", {b}, {a}, TRUE), Line("create", {b}, {}, TRUE),
              Line("delete", {a}, {}, TRUE)}

(* Two helpers of different domains share a slug.                             *)
MCSlugOf == [d \in Def |-> IF d = tpl THEN s2 ELSE s1]

\* These two are alike; no property is a liveness property.
MCAlike == Permutations({h1, h2})

-----------------------------------------------------------------------------
Parts == {"flow", "dashboard", "registry", "definition"}

\* Where a part that is not followed stands.
FlowRests == handler /\ entries = [e \in Entry |-> "plain"]
DashRests == mode = [d \in Dashboard |-> "storage"] /\ config = [d \in Dashboard |-> old]
RegRests == kind = "label" /\ known = {}
DefRests == kept = [d \in Def |-> "absent"] /\ wired = {} /\ registered = {}

WritesInit ==
    /\ part \in Parts
    /\ FlowInit /\ (part = "flow" \/ FlowRests)
    /\ DashInit /\ (part = "dashboard" \/ DashRests)
    /\ RegInit /\ (part = "registry" \/ RegRests)
    /\ DefInit /\ (part = "definition" \/ DefRests)

WritesNext ==
    /\ UNCHANGED part
    /\ \/ part = "flow" /\ FlowNext /\ UNCHANGED <<dashVars, regVars, defVars>>
       \/ part = "dashboard" /\ DashNext /\ UNCHANGED <<flowVars, regVars, defVars>>
       \/ part = "registry" /\ RegNext /\ UNCHANGED <<flowVars, dashVars, defVars>>
       \/ part = "definition" /\ DefNext /\ UNCHANGED <<flowVars, dashVars, regVars>>

WritesSpec ==
    WritesInit /\ [][WritesNext]_<<part, flowVars, dashVars, regVars, defVars>>

\* Every family's state has its type.
WritesTypeOK == FlowTypeOK /\ DashTypeOK /\ RegTypeOK /\ DefTypeOK

\* H-2, in the three families whose previews look something up: a confirmed command goes
\* through as its preview told, nothing having changed at Home Assistant since.  It is
\* claimed of every config flow (PreviewForetells), of a dashboard's preview that had the
\* list of dashboards (SightedPreviewForetells), and of the set- commands and deletions of
\* the registries (RegPreviewForetells).  Left out, because the code breaks it there, are a
\* `dash create` previewed over a list that could not be had (DashPreviewForetells) and the
\* creations of the registries, whose previews ask Home Assistant nothing (label.go:128).
PreviewsForetell == PreviewForetells /\ RegPreviewForetells /\ []SightedPreviewForetells

=============================================================================
