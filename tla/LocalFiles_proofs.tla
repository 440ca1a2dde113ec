-------------------------- MODULE LocalFiles_proofs --------------------------
(***************************************************************************)
(* Proofs about ManualDelivery, StableIds and CacheStore and their composition  *)
(* with ConfirmGuard in MCLocalFiles: for any processes, sessions, families,    *)
(* rows, hashes, traces and samples.                                            *)
(***************************************************************************)
EXTENDS MCLocalFiles, ConfirmGuard_proofs, SequenceTheorems, WellFoundedInduction, TLAPS

-----------------------------------------------------------------------------
(* The manual.                                                               *)

DeliveryStage ==
    {"idle", "refuse", "saveRefused", "printRefused", "ran", "save", "print", "answer"}

\* What a session was shown, is about to be, or had recorded and never shown.
Seen(s) == printed[s] \cup Coming(s) \cup spoiled[s]

\* All that is recorded of a session is accounted for so.
RecordIsSeen == \A s \in Chat : Given(state[s]) \subseteq Seen(s)

\* So is what p is about to record, but for what it will print itself.
DraftIsSeen(p) ==
    stage[p] \in {"save", "saveRefused"} =>
        \A s \in Chat :
            Given(draft[p][s]) \subseteq Seen(s) \cup (IF s = ChatOf[p] THEN due[p] ELSE {})

\* And what the command of p needs.
NeedIsMet(p) ==
    typed[p].kind = "command" /\ ~Quiet(p) =>
        /\ stage[p] \in {"save", "print"} => Needed(p) \subseteq Seen(ChatOf[p]) \cup due[p]
        /\ stage[p] = "answer" => Needed(p) \subseteq Seen(ChatOf[p])

\* A session no update overtook and that has not lapsed: the record says when it was
\* renewed and all it was given since.
Credited ==
    \A s \in Chat \ muddled :
        Alive(renewed[s]) => state[s].last = renewed[s] /\ credit[s] \subseteq Given(state[s])

\* What p is about to record of it loses nothing, and leaves other sessions as they are.
DraftAdds(p) ==
    stage[p] \in {"save", "saveRefused"} /\ p \notin Homeless =>
        \A s \in Chat \ muddled :
            Alive(renewed[s]) =>
                IF s = ChatOf[p] THEN Given(state[s]) \subseteq Given(draft[p][s])
                                 ELSE draft[p][s] = state[s]

AgentInv(p) ==
    /\ stage[p] # "idle" => typed[p] \in Typed
    /\ DraftIsSeen(p) /\ NeedIsMet(p) /\ DraftAdds(p)

DeliveryInv ==
    /\ DeliveryTypeOK /\ RecordIsSeen /\ Credited
    /\ \A p \in Agent : AgentInv(p)

LEMMA DeliveryBegins == DeliveryInit => DeliveryInv
  <1> SUFFICES ASSUME DeliveryInit PROVE DeliveryInv
    OBVIOUS
  <1>1. NoSession \in SessionState /\ Given(NoSession) = {}
    BY DeliveryAssumption DEF NoSession, SessionState, Given
  <1>2. Empty \in [Chat -> SessionState] /\ \A s \in Chat : Given(Empty[s]) = {}
    BY <1>1 DEF Empty
  <1>3. DeliveryTypeOK
    BY <1>2, DeliveryAssumption DEF DeliveryInit, DeliveryTypeOK
  <1>4. RecordIsSeen
    BY <1>2 DEF DeliveryInit, RecordIsSeen
  <1>5. \A s \in Chat : ~Alive(renewed[s])
    BY DEF DeliveryInit, Alive
  <1>6. \A p \in Agent : stage[p] = "idle"
    BY DEF DeliveryInit
  <1> QED
    BY <1>3, <1>4, <1>5, <1>6
    DEF DeliveryInv, Credited, AgentInv, DraftIsSeen, NeedIsMet, DraftAdds

\* What is due with a command is new to its session, and with what the session had it
\* is all the command needs; it is what the session has then.
LEMMA ClaimGives ==
    ASSUME NEW session \in SessionState, NEW mode, NEW f \in Family \cup {NoFamily},
           tick \in 1 .. LastTick, NEW text, text = Claimed(session, mode, f)
    PROVE  /\ text \subseteq Whole
           /\ AfterClaim(session, mode, text) \in SessionState
           /\ Given(session) \subseteq Given(AfterClaim(session, mode, text))
           /\ Given(AfterClaim(session, mode, text)) \subseteq Given(session) \cup text
           /\ {"core"} \cup (IF f = NoFamily THEN {} ELSE FamilySections[f])
                 \subseteq Given(session) \cup text
           /\ mode = "progressive" => text \cap Given(session) = {}
  <1>1. f # NoFamily => FamilySections[f] \subseteq HowTos /\ "core" \notin FamilySections[f]
    BY DeliveryAssumption DEF HowTos
  <1>2. "core" \notin HowTos
    BY DeliveryAssumption DEF HowTos
  <1>3. /\ session.last \in 0 .. LastTick /\ session.core \in BOOLEAN
        /\ session.full \in BOOLEAN /\ session.delivered \subseteq HowTos
    BY DEF SessionState
  <1>4. tick \in 0 .. LastTick
    BY DeliveryAssumption
  <1>5. CASE session.full
    BY <1>1, <1>3, <1>4, <1>5 DEF Claimed, AfterClaim, Given, Whole, SessionState
  <1>6. CASE ~session.full /\ mode = "full"
    BY <1>1, <1>3, <1>4, <1>6 DEF Claimed, AfterClaim, Given, Whole, SessionState
  <1>7. CASE ~session.full /\ mode # "full"
    <2>1. text = (IF session.core THEN {} ELSE {"core"})
                    \cup (IF f = NoFamily THEN {} ELSE FamilySections[f] \ session.delivered)
      BY <1>7 DEF Claimed
    <2>2. text \subseteq Whole
      BY <2>1, <1>1 DEF Whole
    <2>3. text \ {"core"} \subseteq HowTos
      BY <2>2 DEF Whole
    <2>4. AfterClaim(session, mode, text)
            = [session EXCEPT !.last = tick, !.core = TRUE,
                              !.delivered = @ \cup (text \ {"core"})]
      BY <1>7 DEF AfterClaim
    <2>5. PICK after \in SessionState : after = AfterClaim(session, mode, text)
      BY <1>3, <1>4, <2>3, <2>4 DEF SessionState
    <2>6. /\ after.core /\ ~after.full
          /\ after.delivered = session.delivered \cup (text \ {"core"})
      BY <1>7, <2>4, <2>5 DEF SessionState
    <2>7. Given(after) = session.delivered \cup (text \ {"core"}) \cup {"core"}
      BY <2>6 DEF Given
    <2>8. Given(session) = session.delivered \cup (IF session.core THEN {"core"} ELSE {})
      BY <1>7 DEF Given
    <2> QED
      BY <1>1, <1>2, <1>3, <2>1, <2>2, <2>5, <2>7, <2>8
  <1> QED
    BY <1>5, <1>6, <1>7

\* What rtfm records is what it prints and what the session had.
LEMMA MarkGives ==
    ASSUME NEW session \in SessionState, NEW scopes \in Scopes, tick \in 1 .. LastTick
    PROVE  /\ Scoped(scopes) \subseteq Whole
           /\ AfterMark(session, scopes) \in SessionState
           /\ Given(session) \subseteq Given(AfterMark(session, scopes))
           /\ Given(AfterMark(session, scopes)) \subseteq Given(session) \cup Scoped(scopes)
  <1>1. \A f \in Family : FamilySections[f] \subseteq HowTos
    BY DeliveryAssumption DEF HowTos
  <1>2. Scoped(scopes) \subseteq Whole
    BY <1>1 DEF Scoped, Whole
  <1>3. /\ session.last \in 0 .. LastTick /\ session.core \in BOOLEAN
        /\ session.full \in BOOLEAN /\ session.delivered \subseteq HowTos
    BY DEF SessionState
  <1>4. tick \in 0 .. LastTick
    BY DeliveryAssumption
  <1>5. CASE scopes = {}
    BY <1>2, <1>3, <1>4, <1>5 DEF AfterMark, Given, Scoped, Whole, SessionState
  <1>6. CASE scopes # {}
    <2>1. Scoped(scopes) \ {"core"} \subseteq HowTos
      BY <1>2 DEF Whole
    <2>2. "core" \in scopes => "core" \in Scoped(scopes)
      BY <1>6 DEF Scoped
    <2>3. AfterMark(session, scopes)
            = [session EXCEPT !.last = tick, !.core = @ \/ "core" \in scopes,
                              !.delivered = @ \cup (Scoped(scopes) \ {"core"})]
      BY <1>6 DEF AfterMark
    <2>4. (session.core \/ "core" \in scopes) \in BOOLEAN
      OBVIOUS
    <2>5. PICK after \in SessionState : after = AfterMark(session, scopes)
      BY <1>3, <1>4, <2>1, <2>3, <2>4 DEF SessionState
    <2>6. /\ after.core = (session.core \/ "core" \in scopes) /\ after.full = session.full
          /\ after.delivered = session.delivered \cup (Scoped(scopes) \ {"core"})
      BY <2>3, <2>5 DEF SessionState
    <2>7. CASE session.full
      BY <1>2, <2>5, <2>6, <2>7 DEF Given
    <2>8. CASE ~session.full
      <3>1. Given(after) = after.delivered \cup (IF after.core THEN {"core"} ELSE {})
        BY <2>6, <2>8 DEF Given
      <3>2. Given(session) = session.delivered \cup (IF session.core THEN {"core"} ELSE {})
        BY <2>8 DEF Given
      <3>3. Given(session) \subseteq Given(after)
        BY <1>3, <2>6, <3>1, <3>2
      <3>4. "core" \in Given(session) \cup Scoped(scopes) \/ ~after.core
        BY <1>3, <2>2, <2>6, <3>2
      <3>5. Given(after) \subseteq Given(session) \cup Scoped(scopes)
        BY <2>6, <3>1, <3>2, <3>4
      <3> QED
        BY <1>2, <2>5, <3>3, <3>5
    <2> QED
      BY <2>7, <2>8
  <1> QED
    BY <1>5, <1>6

\* What p reads: sessions, of which nothing was given that is not recorded.
LEMMA LoadReads ==
    ASSUME DeliveryTypeOK, NEW p \in Agent
    PROVE  /\ LoadedFor(p) \in [Chat -> SessionState]
           /\ \A s \in Chat : Given(LoadedFor(p)[s]) \subseteq Given(state[s])
           /\ p \notin Homeless =>
                \A s \in Chat : Alive(state[s].last) => LoadedFor(p)[s] = state[s]
  <1>1. NoSession \in SessionState /\ Given(NoSession) = {}
    BY DeliveryAssumption DEF NoSession, SessionState, Given
  <1>2. Empty \in [Chat -> SessionState] /\ \A s \in Chat : Given(Empty[s]) = {}
    BY <1>1 DEF Empty
  <1>3. CASE p \in Homeless
    BY <1>2, <1>3 DEF LoadedFor
  <1>4. CASE p \notin Homeless
    <2>1. LoadedFor(p) = [s \in Chat |-> IF Alive(state[s].last) THEN state[s] ELSE NoSession]
      BY <1>4 DEF LoadedFor
    <2>2. \A s \in Chat : state[s] \in SessionState
      BY DEF DeliveryTypeOK
    <2> QED
      BY <1>1, <2>1, <2>2
  <1> QED
    BY <1>3, <1>4

\* A step of p leaves what the others are about to print to them.
LEMMA OthersCome ==
    ASSUME NEW p \in Agent,
           \A q \in Agent \ {p} : stage'[q] = stage[q] /\ due'[q] = due[q]
    PROVE  /\ \A s \in Chat : Coming(s) \subseteq Coming(s)'
                \cup (IF s = ChatOf[p] /\ stage[p] \in {"print", "printRefused"}
                      THEN due[p] ELSE {})
           /\ stage'[p] \in {"print", "printRefused"} => due'[p] \subseteq Coming(ChatOf[p])'
  <1>1. ASSUME NEW s \in Chat, NEW h, h \in Coming(s)
        PROVE  h \in Coming(s)' \cup (IF s = ChatOf[p] /\ stage[p] \in {"print", "printRefused"}
                                      THEN due[p] ELSE {})
    <2>1. PICK q \in Agent :
              ChatOf[q] = s /\ stage[q] \in {"print", "printRefused"} /\ h \in due[q]
      BY <1>1 DEF Coming
    <2>2. CASE q = p
      BY <2>1, <2>2
    <2>3. CASE q # p
      BY <2>1, <2>3 DEF Coming
    <2> QED
      BY <2>2, <2>3
  <1>2. stage'[p] \in {"print", "printRefused"} => due'[p] \subseteq Coming(ChatOf[p])'
    BY DEF Coming
  <1> QED
    BY <1>1, <1>2

\* A step of p that changes no record: the invariant holds for the others as it did.
LEMMA OneActs ==
    ASSUME DeliveryInv, NEW p \in Agent, DeliveryTypeOK',
           UNCHANGED <<tick, state, credit, renewed, muddled>>,
           \A q \in Agent \ {p} : /\ stage'[q] = stage[q] /\ typed'[q] = typed[q]
                                  /\ draft'[q] = draft[q] /\ due'[q] = due[q],
           \A s \in Chat : Seen(s) \subseteq Seen(s)',
           AgentInv(p)'
    PROVE  DeliveryInv'
  <1>1. RecordIsSeen'
    BY DEF DeliveryInv, RecordIsSeen
  <1>2. Credited'
    BY DEF DeliveryInv, Credited, Alive
  <1>3. ASSUME NEW q \in Agent \ {p} PROVE AgentInv(q)'
    <2>1. AgentInv(q) /\ ChatOf[q] \in Chat
      BY DeliveryAssumption DEF DeliveryInv
    <2>2. DraftIsSeen(q)'
      BY <2>1 DEF AgentInv, DraftIsSeen
    <2>3. Quiet(q)' = Quiet(q) /\ Needed(q)' = Needed(q)
      BY DEF Quiet, Needed
    <2>4. NeedIsMet(q)'
      BY <2>1, <2>3 DEF AgentInv, NeedIsMet
    <2>5. DraftAdds(q)'
      BY <2>1 DEF AgentInv, DraftAdds, Alive
    <2> QED
      BY <2>1, <2>2, <2>4, <2>5 DEF AgentInv
  <1> QED
    BY <1>1, <1>2, <1>3 DEF DeliveryInv

\* A step of p that prints nothing and loses nothing that was coming.
LEMMA SeenStays ==
    ASSUME NEW p \in Agent, UNCHANGED <<printed, spoiled>>,
           \A q \in Agent \ {p} : stage'[q] = stage[q] /\ due'[q] = due[q],
           stage[p] \notin {"print", "printRefused"}
    PROVE  \A s \in Chat : Seen(s) \subseteq Seen(s)'
  BY OthersCome DEF Seen

\* What is typed in.
LEMMA TypeActs == ASSUME DeliveryInv, NEW p \in Agent, Type(p) PROVE DeliveryInv'
  <1> USE DEF Type, StageIs, past
  <1>1. PICK t \in Typed :
           /\ typed' = [typed EXCEPT ![p] = t]
           /\ StageIs(p, IF t.kind = "command" /\ t.refused /\ FamilyFor[t.top] # NoFamily
                      THEN "refuse" ELSE "ran")
    OBVIOUS
  <1>2. stage' \in [Agent -> DeliveryStage] /\ typed' \in [Agent -> Typed \cup {Idle}]
    BY <1>1 DEF DeliveryInv, DeliveryTypeOK, DeliveryStage
  <1>3. DeliveryTypeOK'
    BY <1>2 DEF DeliveryInv, DeliveryTypeOK, DeliveryStage
  <1>4. stage'[p] \in {"refuse", "ran"} /\ typed'[p] \in Typed
    BY <1>1 DEF DeliveryInv, DeliveryTypeOK
  <1>5. \A q \in Agent \ {p} : stage'[q] = stage[q] /\ typed'[q] = typed[q]
    BY <1>1 DEF DeliveryInv, DeliveryTypeOK
  <1>6. \A s \in Chat : Seen(s) \subseteq Seen(s)'
    BY <1>5, SeenStays
  <1>7. AgentInv(p)'
    BY <1>4 DEF AgentInv, DraftIsSeen, NeedIsMet, DraftAdds
  <1> QED
    BY <1>3, <1>5, <1>6, <1>7, OneActs

\* Nothing to say.
LEMMA SayNothingActs == ASSUME DeliveryInv, NEW p \in Agent, SayNothing(p) PROVE DeliveryInv'
  <1> USE DEF SayNothing, StageIs, past
  <1>1. stage' \in [Agent -> DeliveryStage] /\ stage'[p] \in {"ran", "answer"}
    BY DEF DeliveryInv, DeliveryTypeOK, DeliveryStage
  <1>2. DeliveryTypeOK'
    BY <1>1 DEF DeliveryInv, DeliveryTypeOK, DeliveryStage
  <1>3. \A q \in Agent \ {p} : stage'[q] = stage[q]
    BY DEF DeliveryInv, DeliveryTypeOK
  <1>4. \A s \in Chat : Seen(s) \subseteq Seen(s)'
    BY <1>3, SeenStays
  <1>5. Quiet(p)'
    BY DEF Quiet
  <1>6. AgentInv(p)'
    BY <1>1, <1>5 DEF DeliveryInv, AgentInv, DraftIsSeen, NeedIsMet, DraftAdds
  <1> QED
    BY <1>2, <1>3, <1>4, <1>6, OneActs

\* p is at rest again.
LEMMA RestIs ==
    ASSUME DeliveryInv, NEW p \in Agent, Rest(p)
    PROVE  /\ stage' \in [Agent -> DeliveryStage] /\ typed' \in [Agent -> Typed \cup {Idle}]
           /\ draft' \in [Agent -> [Chat -> SessionState]] /\ due' \in [Agent -> SUBSET Whole]
           /\ stage'[p] = "idle"
           /\ \A q \in Agent \ {p} : /\ stage'[q] = stage[q] /\ typed'[q] = typed[q]
                                     /\ draft'[q] = draft[q] /\ due'[q] = due[q]
           /\ AgentInv(p)'
  <1>1. Empty \in [Chat -> SessionState]
    BY DeliveryAssumption DEF Empty, NoSession, SessionState
  <1>2. stage' \in [Agent -> DeliveryStage] /\ stage'[p] = "idle"
    BY DEF Rest, StageIs, DeliveryInv, DeliveryTypeOK, DeliveryStage
  <1>3. draft' \in [Agent -> [Chat -> SessionState]]
    BY <1>1 DEF Rest, DeliveryInv, DeliveryTypeOK
  <1>4. typed' \in [Agent -> Typed \cup {Idle}] /\ due' \in [Agent -> SUBSET Whole]
    BY DEF Rest, DeliveryInv, DeliveryTypeOK
  <1>5. \A q \in Agent \ {p} : /\ stage'[q] = stage[q] /\ typed'[q] = typed[q]
                               /\ draft'[q] = draft[q] /\ due'[q] = due[q]
    BY DEF Rest, StageIs, DeliveryInv, DeliveryTypeOK
  <1>6. AgentInv(p)'
    BY <1>2 DEF AgentInv, DraftIsSeen, NeedIsMet, DraftAdds
  <1> QED
    BY <1>2, <1>3, <1>4, <1>5, <1>6

\* The answer of p.
LEMMA AnswerActs == ASSUME DeliveryInv, NEW p \in Agent, AnswerIs(p) PROVE DeliveryInv'
  <1> USE DEF AnswerIs, past
  <1>1. DeliveryTypeOK'
    BY RestIs DEF DeliveryInv, DeliveryTypeOK, DeliveryStage
  <1>2. \A s \in Chat : Seen(s) \subseteq Seen(s)'
    BY RestIs, SeenStays
  <1> QED
    BY <1>1, <1>2, RestIs, OneActs

\* The end of p before its answer.
LEMMA DieActs == ASSUME DeliveryInv, NEW p \in Agent, Die(p) PROVE DeliveryInv'
  <1> USE DEF Die
  <1>0. ChatOf[p] \in Chat /\ spoiled \in [Chat -> SUBSET Whole] /\ due[p] \subseteq Whole
    BY DeliveryAssumption DEF DeliveryInv, DeliveryTypeOK
  <1>1. /\ spoiled' \in [Chat -> SUBSET Whole]
        /\ \A s \in Chat : spoiled[s] \subseteq spoiled'[s]
        /\ stage[p] \in {"print", "printRefused"} => due[p] \subseteq spoiled'[ChatOf[p]]
    BY <1>0
  <1>2. DeliveryTypeOK'
    BY <1>1, RestIs DEF DeliveryInv, DeliveryTypeOK, DeliveryStage
  <1>3. \A s \in Chat : Seen(s) \subseteq Seen(s)'
    BY <1>1, RestIs, OthersCome DEF Seen
  <1> QED
    BY <1>2, <1>3, RestIs, OneActs

\* What is due is printed, or, of an rtfm that fails, not.
LEMMA PrintActs == ASSUME DeliveryInv, NEW p \in Agent, PrintText(p) PROVE DeliveryInv'
  <1> USE DEF PrintText, StageIs
  <1>0. /\ ChatOf[p] \in Chat /\ due[p] \subseteq Whole
        /\ spoiled \in [Chat -> SUBSET Whole] /\ printed \in [Chat -> SUBSET Whole]
    BY DeliveryAssumption DEF DeliveryInv, DeliveryTypeOK
  <1>1. /\ spoiled' \in [Chat -> SUBSET Whole] /\ printed' \in [Chat -> SUBSET Whole]
        /\ \A s \in Chat : printed[s] \subseteq printed'[s] /\ spoiled[s] \subseteq spoiled'[s]
        /\ due[p] \subseteq printed'[ChatOf[p]] \cup spoiled'[ChatOf[p]]
    BY <1>0
  <1>2. stage' \in [Agent -> DeliveryStage] /\ stage'[p] \in {"answer", "ran"}
        /\ (stage'[p] = "answer" => stage[p] = "print")
    BY DEF DeliveryInv, DeliveryTypeOK, DeliveryStage
  <1>3. DeliveryTypeOK'
    BY <1>1, <1>2 DEF DeliveryInv, DeliveryTypeOK, DeliveryStage
  <1>4. \A q \in Agent \ {p} : stage'[q] = stage[q] /\ due'[q] = due[q]
    BY DEF DeliveryInv, DeliveryTypeOK
  <1>5. \A s \in Chat : Seen(s) \subseteq Seen(s)'
    BY <1>1, <1>4, OthersCome DEF Seen
  <1>6. Quiet(p)' = Quiet(p) /\ Needed(p)' = Needed(p)
    BY DEF Quiet, Needed
  <1>7. NeedIsMet(p)'
    BY <1>0, <1>1, <1>2, <1>5, <1>6 DEF DeliveryInv, AgentInv, NeedIsMet, Seen
  <1>8. AgentInv(p)'
    BY <1>2, <1>7 DEF DeliveryInv, AgentInv, DraftIsSeen, DraftAdds
  <1> QED
    BY <1>3, <1>4, <1>5, <1>8, OneActs

\* What p has read, and what it will print and record.
LEMMA LoadActs == ASSUME DeliveryInv, NEW p \in Agent, Load(p) PROVE DeliveryInv'
  <1> DEFINE s == ChatOf[p]
             session == LoadedFor(p)[s]
             rtfm == typed[p].kind = "rtfm"
             f == FamilyFor[typed[p].top]
             text == IF rtfm THEN Scoped(typed[p].scopes) ELSE ClaimText(p)
             after == IF rtfm THEN AfterMark(session, typed[p].scopes)
                      ELSE AfterClaim(session, ModeOf[p], ClaimText(p))
  <1>1. /\ s \in Chat /\ tick \in 1 .. LastTick /\ typed[p] \in Typed
        /\ stage[p] \in {"refuse", "ran"} /\ ~Quiet(p)
    BY DeliveryAssumption DEF Load, DeliveryInv, DeliveryTypeOK, AgentInv
  <1>2. LoadedFor(p) \in [Chat -> SessionState] /\ session \in SessionState
        /\ \A t \in Chat : Given(LoadedFor(p)[t]) \subseteq Given(state[t])
    BY <1>1, LoadReads DEF DeliveryInv
  <1>3. /\ due' = [due EXCEPT ![p] = text]
        /\ draft' = [draft EXCEPT ![p] = [LoadedFor(p) EXCEPT ![s] = after]]
        /\ stage' = [stage EXCEPT ![p] = IF stage[p] = "refuse" THEN "saveRefused" ELSE "save"]
        /\ UNCHANGED <<tick, state, typed, printed, credit, renewed, muddled, spoiled>>
    BY DEF Load, StageIs, past
  <1>4. /\ text \subseteq Whole /\ after \in SessionState
        /\ Given(session) \subseteq Given(after) /\ Given(after) \subseteq Given(session) \cup text
        /\ typed[p].kind = "command" => Needed(p) \subseteq Given(session) \cup text
    <2>1. CASE rtfm
      <3>1. typed[p].scopes \in Scopes
        BY <1>1, <2>1 DEF Typed
      <3> QED
        BY <1>1, <1>2, <2>1, <3>1, MarkGives
    <2>2. CASE typed[p].kind = "command"
      <3>1. f \in Family \cup {NoFamily}
        BY <1>1, <2>2, DeliveryAssumption DEF Typed
      <3>2. ~rtfm /\ text = Claimed(session, ModeOf[p], f)
            /\ after = AfterClaim(session, ModeOf[p], text)
        BY <2>2 DEF ClaimText
      <3>3. Needed(p) = {"core"} \cup (IF f = NoFamily THEN {} ELSE FamilySections[f])
        BY DEF Needed
      <3> HIDE DEF f, session, text, after
      <3> QED
        BY <1>1, <1>2, <3>1, <3>2, <3>3, ClaimGives
    <2> QED
      BY <1>1, <2>1, <2>2 DEF Typed
  <1> HIDE DEF session, rtfm, f, text, after
  <1>5. /\ due'[p] = text /\ draft'[p] = [LoadedFor(p) EXCEPT ![s] = after]
        /\ stage'[p] \in {"save", "saveRefused"}
        /\ \A q \in Agent \ {p} : /\ stage'[q] = stage[q] /\ typed'[q] = typed[q]
                                  /\ draft'[q] = draft[q] /\ due'[q] = due[q]
    BY <1>3 DEF DeliveryInv, DeliveryTypeOK
  <1>6. draft'[p] \in [Chat -> SessionState] /\ draft'[p][s] = after
        /\ \A t \in Chat \ {s} : draft'[p][t] = LoadedFor(p)[t]
    BY <1>1, <1>2, <1>4, <1>5
  <1>7. DeliveryTypeOK'
    <2>1. stage' \in [Agent -> DeliveryStage]
      BY <1>3 DEF DeliveryInv, DeliveryTypeOK, DeliveryStage
    <2>2. due' \in [Agent -> SUBSET Whole]
      BY <1>3, <1>4 DEF DeliveryInv, DeliveryTypeOK
    <2>3. draft' \in [Agent -> [Chat -> SessionState]]
      BY <1>3, <1>5, <1>6 DEF DeliveryInv, DeliveryTypeOK
    <2> QED
      BY <1>3, <2>1, <2>2, <2>3 DEF DeliveryInv, DeliveryTypeOK, DeliveryStage
  <1>8. \A t \in Chat : Seen(t) \subseteq Seen(t)'
    BY <1>1, <1>3, <1>5, SeenStays
  <1>9. \A t \in Chat : Given(LoadedFor(p)[t]) \subseteq Seen(t)'
    BY <1>2, <1>8 DEF DeliveryInv, RecordIsSeen
  <1>10. DraftIsSeen(p)'
    <2>1. Given(after) \subseteq Seen(s)' \cup due'[p]
      BY <1>1, <1>4, <1>5, <1>9 DEF session
    <2>2. \A t \in Chat : Given(draft'[p][t])
                            \subseteq Seen(t)' \cup (IF t = ChatOf[p] THEN due'[p] ELSE {})
      BY <1>6, <1>9, <2>1
    <2> QED
      BY <2>2 DEF DraftIsSeen, Given
  <1>11. NeedIsMet(p)'
    <2>1. Needed(p)' = Needed(p) /\ stage'[p] # "print" /\ stage'[p] # "answer"
      BY <1>3, <1>5 DEF Needed
    <2>2. typed[p].kind = "command" => Needed(p) \subseteq Seen(s)' \cup due'[p]
      BY <1>1, <1>4, <1>5, <1>9 DEF session
    <2> QED
      BY <1>3, <2>1, <2>2 DEF NeedIsMet
  <1>12. DraftAdds(p)'
    <2> SUFFICES ASSUME p \notin Homeless, NEW t \in Chat \ muddled, Alive(renewed[t])
                 PROVE  IF t = s THEN Given(state[t]) \subseteq Given(draft'[p][t])
                                 ELSE draft'[p][t] = state[t]
      BY <1>3 DEF DraftAdds, Alive, Given
    <2>1. LoadedFor(p)[t] = state[t]
      BY LoadReads DEF DeliveryInv, Credited
    <2> QED
      BY <1>4, <1>6, <2>1 DEF session
  <1>13. AgentInv(p)'
    BY <1>1, <1>3, <1>10, <1>11, <1>12 DEF AgentInv
  <1> QED
    BY <1>3, <1>5, <1>7, <1>8, <1>13, OneActs

\* The record of p in place of what was there, or not.
LEMMA SaveActs == ASSUME DeliveryInv, NEW p \in Agent, Save(p) PROVE DeliveryInv'
  <1> DEFINE s == ChatOf[p]
  <1>1. /\ s \in Chat /\ stage[p] \in {"save", "saveRefused"} /\ p \in Saving
        /\ draft[p] \in [Chat -> SessionState] /\ draft[p][s] \in SessionState
        /\ AgentInv(p)
    <2>1. ChatOf[p] \in Chat
      BY DeliveryAssumption
    <2>2. draft[p] \in [Chat -> SessionState]
      BY DEF DeliveryInv, DeliveryTypeOK
    <2> QED
      BY <2>1, <2>2 DEF Save, Saving, DeliveryInv
  <1>2. /\ stage' = [stage EXCEPT ![p] = IF stage[p] = "save" THEN "print" ELSE "printRefused"]
        /\ draft' = [draft EXCEPT ![p] = Empty]
        /\ UNCHANGED <<tick, typed, due, printed, spoiled>>
    BY DEF Save, StageIs
  <1>3. /\ stage' \in [Agent -> DeliveryStage]
        /\ stage'[p] = (IF stage[p] = "save" THEN "print" ELSE "printRefused")
        /\ \A q \in Agent \ {p} : /\ stage'[q] = stage[q] /\ typed'[q] = typed[q]
                                  /\ draft'[q] = draft[q] /\ due'[q] = due[q]
    BY <1>2 DEF DeliveryInv, DeliveryTypeOK, DeliveryStage
  <1>4. draft' \in [Agent -> [Chat -> SessionState]]
    <2>1. Empty \in [Chat -> SessionState]
      BY DeliveryAssumption DEF Empty, NoSession, SessionState
    <2> QED
      BY <1>2, <2>1 DEF DeliveryInv, DeliveryTypeOK
  <1>5. /\ \A t \in Chat : Seen(t) \subseteq Seen(t)'
        /\ due[p] \subseteq Seen(s)'
    BY <1>1, <1>2, <1>3, OthersCome DEF Seen
  <1>6. \A t \in Chat : Given(draft[p][t]) \subseteq Seen(t)'
    BY <1>1, <1>5 DEF AgentInv, DraftIsSeen
  <1>7. AgentInv(p)'
    <2>1. Quiet(p)' = Quiet(p) /\ Needed(p)' = Needed(p)
      BY <1>2 DEF Quiet, Needed
    <2>2. NeedIsMet(p)'
      BY <1>1, <1>2, <1>3, <1>5, <2>1 DEF AgentInv, NeedIsMet
    <2>3. DraftIsSeen(p)' /\ DraftAdds(p)'
      BY <1>3 DEF DraftIsSeen, DraftAdds
    <2> QED
      BY <1>1, <1>2, <2>2, <2>3 DEF AgentInv
  <1>8. CASE UNCHANGED <<state, credit, renewed, muddled>>
    <2>1. DeliveryTypeOK'
      BY <1>2, <1>3, <1>4, <1>8 DEF DeliveryInv, DeliveryTypeOK, DeliveryStage
    <2> QED
      BY <1>2, <1>3, <1>5, <1>7, <1>8, <2>1, OneActs
  <1>9. CASE /\ p \notin Homeless
             /\ state' = draft[p]
             /\ credit' = [credit EXCEPT ![s] =
                             (IF ~Alive(renewed[s]) THEN {} ELSE @) \cup Given(draft[p][s])]
             /\ renewed' = [renewed EXCEPT ![s] = draft[p][s].last]
             /\ muddled' = IF Saving # {p} \/ renewed[s] > draft[p][s].last
                           THEN muddled \cup Chat
                           ELSE muddled \ (IF ~Alive(renewed[s]) THEN {s} ELSE {})
    <2>0. /\ credit \in [Chat -> SUBSET Whole] /\ renewed \in [Chat -> 0 .. LastTick]
          /\ muddled \subseteq Chat
      BY DEF DeliveryInv, DeliveryTypeOK
    <2>1. Given(draft[p][s]) \subseteq Whole /\ draft[p][s].last \in 0 .. LastTick
      BY <1>1 DEF Given, Whole, SessionState
    <2>2. /\ credit' \in [Chat -> SUBSET Whole] /\ renewed' \in [Chat -> 0 .. LastTick]
          /\ muddled' \subseteq Chat
          /\ credit'[s] = (IF ~Alive(renewed[s]) THEN {} ELSE credit[s]) \cup Given(draft[p][s])
          /\ renewed'[s] = draft[p][s].last
          /\ \A t \in Chat \ {s} : credit'[t] = credit[t] /\ renewed'[t] = renewed[t]
      BY <1>1, <1>9, <2>0, <2>1
    <2>3. DeliveryTypeOK'
      BY <1>1, <1>2, <1>3, <1>4, <1>9, <2>2 DEF DeliveryInv, DeliveryTypeOK, DeliveryStage
    <2>4. RecordIsSeen'
      BY <1>6, <1>9 DEF RecordIsSeen, Given
    <2>5. ASSUME NEW t \in Chat \ muddled'
          PROVE  Saving = {p} /\ (t # s => t \notin muddled)
                 /\ (Alive(renewed[s]) => s \notin muddled \/ t # s)
      BY <1>9, <2>5
    <2>6. Credited'
      <3> SUFFICES ASSUME NEW t \in Chat \ muddled', Alive(renewed[t])'
                   PROVE  state'[t].last = renewed'[t] /\ credit'[t] \subseteq Given(state'[t])
        BY DEF Credited, Given
      <3>1. CASE t = s
        <4>1. state'[t] = draft[p][s] /\ renewed'[t] = draft[p][s].last
          BY <1>9, <2>2, <3>1
        <4>2. ASSUME Alive(renewed[s]) PROVE credit[s] \subseteq Given(draft[p][s])
          <5>1. s \notin muddled
            BY <2>5, <3>1, <4>2
          <5>2. credit[s] \subseteq Given(state[s])
            BY <1>1, <4>2, <5>1 DEF DeliveryInv, Credited
          <5>3. Given(state[s]) \subseteq Given(draft[p][s])
            BY <1>1, <1>9, <4>2, <5>1 DEF AgentInv, DraftAdds
          <5> QED
            BY <5>2, <5>3
        <4> QED
          BY <2>2, <3>1, <4>1, <4>2
      <3>2. CASE t # s
        <4>1. t \in Chat \ muddled /\ Alive(renewed[t]) /\ renewed'[t] = renewed[t]
              /\ credit'[t] = credit[t]
          BY <1>2, <2>2, <2>5, <3>2 DEF Alive
        <4>2. state'[t] = state[t]
          BY <1>1, <1>9, <3>2, <4>1 DEF AgentInv, DraftAdds
        <4> QED
          BY <4>1, <4>2 DEF DeliveryInv, Credited
      <3> QED
        BY <3>1, <3>2
    <2>7. ASSUME NEW q \in Agent \ {p} PROVE AgentInv(q)'
      <3>1. AgentInv(q) /\ ChatOf[q] \in Chat
        BY DeliveryAssumption DEF DeliveryInv
      <3>2. DraftIsSeen(q)'
        BY <1>3, <1>5, <3>1 DEF AgentInv, DraftIsSeen, Given
      <3>3. Quiet(q)' = Quiet(q) /\ Needed(q)' = Needed(q)
        BY <1>2 DEF Quiet, Needed
      <3>4. NeedIsMet(q)'
        BY <1>3, <1>5, <3>1, <3>3 DEF AgentInv, NeedIsMet
      <3>5. DraftAdds(q)'
        <4>1. stage[q] \in {"save", "saveRefused"} => Saving # {p}
          BY DEF Saving
        <4> QED
          BY <1>3, <2>5, <4>1 DEF DraftAdds
      <3> QED
        BY <1>2, <1>3, <3>1, <3>2, <3>4, <3>5 DEF AgentInv
    <2> QED
      BY <1>7, <2>3, <2>4, <2>6, <2>7 DEF DeliveryInv
  <1> QED
    BY <1>8, <1>9 DEF Save

\* Time passes: sessions lapse, and none comes back.
LEMMA ElapseActs == ASSUME DeliveryInv, Elapse PROVE DeliveryInv'
  <1> USE DEF Elapse, own, past
  <1>1. DeliveryTypeOK'
    BY DeliveryAssumption DEF DeliveryInv, DeliveryTypeOK
  <1>2. \A s \in Chat : Seen(s)' = Seen(s)
    BY DEF Seen, Coming
  <1>3. RecordIsSeen'
    BY <1>2 DEF DeliveryInv, RecordIsSeen, Given
  <1>4. tick \in Nat /\ DefaultTTL \in Nat /\ \A s \in Chat : renewed[s] \in Nat
    BY DeliveryAssumption DEF DeliveryInv, DeliveryTypeOK
  <1>5. \A s \in Chat : Alive(renewed[s])' => Alive(renewed[s])
    BY <1>4 DEF Alive
  <1>6. Credited'
    BY <1>5 DEF DeliveryInv, Credited, Given
  <1>7. ASSUME NEW p \in Agent PROVE AgentInv(p)'
    <2>1. AgentInv(p) /\ ChatOf[p] \in Chat
      BY DeliveryAssumption DEF DeliveryInv
    <2>2. DraftIsSeen(p)'
      BY <1>2, <2>1 DEF AgentInv, DraftIsSeen, Given
    <2>3. Quiet(p)' = Quiet(p) /\ Needed(p)' = Needed(p)
      BY DEF Quiet, Needed
    <2>4. NeedIsMet(p)'
      BY <1>2, <2>1, <2>3 DEF AgentInv, NeedIsMet
    <2>5. DraftAdds(p)'
      BY <1>5, <2>1 DEF AgentInv, DraftAdds, Given
    <2> QED
      BY <2>1, <2>2, <2>4, <2>5 DEF AgentInv
  <1> QED
    BY <1>1, <1>3, <1>6, <1>7 DEF DeliveryInv

LEMMA DeliveryActs == DeliveryInv /\ [DeliveryNext]_deliveryVars => DeliveryInv'
  <1> SUFFICES ASSUME DeliveryInv, [DeliveryNext]_deliveryVars PROVE DeliveryInv'
    OBVIOUS
  <1>1. CASE UNCHANGED deliveryVars
    <2> USE <1>1 DEF deliveryVars, own, past
    <2>1. DeliveryTypeOK'
      BY DEF DeliveryInv, DeliveryTypeOK
    <2>2. RecordIsSeen' /\ Credited'
      BY DEF DeliveryInv, RecordIsSeen, Credited, Seen, Coming, Given, Alive
    <2>3. ASSUME NEW p \in Agent PROVE AgentInv(p)'
      BY DEF DeliveryInv, AgentInv, DraftIsSeen, NeedIsMet, DraftAdds, Seen, Coming, Given,
             Alive, Quiet, Needed
    <2> QED
      BY <2>1, <2>2, <2>3 DEF DeliveryInv
  <1>2. CASE Elapse
    BY <1>2, ElapseActs
  <1>3. ASSUME NEW p \in Agent,
               Type(p) \/ Load(p) \/ Save(p) \/ PrintText(p) \/ SayNothing(p)
                 \/ AnswerIs(p) \/ Die(p)
        PROVE  DeliveryInv'
    BY <1>3, TypeActs, LoadActs, SaveActs, PrintActs, SayNothingActs, AnswerActs, DieActs
  <1> QED
    BY <1>1, <1>2, <1>3 DEF DeliveryNext

LEMMA DeliveryInvariance == DeliverySpec => []DeliveryInv
  BY DeliveryBegins, DeliveryActs, PTL DEF DeliverySpec

(* The record of the manual, what is typed, drafted, due and shown, and what   *)
(* is remembered of it have their types, for any agents, sessions and families. *)
THEOREM DeliveryTypeCorrect == DeliverySpec => []DeliveryTypeOK
  <1>1. DeliveryInv => DeliveryTypeOK
    BY DEF DeliveryInv
  <1> QED
    BY <1>1, DeliveryInvariance, PTL

(* No command is answered before its session was shown the core and the how-to *)
(* of its family, but for what another process is about to show, died with, or  *)
(* an rtfm recorded and did not print: however many processes overtake one     *)
(* another at the file, and whether their updates succeed (Claim, saveState).   *)
THEOREM NobodyIsLeftUninstructed == DeliverySpec => []Instructed
  <1>1. DeliveryInv => Instructed
    BY DEF DeliveryInv, AgentInv, NeedIsMet, Instructed, Seen
  <1> QED
    BY <1>1, DeliveryInvariance, PTL

(* A command is due nothing its session was already given, while the session   *)
(* has not lapsed and no update of the record overtook another.                *)
THEOREM NothingIsToldTwice == DeliverySpec => NotTwice
  <1>1. ASSUME DeliveryInv, [DeliveryNext]_deliveryVars
        PROVE  [\A p \in Agent :
                  /\ stage[p] \in {"refuse", "ran"} /\ stage'[p] \in {"save", "saveRefused"}
                  /\ typed[p].kind = "command" /\ ModeOf[p] = "progressive"
                  /\ p \notin Homeless /\ ChatOf[p] \notin muddled /\ Alive(renewed[ChatOf[p]])
                  => due'[p] \cap credit[ChatOf[p]] = {}]_deliveryVars
    <2> SUFFICES ASSUME NEW p \in Agent,
                        stage[p] \in {"refuse", "ran"}, stage'[p] \in {"save", "saveRefused"},
                        typed[p].kind = "command", ModeOf[p] = "progressive",
                        p \notin Homeless, ChatOf[p] \notin muddled,
                        Alive(renewed[ChatOf[p]]), DeliveryNext
                 PROVE  due'[p] \cap credit[ChatOf[p]] = {}
      BY <1>1
    <2> DEFINE s == ChatOf[p]
               f == FamilyFor[typed[p].top]
    <2>1. /\ s \in Chat /\ tick \in 1 .. LastTick /\ typed[p] \in Typed
          /\ state[s] \in SessionState
      BY <1>1, DeliveryAssumption DEF DeliveryInv, DeliveryTypeOK, AgentInv
    <2>2. Load(p)
      <3>1. ~Elapse
        BY DEF Elapse, own
      <3>2. PICK q \in Agent : Type(q) \/ Load(q) \/ Save(q) \/ PrintText(q)
                                  \/ SayNothing(q) \/ AnswerIs(q) \/ Die(q)
        BY <3>1 DEF DeliveryNext
      <3>3. stage \in [Agent -> DeliveryStage]
        BY <1>1 DEF DeliveryInv, DeliveryTypeOK, DeliveryStage
      <3>4. \A label : StageIs(q, label) => q = p /\ label \in {"save", "saveRefused"}
        BY <3>3 DEF StageIs
      <3>5. ~Type(q)
        BY <3>4 DEF Type
      <3>6. ~Save(q)
        BY <3>4 DEF Save
      <3>7. ~PrintText(q)
        BY <3>4 DEF PrintText
      <3>8. ~SayNothing(q)
        BY <3>4 DEF SayNothing
      <3>9. ~AnswerIs(q) /\ ~Die(q)
        BY <3>4 DEF AnswerIs, Die, Rest
      <3>10. q = p
        BY <3>2, <3>4, <3>5, <3>6, <3>7, <3>8, <3>9 DEF Load
      <3> QED
        BY <3>2, <3>5, <3>6, <3>7, <3>8, <3>9, <3>10
    <2>3. due'[p] = ClaimText(p)
      BY <1>1, <2>2 DEF Load, DeliveryInv, DeliveryTypeOK
    <2>4. state[s].last = renewed[s] /\ credit[s] \subseteq Given(state[s])
      BY <1>1, <2>1 DEF DeliveryInv, Credited
    <2>5. LoadedFor(p)[s] = state[s]
      BY <1>1, <2>1, <2>4, LoadReads DEF DeliveryInv
    <2>6. f \in Family \cup {NoFamily}
      BY <2>1, DeliveryAssumption DEF Typed
    <2>7. due'[p] = Claimed(state[s], "progressive", f)
      BY <2>3, <2>5 DEF ClaimText
    <2> HIDE DEF f
    <2>8. due'[p] \cap Given(state[s]) = {}
      BY <2>1, <2>6, <2>7, ClaimGives
    <2> QED
      BY <2>4, <2>8
  <1> QED
    BY <1>1, DeliveryInvariance, PTL DEF DeliverySpec, NotTwice

-----------------------------------------------------------------------------
(* The short ids.                                                            *)

IdStep == {"rest", "load", "assign", "write", "print", "resolve", "answer"}

IdReader ==
    [step : IdStep, rows : SUBSET Row, entries : Registry, asked : Id \cup {Torn},
     found : Row \cup {Torn}]

\* Nobody shares an id, and every id is of its row's hash.
Ours(e) == IsInjective(e) /\ \A j \in DOMAIN e : e[j] \in ToSet(Candidates[j])

\* What was printed is still in e.
Keeps(e) == \A t \in told : t[2] \in DOMAIN e /\ e[t[2]] = t[1]

OneReader ==
    \A p, q \in Reader : reader[p].step # "rest" /\ reader[q].step # "rest" => p = q

\* How far a process has come with what it took from the file.
Holds(r) ==
    /\ r.step \in {"assign", "write", "print", "resolve"} => Keeps(r.entries)
    /\ r.step = "print" => file = r.entries
    /\ r.step \in {"load", "resolve"} /\ r.asked # Torn => \E t \in told : t[1] = r.asked
    /\ r.step = "resolve" => r.asked # Torn
    /\ r.step = "answer" => <<r.asked, r.found>> \in told

Kept ==
    /\ file = Torn => \E p \in Reader : reader[p].step = "write"
    /\ file # Torn => Keeps(file)
    /\ \A p \in Reader : Holds(reader[p])

IdsInv ==
    /\ reader \in [Reader -> IdReader] /\ told \subseteq Id \X Row /\ solo \in BOOLEAN
    /\ file # Torn => file \in Registry /\ Ours(file)
    /\ \A p \in Reader :
           /\ Ours(reader[p].entries)
           /\ reader[p].step \in {"write", "print"} =>
                  reader[p].rows \subseteq DOMAIN reader[p].entries
    /\ solo => OneReader /\ Kept

\* A registry is a function from some rows to ids.
LEMMA RegistryShape ==
    \A e : e \in Registry <=> DOMAIN e \subseteq Row /\ e \in [DOMAIN e -> Id]
  BY DEF Registry

LEMMA NoIdsShape == NoIds \in Registry /\ Ours(NoIds) /\ DOMAIN NoIds = {}
  <1>1. DOMAIN NoIds = {} /\ NoIds \in [{} -> Id]
    BY DEF NoIds
  <1>2. QED
    BY <1>1, RegistryShape DEF Ours, IsInjective

LEMMA RestShape ==
    /\ AtRest \in IdReader /\ AtRest.step = "rest" /\ AtRest.rows = {}
    /\ AtRest.entries = NoIds /\ AtRest.asked = Torn /\ AtRest.found = Torn
  BY NoIdsShape DEF AtRest, IdReader, IdStep

LEMMA IdsBegin == IdsInit => IdsInv
  <1> SUFFICES ASSUME IdsInit PROVE IdsInv
    OBVIOUS
  <1>1. reader \in [Reader -> IdReader] /\ \A p \in Reader : reader[p] = AtRest
    BY RestShape DEF IdsInit
  <1>2. file = NoIds /\ told = {} /\ file # Torn
    BY NoIdsShape, IdsAssumption DEF IdsInit
  <1>3. solo \in BOOLEAN
    BY DEF IdsInit
  <1>4. OneReader /\ Kept
    BY <1>1, <1>2, RestShape DEF OneReader, Kept, Keeps, Holds
  <1>5. QED
    BY <1>1, <1>2, <1>3, <1>4, RestShape, NoIdsShape DEF IdsInv

\* What is known of a process before its step.
LEMMA ReaderShape ==
    ASSUME IdsInv, NEW p \in Reader
    PROVE  /\ reader[p] \in IdReader /\ reader[p].step \in IdStep
           /\ reader[p].rows \in SUBSET Row /\ reader[p].entries \in Registry
           /\ reader[p].asked \in Id \cup {Torn} /\ reader[p].found \in Row \cup {Torn}
           /\ Ours(reader[p].entries)
           /\ reader[p].step \in {"write", "print"} =>
                  reader[p].rows \subseteq DOMAIN reader[p].entries
           /\ solo => Holds(reader[p])
  <1>1. reader[p] \in IdReader
    BY DEF IdsInv
  <1>2. QED
    BY <1>1 DEF IdsInv, IdReader, Kept

\* A step of p alone: the others are where they were and, alone, at rest.
LEMMA OneReads ==
    ASSUME IdsInv, NEW p \in Reader, NEW u \in IdReader, reader' = [reader EXCEPT ![p] = u],
           told' \subseteq Id \X Row, solo' \in BOOLEAN, solo' => solo,
           solo' /\ reader[p].step = "rest" => Others(p) = {},
           file' # Torn => file' \in Registry /\ Ours(file'),
           Ours(u.entries), u.step \in {"write", "print"} => u.rows \subseteq DOMAIN u.entries,
           solo' => /\ file' = Torn => u.step = "write"
                    /\ file' # Torn => Keeps(file)'
                    /\ Holds(u)'
    PROVE  IdsInv'
  <1>1. reader' \in [Reader -> IdReader] /\ reader'[p] = u
        /\ \A q \in Reader \ {p} : reader'[q] = reader[q]
    BY DEF IdsInv
  <1>2. \A q \in Reader :
            /\ Ours(reader'[q].entries)
            /\ reader'[q].step \in {"write", "print"} =>
                   reader'[q].rows \subseteq DOMAIN reader'[q].entries
    BY <1>1 DEF IdsInv
  <1>3. ASSUME solo' PROVE OneReader' /\ Kept'
    <2>1. \A q \in Reader \ {p} : reader[q].step = "rest"
      BY <1>3 DEF IdsInv, OneReader, Others
    <2>2. OneReader'
      BY <1>1, <2>1 DEF OneReader
    <2>3. \A q \in Reader : Holds(reader[q])'
      BY <1>1, <1>3, <2>1 DEF Holds
    <2>4. QED
      BY <1>1, <1>3, <2>2, <2>3 DEF Kept
  <1>4. QED
    BY <1>1, <1>2, <1>3 DEF IdsInv

\* Beginnings.
LEMMA StartReadKeeps ==
    \A p \in Reader : IdsInv /\ (StartListing(p) \/ StartShow(p)) => IdsInv'
  <1> SUFFICES ASSUME NEW p \in Reader, IdsInv, StartListing(p) \/ StartShow(p) PROVE IdsInv'
    OBVIOUS
  <1>1. /\ reader[p].step = "rest" /\ UNCHANGED <<file, told>>
        /\ solo' = (solo /\ Others(p) = {})
    BY DEF StartListing, StartShow, Overlaps
  <1>2. \E u \in IdReader :
            /\ reader' = [reader EXCEPT ![p] = u] /\ u.step = "load" /\ u.entries = NoIds
            /\ u.asked # Torn => \E t \in told : t[1] = u.asked
    <2>1. CASE StartListing(p)
      <3>1. PICK rows \in SUBSET Row :
                reader' = [reader EXCEPT ![p] = [AtRest EXCEPT !.step = "load", !.rows = rows]]
        BY <2>1 DEF StartListing
      <3>2. [AtRest EXCEPT !.step = "load", !.rows = rows] \in IdReader
        BY RestShape DEF IdReader, IdStep
      <3>3. PICK u \in IdReader : u = [AtRest EXCEPT !.step = "load", !.rows = rows]
        BY <3>2
      <3>4. u.step = "load" /\ u.entries = NoIds /\ u.asked = Torn
        BY <3>3 DEF AtRest
      <3>5. QED
        BY <3>1, <3>3, <3>4
    <2>2. CASE StartShow(p)
      <3>1. PICK t \in told :
                reader' = [reader EXCEPT ![p] = [AtRest EXCEPT !.step = "load", !.asked = t[1]]]
        BY <2>2 DEF StartShow
      <3>2. t[1] \in Id
        BY DEF IdsInv
      <3>3. [AtRest EXCEPT !.step = "load", !.asked = t[1]] \in IdReader
        BY <3>2, RestShape DEF IdReader, IdStep
      <3>4. PICK u \in IdReader : u = [AtRest EXCEPT !.step = "load", !.asked = t[1]]
        BY <3>3
      <3>5. u.step = "load" /\ u.entries = NoIds /\ u.asked = t[1]
        BY <3>4 DEF AtRest
      <3>6. QED
        BY <3>1, <3>4, <3>5
    <2>3. QED
      BY <2>1, <2>2
  <1>3. PICK u \in IdReader :
            /\ reader' = [reader EXCEPT ![p] = u] /\ u.step = "load" /\ u.entries = NoIds
            /\ u.asked # Torn => \E t \in told : t[1] = u.asked
    BY <1>2
  <1>4. solo' \in BOOLEAN /\ (solo' => solo /\ Others(p) = {})
    BY <1>1 DEF IdsInv
  <1>5. solo' => file # Torn /\ Keeps(file)
    <2> SUFFICES ASSUME solo' PROVE file # Torn /\ Keeps(file)
      OBVIOUS
    <2>1. \A q \in Reader : reader[q].step = "rest"
      BY <1>1, <1>4 DEF Others
    <2>2. QED
      BY <1>4, <2>1 DEF IdsInv, Kept
  <1>6. solo' => Holds(u)' /\ Keeps(file)'
    BY <1>1, <1>3, <1>5 DEF Holds, Keeps
  <1>7. file' # Torn => file' \in Registry /\ Ours(file')
    BY <1>1 DEF IdsInv
  <1>8. told' \subseteq Id \X Row
    BY <1>1 DEF IdsInv
  <1>9. QED
    BY <1>1, <1>3, <1>4, <1>5, <1>6, <1>7, <1>8, NoIdsShape, OneReads

\* A reader that is under way alone: the file stands unless it is the one that writes it.
LEMMA AloneAtWork ==
    ASSUME IdsInv, solo, NEW p \in Reader, reader[p].step \notin {"rest", "write"}
    PROVE  file # Torn /\ Keeps(file) /\ Holds(reader[p])
  BY DEF IdsInv, OneReader, Kept

\* A step that leaves the file and what was printed as they are.
LEMMA OneThinks ==
    ASSUME IdsInv, NEW p \in Reader, reader[p].step \notin {"rest", "write"}, NEW u \in IdReader,
           reader' = [reader EXCEPT ![p] = u], UNCHANGED <<file, told, solo>>,
           Ours(u.entries), u.step \in {"write", "print"} => u.rows \subseteq DOMAIN u.entries,
           solo => Holds(u)
    PROVE  IdsInv'
  <1>1. told' \subseteq Id \X Row /\ solo' \in BOOLEAN /\ (solo' => solo)
        /\ (file' # Torn => file' \in Registry /\ Ours(file'))
    BY DEF IdsInv
  <1>2. solo' => /\ file' # Torn /\ Keeps(file)' /\ Holds(u)'
    BY <1>1, AloneAtWork DEF Keeps, Holds
  <1>3. QED
    BY <1>1, <1>2, OneReads

\* What is loaded is the file, or nothing where it does not parse.
LEMMA LoadIdsKeeps == \A p \in Reader : IdsInv /\ LoadIds(p) => IdsInv'
  <1> SUFFICES ASSUME NEW p \in Reader, IdsInv, LoadIds(p) PROVE IdsInv'
    OBVIOUS
  <1>1. /\ reader[p].step = "load" /\ UNCHANGED <<file, told, solo>>
        /\ reader' = [reader EXCEPT ![p].entries = IF file = Torn THEN NoIds ELSE file,
                          ![p].step = IF reader[p].asked = Torn THEN "assign" ELSE "resolve"]
    BY DEF LoadIds
  <1>2. PICK e \in Registry : e = IF file = Torn THEN NoIds ELSE file
    BY NoIdsShape DEF IdsInv
  <1>3. Ours(e)
    BY <1>2, NoIdsShape DEF IdsInv
  <1>4. PICK next \in {"assign", "resolve"} :
            next = IF reader[p].asked = Torn THEN "assign" ELSE "resolve"
    OBVIOUS
  <1>5. [reader[p] EXCEPT !.entries = e, !.step = next] \in IdReader
    BY ReaderShape DEF IdReader, IdStep
  <1>6. PICK u \in IdReader : u = [reader[p] EXCEPT !.entries = e, !.step = next]
    BY <1>5
  <1>7. u.step = next /\ u.entries = e /\ u.asked = reader[p].asked
    BY <1>6, ReaderShape DEF IdReader
  <1>8. reader' = [reader EXCEPT ![p] = u]
    BY <1>1, <1>2, <1>4, <1>6
  <1>9. solo => Holds(u)
    <2> SUFFICES ASSUME solo PROVE Holds(u)
      OBVIOUS
    <2>1. file # Torn /\ Keeps(file) /\ Holds(reader[p])
      BY <1>1, AloneAtWork
    <2>2. QED
      BY <1>1, <1>2, <1>4, <1>7, <2>1 DEF Holds
  <1>10. QED
    BY <1>1, <1>3, <1>4, <1>7, <1>8, <1>9, OneThinks

\* The least of some numbers.
LEMMA LeastIsOne == \A S \in SUBSET Nat : S # {} => Min(S) \in S
  <1> SUFFICES ASSUME NEW S \in SUBSET Nat, S # {} PROVE Min(S) \in S
    OBVIOUS
  <1>1. PICK x \in S : \A y \in S : ~(<<y, x>> \in OpToRel(<, Nat))
    BY WFMin, NatLessThanWellFounded
  <1>2. ASSUME NEW y \in S PROVE x =< y
    <2>1. x \in Nat /\ y \in Nat /\ ~(y < x)
      BY <1>1 DEF OpToRel
    <2>2. QED
      BY <2>1
  <1>3. QED
    BY <1>2 DEF Min

\* Some prefix of a row's hash is free, for no other row's hash has all of it.
LEMMA GenerateIsFree ==
    ASSUME NEW e \in Registry, Ours(e), NEW k \in Row, k \notin DOMAIN e
    PROVE  /\ generate(e, k) \in Id /\ generate(e, k) \in ToSet(Candidates[k])
           /\ \A j \in DOMAIN e : e[j] # generate(e, k)
  <1> DEFINE c == Candidates[k]
             free == {n \in DOMAIN c : c[n] \notin Range(e)}
  <1>1. c \in Seq(Id) /\ c # <<>>
    BY IdsAssumption
  <1>2. Len(c) \in Nat /\ DOMAIN c = 1 .. Len(c) /\ Len(c) \in DOMAIN c
    BY <1>1
  <1>3. \A j \in DOMAIN e : e[j] # c[Len(c)]
    <2>1. ASSUME NEW j \in DOMAIN e PROVE e[j] # c[Len(c)]
      <3>1. j \in Row /\ j # k /\ e[j] \in ToSet(Candidates[j])
        BY RegistryShape DEF Ours
      <3>2. Last(Candidates[k]) \notin ToSet(Candidates[j])
        BY <3>1, IdsAssumption
      <3>3. QED
        BY <3>1, <3>2 DEF Last
    <2>2. QED
      BY <2>1
  <1>4. Len(c) \in free
    BY <1>2, <1>3 DEF Range
  <1>5. free \in SUBSET Nat /\ free # {}
    BY <1>2, <1>4
  <1>6. Min(free) \in free
    BY <1>5, LeastIsOne
  <1>7. generate(e, k) = c[Min(free)]
    BY DEF generate
  <1>8. Min(free) \in DOMAIN c /\ c[Min(free)] \notin Range(e)
    BY <1>6
  <1>9. c[Min(free)] \in Id /\ c[Min(free)] \in ToSet(c)
    <2>1. \A n \in DOMAIN c : c[n] \in Id
      BY <1>1, <1>2
    <2>2. \A n \in DOMAIN c : c[n] \in ToSet(c)
      BY DEF ToSet
    <2>3. QED
      BY <1>8, <2>1, <2>2
  <1>10. \A j \in DOMAIN e : e[j] # c[Min(free)]
    BY <1>8 DEF Range
  <1>11. QED
    BY <1>7, <1>9, <1>10

\* A new row takes an id nobody has; the others keep theirs.
LEMMA GetOrCreateKeeps == \A p \in Reader : IdsInv /\ GetOrCreate(p) => IdsInv'
  <1> SUFFICES ASSUME NEW p \in Reader, IdsInv, GetOrCreate(p) PROVE IdsInv'
    OBVIOUS
  <1>1. PICK e \in Registry : e = reader[p].entries
    BY ReaderShape
  <1>2. reader[p].step = "assign" /\ UNCHANGED <<file, told, solo>>
    BY DEF GetOrCreate
  <1>3. PICK k \in reader[p].rows \ DOMAIN reader[p].entries :
            reader' = [reader EXCEPT ![p].entries =
                         [x \in DOMAIN reader[p].entries \cup {k} |->
                             IF x = k THEN generate(reader[p].entries, k)
                             ELSE reader[p].entries[x]]]
    BY DEF GetOrCreate
  <1>4. k \in Row /\ k \notin DOMAIN e /\ Ours(e)
    BY <1>1, <1>3, ReaderShape
  <1>5. PICK g \in Id : /\ g = generate(e, k) /\ g \in ToSet(Candidates[k])
                        /\ \A j \in DOMAIN e : e[j] # g
    BY <1>4, GenerateIsFree
  <1>6. PICK f : f = [x \in DOMAIN reader[p].entries \cup {k} |->
                          IF x = k THEN generate(reader[p].entries, k) ELSE reader[p].entries[x]]
    OBVIOUS
  <1>7. DOMAIN e \subseteq Row /\ e \in [DOMAIN e -> Id]
    BY RegistryShape
  <1>8. /\ DOMAIN f = DOMAIN e \cup {k} /\ f[k] = g /\ \A x \in DOMAIN e : f[x] = e[x]
        /\ f \in [DOMAIN f -> Id]
    <2>1. /\ DOMAIN f = DOMAIN e \cup {k} /\ f[k] = g /\ \A x \in DOMAIN e : f[x] = e[x]
          /\ f = [x \in DOMAIN f |-> f[x]]
      BY <1>1, <1>4, <1>5, <1>6
    <2>2. QED
      BY <1>7, <2>1
  <1>9. f \in Registry
    BY <1>4, <1>7, <1>8, RegistryShape
  <1>10. Ours(f)
    BY <1>4, <1>5, <1>8 DEF Ours, IsInjective
  <1>11. [reader[p] EXCEPT !.entries = f] \in IdReader
    BY <1>9, ReaderShape DEF IdReader
  <1>12. PICK u \in IdReader : u = [reader[p] EXCEPT !.entries = f]
    BY <1>11
  <1>13. u.step = "assign" /\ u.entries = f
    BY <1>2, <1>12, ReaderShape DEF IdReader
  <1>14. reader' = [reader EXCEPT ![p] = u]
    BY <1>3, <1>6, <1>12
  <1>15. solo => Holds(u)
    <2> SUFFICES ASSUME solo PROVE Holds(u)
      OBVIOUS
    <2>1. Keeps(e)
      BY <1>1, <1>2, ReaderShape DEF Holds
    <2>2. Keeps(f)
      BY <1>8, <2>1 DEF Keeps
    <2>3. QED
      BY <1>13, <2>2 DEF Holds
  <1>16. QED
    BY <1>2, <1>10, <1>13, <1>14, <1>15, OneThinks

\* The file is torn while the one that tore it writes it anew, or is not touched at all.
LEMMA TruncateKeeps == \A p \in Reader : IdsInv /\ Truncate(p) => IdsInv'
  <1> SUFFICES ASSUME NEW p \in Reader, IdsInv, Truncate(p) PROVE IdsInv'
    OBVIOUS
  <1>1. reader[p].step = "assign" /\ reader[p].rows \subseteq DOMAIN reader[p].entries
        /\ told' = told
    BY DEF Truncate
  <1>2. PICK next \in {"write", "print"} :
            /\ reader' = [reader EXCEPT ![p].step = next]
            /\ next = "write" => file' = Torn /\ solo' = solo
            /\ next = "print" => file' = file /\ solo' = FALSE
    BY DEF Truncate
  <1>3. [reader[p] EXCEPT !.step = next] \in IdReader
    BY ReaderShape DEF IdReader, IdStep
  <1>4. PICK u \in IdReader : u = [reader[p] EXCEPT !.step = next]
    BY <1>3
  <1>5. u.step = next /\ u.entries = reader[p].entries /\ u.rows = reader[p].rows
    BY <1>4, ReaderShape DEF IdReader
  <1>6. reader' = [reader EXCEPT ![p] = u]
    BY <1>2, <1>4
  <1>7. solo' \in BOOLEAN /\ (solo' => solo /\ next = "write")
    <2>1. CASE next = "write"
      BY <1>2, <2>1 DEF IdsInv
    <2>2. CASE next = "print"
      BY <1>2, <2>2
    <2>3. QED
      BY <2>1, <2>2
  <1>8. file' # Torn => file' \in Registry /\ Ours(file')
    BY <1>2 DEF IdsInv
  <1>9. told' \subseteq Id \X Row
    BY <1>1 DEF IdsInv
  <1>10. solo' => /\ file' = Torn => u.step = "write"
                  /\ file' # Torn => Keeps(file)'
                  /\ Holds(u)'
    <2> SUFFICES ASSUME solo' PROVE file' = Torn /\ u.step = "write" /\ Holds(u)'
      OBVIOUS
    <2>1. Keeps(u.entries)
      BY <1>1, <1>5, <1>7, ReaderShape DEF Holds
    <2>2. QED
      BY <1>1, <1>2, <1>5, <1>7, <2>1 DEF Holds, Keeps
  <1>11. QED
    BY <1>1, <1>5, <1>6, <1>7, <1>8, <1>9, <1>10, ReaderShape, OneReads

LEMMA WriteIdsKeeps == \A p \in Reader : IdsInv /\ WriteIds(p) => IdsInv'
  <1> SUFFICES ASSUME NEW p \in Reader, IdsInv, WriteIds(p) PROVE IdsInv'
    OBVIOUS
  <1>1. /\ reader[p].step = "write" /\ file' = reader[p].entries
        /\ reader' = [reader EXCEPT ![p].step = "print"] /\ told' = told /\ solo' = solo
    BY DEF WriteIds
  <1>2. [reader[p] EXCEPT !.step = "print"] \in IdReader
    BY ReaderShape DEF IdReader, IdStep
  <1>3. PICK u \in IdReader : u = [reader[p] EXCEPT !.step = "print"]
    BY <1>2
  <1>4. u.step = "print" /\ u.entries = reader[p].entries /\ u.rows = reader[p].rows
    BY <1>3, ReaderShape DEF IdReader
  <1>5. reader' = [reader EXCEPT ![p] = u]
    BY <1>1, <1>3
  <1>6. solo' \in BOOLEAN /\ (solo' => solo) /\ told' \subseteq Id \X Row
    BY <1>1 DEF IdsInv
  <1>7. file' \in Registry /\ Ours(file') /\ file' # Torn
    BY <1>1, ReaderShape, IdsAssumption
  <1>8. solo' => Keeps(file)' /\ Holds(u)'
    BY <1>1, <1>4, ReaderShape DEF Holds, Keeps
  <1>9. QED
    BY <1>1, <1>4, <1>5, <1>6, <1>7, <1>8, ReaderShape, OneReads

\* What is printed is what was saved.
LEMMA PrintRowsKeeps == \A p \in Reader : IdsInv /\ PrintRows(p) => IdsInv'
  <1> SUFFICES ASSUME NEW p \in Reader, IdsInv, PrintRows(p) PROVE IdsInv'
    OBVIOUS
  <1>1. /\ reader[p].step = "print" /\ reader' = [reader EXCEPT ![p] = AtRest]
        /\ told' = told \cup {<<reader[p].entries[k], k>> : k \in reader[p].rows}
        /\ file' = file /\ solo' = solo
    BY DEF PrintRows
  <1>2. PICK e \in Registry : e = reader[p].entries
    BY ReaderShape
  <1>3. PICK rows \in SUBSET Row : rows = reader[p].rows /\ rows \subseteq DOMAIN e
    BY <1>1, <1>2, ReaderShape
  <1>4. \A k \in rows : e[k] \in Id /\ k \in Row
    BY <1>3, RegistryShape
  <1>5. told' = told \cup {<<e[k], k>> : k \in rows}
    BY <1>1, <1>2, <1>3
  <1>6. told' \subseteq Id \X Row
    BY <1>4, <1>5 DEF IdsInv
  <1>7. solo' \in BOOLEAN /\ (solo' => solo) /\ (file' # Torn => file' \in Registry /\ Ours(file'))
    BY <1>1 DEF IdsInv
  <1>8. solo' => file' # Torn /\ Keeps(file)' /\ Holds(AtRest)'
    <2> SUFFICES ASSUME solo' PROVE file' # Torn /\ Keeps(file)' /\ Holds(AtRest)'
      OBVIOUS
    <2>1. file # Torn /\ Keeps(file) /\ file = e
      BY <1>1, <1>2, <1>7, AloneAtWork DEF Holds
    <2>2. \A t \in told' : t[2] \in DOMAIN e /\ e[t[2]] = t[1]
      BY <1>3, <1>5, <2>1 DEF Keeps
    <2>3. QED
      BY <1>1, <2>1, <2>2, RestShape DEF Keeps, Holds
  <1>9. QED
    BY <1>1, <1>6, <1>7, <1>8, RestShape, NoIdsShape, OneReads

\* Whoever asks for an id that was printed is led to the row it was printed for.
LEMMA ResolveKeeps == \A p \in Reader : IdsInv /\ Resolve(p) => IdsInv'
  <1> SUFFICES ASSUME NEW p \in Reader, IdsInv, Resolve(p) PROVE IdsInv'
    OBVIOUS
  <1>1. PICK e \in Registry, id \in Id \cup {Torn} : e = reader[p].entries /\ id = reader[p].asked
    BY ReaderShape
  <1>2. PICK found : found = IF reader[p].asked \in Range(reader[p].entries)
                             THEN CHOOSE k \in DOMAIN reader[p].entries :
                                      reader[p].entries[k] = reader[p].asked
                             ELSE Torn
    OBVIOUS
  <1>3. /\ reader[p].step = "resolve" /\ UNCHANGED <<file, told, solo>>
        /\ reader' = [reader EXCEPT ![p].step = "answer", ![p].entries = NoIds, ![p].found = found]
    BY <1>2 DEF Resolve
  <1>4. id \in Range(e) => found \in DOMAIN e /\ e[found] = id
    BY <1>1, <1>2 DEF Range
  <1>5. found \in Row \cup {Torn}
    BY <1>1, <1>2, <1>4, RegistryShape
  <1>6. [reader[p] EXCEPT !.step = "answer", !.entries = NoIds, !.found = found] \in IdReader
    BY <1>5, ReaderShape, NoIdsShape DEF IdReader, IdStep
  <1>7. PICK u \in IdReader :
            u = [reader[p] EXCEPT !.step = "answer", !.entries = NoIds, !.found = found]
    BY <1>6
  <1>8. u.step = "answer" /\ u.entries = NoIds /\ u.asked = id /\ u.found = found
    BY <1>1, <1>7, ReaderShape DEF IdReader
  <1>9. reader' = [reader EXCEPT ![p] = u]
    BY <1>3, <1>7
  <1>10. solo => <<id, found>> \in told
    <2> SUFFICES ASSUME solo PROVE <<id, found>> \in told
      OBVIOUS
    <2>1. PICK t \in told : t[1] = id
      BY <1>1, <1>3, ReaderShape DEF Holds
    <2>2. t[2] \in DOMAIN e /\ e[t[2]] = id
      BY <1>1, <1>3, <2>1, ReaderShape DEF Holds, Keeps
    <2>3. id \in Range(e)
      BY <2>2 DEF Range
    <2>4. found = t[2]
      BY <1>1, <1>4, <2>2, <2>3, ReaderShape DEF Ours, IsInjective
    <2>5. t = <<t[1], t[2]>>
      BY DEF IdsInv
    <2>6. QED
      BY <2>1, <2>4, <2>5
  <1>11. solo => Holds(u)
    BY <1>8, <1>10 DEF Holds
  <1>12. QED
    BY <1>3, <1>8, <1>9, <1>11, NoIdsShape, OneThinks

\* A process that ends, answered or killed.
LEMMA ReaderEndsKeeps == \A p \in Reader : IdsInv /\ (Answer(p) \/ ReaderDies(p)) => IdsInv'
  <1> SUFFICES ASSUME NEW p \in Reader, IdsInv, Answer(p) \/ ReaderDies(p) PROVE IdsInv'
    OBVIOUS
  <1>1. /\ reader[p].step # "rest" /\ reader' = [reader EXCEPT ![p] = AtRest]
        /\ file' = file /\ told' = told
    BY DEF Answer, ReaderDies
  <1>2. solo' \in BOOLEAN /\ (solo' => solo /\ reader[p].step = "answer")
    <2>1. CASE Answer(p)
      BY <2>1 DEF Answer, IdsInv
    <2>2. CASE ReaderDies(p)
      BY <2>2 DEF ReaderDies
    <2>3. QED
      BY <2>1, <2>2
  <1>3. told' \subseteq Id \X Row /\ (file' # Torn => file' \in Registry /\ Ours(file'))
    BY <1>1 DEF IdsInv
  <1>4. solo' => file' # Torn /\ Keeps(file)' /\ Holds(AtRest)'
    BY <1>1, <1>2, AloneAtWork, RestShape DEF Keeps, Holds
  <1>5. QED
    BY <1>1, <1>2, <1>3, <1>4, RestShape, NoIdsShape, OneReads

LEMMA ClearIdsKeeps == \A p \in Reader : IdsInv /\ ClearIds(p) => IdsInv'
  <1> SUFFICES ASSUME NEW p \in Reader, IdsInv, ClearIds(p) PROVE IdsInv'
    OBVIOUS
  <1>1. /\ reader[p].step = "rest" /\ file' = NoIds /\ told' = {} /\ reader' = reader
        /\ solo' = (Others(p) = {})
    BY DEF ClearIds
  <1>2. NoIds # Torn /\ NoIds \in Registry /\ Ours(NoIds)
    BY NoIdsShape, IdsAssumption
  <1>3. solo' \in BOOLEAN
    BY <1>1
  <1>4. ASSUME solo' PROVE OneReader' /\ Kept'
    <2>1. \A q \in Reader : reader'[q].step = "rest"
      BY <1>1, <1>4 DEF Others
    <2>2. Keeps(file)'
      BY <1>1 DEF Keeps
    <2>3. QED
      BY <1>1, <1>2, <2>1, <2>2 DEF OneReader, Kept, Holds
  <1>5. QED
    BY <1>1, <1>2, <1>3, <1>4 DEF IdsInv

LEMMA IdsKeep == IdsInv /\ [IdsNext]_idVars => IdsInv'
  <1>1. IdsInv /\ UNCHANGED idVars => IdsInv'
    BY DEF IdsInv, idVars, OneReader, Kept, Keeps, Holds
  <1>2. QED
    BY <1>1, StartReadKeeps, LoadIdsKeeps, GetOrCreateKeeps, TruncateKeeps, WriteIdsKeeps,
       PrintRowsKeeps, ResolveKeeps, ReaderEndsKeeps, ClearIdsKeeps DEF IdsNext

\* The registry, on disk and in memory, is a function from rows to ids.
THEOREM IdsTypeCorrect == IdsSpec => []IdsTypeOK
  <1>1. IdsInv => IdsTypeOK
    BY ReaderShape DEF IdsInv, IdsTypeOK
  <1>2. QED
    BY <1>1, IdsBegin, IdsKeep, PTL DEF IdsSpec

\* pkg/ids, for any rows, any hashes and any number of processes: no two rows share an id,
\* and, one process at a time, an id that was printed leads to the row it was printed for
\* until the cache is cleared (Registry.generate, Registry.Resolve).
THEOREM PrintedIdsStay == IdsSpec => []AloneIdsStay
  <1>1. IdsInv => AloneIdsStay
    BY DEF IdsInv, AloneIdsStay, Ours, Kept, Holds
  <1>2. QED
    BY <1>1, IdsBegin, IdsKeep, PTL DEF IdsSpec

-----------------------------------------------------------------------------
(* The cache.                                                                *)

CacheStep ==
    {"away", "list", "get", "drop", "store", "stamp", "fetch log", "write log", "stamp log",
     "clear traces", "clear log", "clear meta", "clear samples", "cleared", "hist", "status"}

CacheUser ==
    [command : CacheCommand, step : CacheStep, toGet : SUBSET Trace,
     got : SUBSET (Trace \cup Generation)]

\* Where a command may stop without having cut the record in two.
Uncut == {"list", "get", "drop", "fetch log", "clear traces", "cleared", "status", "hist"}

\* What a process has fetched is what it is about to store.
Fetched ==
    \A p \in User :
        /\ user[p].step = "list" => user[p].got = {}
        /\ user[p].step \in {"get", "drop", "store", "stamp"} => user[p].got \subseteq Trace
        /\ user[p].step \in {"write log", "stamp log"} => user[p].got \subseteq Generation

\* No two commands overlap.
OneAtATime ==
    \A p, q \in User : user[p].step # "away" /\ user[q].step # "away" => p = q

TracesStand == tracesStamp # Never => tracesStamp = stored
LogStands == logFile = logsStamp

\* How far the command of p has come with the disk.
Midway(u) ==
    /\ u.step \in Uncut => TracesStand /\ LogStands
    /\ u.step = "store" => stored = {} /\ LogStands
    /\ u.step = "stamp" => stored = u.got /\ LogStands
    /\ u.step = "write log" => TracesStand /\ \A g, h \in u.got : g = h
    /\ u.step = "stamp log" => TracesStand /\ \A g \in u.got : g = logFile
    /\ u.step \in {"clear log", "clear meta", "clear samples", "cleared"} => stored = {}
    /\ u.step \in {"clear meta", "clear samples", "cleared"} => logFile = Never
    /\ u.step \in {"clear samples", "cleared"} => tracesStamp = Never /\ logsStamp = Never
    /\ u.step = "cleared" => samples = {}

Told ==
    /\ (\A p \in User : user[p].step = "away") => TracesStand /\ LogStands
    /\ \A p \in User : Midway(user[p])

CacheInv ==
    /\ CacheTypeOK /\ user \in [User -> CacheUser] /\ unbroken \in BOOLEAN
    /\ Fetched
    /\ unbroken => OneAtATime /\ Told

LEMMA CacheBegins == CacheInit => CacheInv
  <1> SUFFICES ASSUME CacheInit PROVE CacheInv
    OBVIOUS
  <1>1. Away \in CacheUser /\ Away.step = "away"
    BY DEF Away, CacheUser, CacheStep, CacheCommand
  <1>2. user \in [User -> CacheUser] /\ \A p \in User : user[p].step = "away"
    BY <1>1 DEF CacheInit
  <1>3. CacheTypeOK /\ TracesStand /\ LogStands
    <2>0. tracesStamp = Never /\ logFile = Never /\ logsStamp = Never
      BY DEF CacheInit
    <2>1. tracesStamp \in (SUBSET Trace) \cup {Never} /\ logFile \in Generation \cup {Never}
          /\ logsStamp \in Generation \cup {Never}
      BY <2>0
    <2>2. generation \in Generation /\ stored \subseteq Trace /\ samples \subseteq Sample
      BY DEF CacheInit, Generation
    <2>3. QED
      BY <2>1, <2>2 DEF CacheInit, CacheTypeOK, TracesStand, LogStands
  <1>4. unbroken \in BOOLEAN
    BY DEF CacheInit
  <1>5. Fetched /\ OneAtATime /\ Told
    BY <1>2, <1>3 DEF Fetched, OneAtATime, Told, Midway, Uncut
  <1>6. QED
    BY <1>2, <1>3, <1>4, <1>5 DEF CacheInv

\* A step of p that keeps to itself: what the others are at does not change, and while
\* nothing is broken they are away.
LEMMA OneMoves ==
    ASSUME CacheInv, NEW p \in User, NEW u \in CacheUser,
           user' = [user EXCEPT ![p] = u],
           unbroken' \in BOOLEAN, unbroken' => unbroken,
           unbroken' /\ user[p].step = "away" => ~Busy(p),
           CacheTypeOK',
           u.step = "list" => u.got = {},
           u.step \in {"get", "drop", "store", "stamp"} => u.got \subseteq Trace,
           u.step \in {"write log", "stamp log"} => u.got \subseteq Generation,
           unbroken' => Midway(u)',
           unbroken' /\ u.step = "away" => TracesStand' /\ LogStands'
    PROVE  CacheInv'
  <1>1. user' \in [User -> CacheUser] /\ user'[p] = u /\ \A q \in User \ {p} : user'[q] = user[q]
    BY DEF CacheInv
  <1>2. Fetched'
    BY <1>1 DEF CacheInv, Fetched
  <1>3. ASSUME unbroken' PROVE OneAtATime' /\ Told'
    <2>1. \A q \in User \ {p} : user[q].step = "away"
      BY <1>3 DEF CacheInv, OneAtATime, Busy
    <2>2. OneAtATime'
      BY <1>1, <2>1 DEF OneAtATime
    <2>3. \A q \in User : Midway(user[q])'
      BY <1>1, <1>3, <2>1 DEF Midway, Uncut
    <2>4. QED
      BY <1>1, <1>3, <2>2, <2>3 DEF Told
  <1>4. QED
    BY <1>1, <1>2, <1>3 DEF CacheInv

\* The command of p before its step.
LEMMA UserShape ==
    ASSUME CacheInv, NEW p \in User
    PROVE  /\ user[p] \in CacheUser /\ user[p].step \in CacheStep
           /\ user[p].command \in CacheCommand
           /\ user[p].toGet \in SUBSET Trace /\ user[p].got \in SUBSET (Trace \cup Generation)
           /\ user[p].step = "list" => user[p].got = {}
           /\ user[p].step \in {"get", "drop", "store", "stamp"} => user[p].got \subseteq Trace
           /\ user[p].step \in {"write log", "stamp log"} => user[p].got \subseteq Generation
           /\ unbroken => /\ Midway(user[p])
                          /\ (user[p].step = "away" /\ ~Busy(p) => TracesStand /\ LogStands)
  <1>1. user[p] \in CacheUser
    BY DEF CacheInv
  <1>2. unbroken => /\ Midway(user[p])
                    /\ (user[p].step = "away" /\ ~Busy(p) => TracesStand /\ LogStands)
    BY DEF CacheInv, Told, Busy
  <1>3. QED
    BY <1>1, <1>2 DEF CacheInv, CacheUser, Fetched

\* A step that only goes on to the next.
LEMMA GoesOn ==
    ASSUME CacheInv, NEW p \in User, NEW next \in CacheStep, Moves(p, next)
    PROVE  \E u \in CacheUser :
               /\ user' = [user EXCEPT ![p] = u]
               /\ u.step = next /\ u.got = user[p].got /\ u.toGet = user[p].toGet
               /\ u.command = user[p].command
  <1> DEFINE u == [user[p] EXCEPT !.step = next]
  <1>1. u \in CacheUser /\ u.step = next /\ u.got = user[p].got /\ u.toGet = user[p].toGet
        /\ u.command = user[p].command
    BY UserShape DEF CacheUser
  <1>2. user' = [user EXCEPT ![p] = u]
    BY DEF Moves
  <1>3. QED
    BY <1>1, <1>2

LEMMA AwayShape == Away \in CacheUser /\ Away.step = "away" /\ Away.got = {} /\ Away.toGet = {}
  BY DEF Away, CacheUser, CacheStep, CacheCommand

\* Where nothing is half done, what is stored and what is stamped agree.
LEMMA Standing ==
    ASSUME CacheInv, NEW p \in User, unbroken, user[p].step \in Uncut
    PROVE  TracesStand /\ LogStands
  BY UserShape DEF Midway

LEMMA StandsOn ==
    ASSUME TracesStand, LogStands, UNCHANGED cacheDisk, NEW u, u.step \in Uncut \ {"cleared"}
    PROVE  Midway(u)'
  BY DEF Midway, Uncut, TracesStand, LogStands, cacheDisk

\* A step of a command under way that nothing cuts short.
LEMMA OneGoesOn ==
    ASSUME CacheInv, NEW p \in User, NEW u \in CacheUser, user[p].step # "away",
           user' = [user EXCEPT ![p] = u], UNCHANGED unbroken, CacheTypeOK',
           u.step = "list" => u.got = {},
           u.step \in {"get", "drop", "store", "stamp"} => u.got \subseteq Trace,
           u.step \in {"write log", "stamp log"} => u.got \subseteq Generation,
           unbroken => Midway(u)',
           unbroken /\ u.step = "away" => TracesStand' /\ LogStands'
    PROVE  CacheInv'
  <1>1. unbroken' \in BOOLEAN /\ (unbroken' => unbroken)
    BY DEF CacheInv
  <1>2. unbroken' => Midway(u)'
    BY <1>1
  <1>3. QED
    BY <1>1, <1>2, OneMoves

LEMMA StartCacheKeeps == \A p \in User : CacheInv /\ StartCache(p) => CacheInv'
  <1> SUFFICES ASSUME NEW p \in User, CacheInv, StartCache(p) PROVE CacheInv'
    OBVIOUS
  <1>1. PICK c \in CacheCommand :
            /\ user' = [user EXCEPT ![p] = [Away EXCEPT !.command = c, !.step = FirstStep(c)]]
            /\ unbroken' = (unbroken /\ ~Busy(p))
    BY DEF StartCache
  <1> DEFINE u == [Away EXCEPT !.command = c, !.step = FirstStep(c)]
  <1>2. FirstStep(c) \in {"list", "fetch log", "clear traces", "hist", "status"}
    BY DEF FirstStep, CacheCommand
  <1>3. u \in CacheUser /\ u.step = FirstStep(c) /\ u.got = {}
    BY <1>2 DEF Away, CacheUser, CacheStep
  <1> HIDE DEF u
  <1>4. user[p].step = "away" /\ UNCHANGED cacheDisk /\ UNCHANGED generation
    BY DEF StartCache, In
  <1>5. unbroken' \in BOOLEAN /\ (unbroken' => unbroken /\ ~Busy(p))
    BY <1>1 DEF CacheInv
  <1>6. CacheTypeOK'
    BY <1>4 DEF CacheInv, CacheTypeOK, cacheDisk
  <1>7. unbroken' => Midway(u)'
    BY <1>2, <1>3, <1>4, <1>5, UserShape DEF Midway, Uncut, TracesStand, LogStands, cacheDisk
  <1>8. user' = [user EXCEPT ![p] = u]
    BY <1>1 DEF u
  <1>9. QED
    BY <1>2, <1>3, <1>4, <1>5, <1>6, <1>7, <1>8, OneMoves

\* Looking, before anything is written.
LEMMA ListTracesKeeps == \A p \in User : CacheInv /\ ListTraces(p) => CacheInv'
  <1> SUFFICES ASSUME NEW p \in User, CacheInv, ListTraces(p) PROVE CacheInv'
    OBVIOUS
  <1>1. PICK some \in SUBSET Trace : user' = [user EXCEPT ![p].toGet = some, ![p].step = "get"]
    BY DEF ListTraces
  <1>2. user[p].step = "list" /\ UNCHANGED <<cacheDisk, generation, unbroken>>
    BY DEF ListTraces, In
  <1>3. [user[p] EXCEPT !.toGet = some, !.step = "get"] \in CacheUser
    BY UserShape DEF CacheUser, CacheStep
  <1>4. PICK u \in CacheUser : u = [user[p] EXCEPT !.toGet = some, !.step = "get"]
    BY <1>3
  <1>5. u.step = "get" /\ u.got = {} /\ user' = [user EXCEPT ![p] = u]
    BY <1>1, <1>2, <1>4, UserShape DEF CacheUser
  <1>6. CacheTypeOK'
    BY <1>2 DEF CacheInv, CacheTypeOK, cacheDisk
  <1>7. unbroken => Midway(u)'
    BY <1>2, <1>5, Standing, StandsOn DEF Uncut
  <1>8. QED
    BY <1>2, <1>5, <1>6, <1>7, OneGoesOn

\* One trace, or none: what is to be had shrinks, what was had grows.
LEMMA GetTraceKeeps == \A p \in User : CacheInv /\ (GetTrace(p) \/ NoneListed(p)) => CacheInv'
  <1> SUFFICES ASSUME NEW p \in User, CacheInv, GetTrace(p) \/ NoneListed(p) PROVE CacheInv'
    OBVIOUS
  <1>1. user[p].step = "get" /\ UNCHANGED <<cacheDisk, generation, unbroken>>
    BY DEF GetTrace, NoneListed, In
  <1>2. \E toGet \in SUBSET Trace, got \in SUBSET Trace, next \in {"get", "drop"} :
            user' = [user EXCEPT ![p] = [@ EXCEPT !.toGet = toGet, !.got = got, !.step = next]]
    <2>1. CASE GetTrace(p)
      <3>1. PICK t \in user[p].toGet, g \in BOOLEAN :
                user' = [user EXCEPT ![p].toGet = @ \ {t}, ![p].got = IF g THEN @ \cup {t} ELSE @,
                                     ![p].step = IF user[p].toGet = {t} THEN "drop" ELSE @]
        BY <2>1 DEF GetTrace
      <3>2. /\ user[p].toGet \ {t} \in SUBSET Trace
            /\ (IF g THEN user[p].got \cup {t} ELSE user[p].got) \in SUBSET Trace
            /\ (IF user[p].toGet = {t} THEN "drop" ELSE user[p].step) \in {"get", "drop"}
        BY <1>1, <3>1, UserShape
      <3>3. user' = [user EXCEPT ![p] =
                       [@ EXCEPT !.toGet = user[p].toGet \ {t},
                                 !.got = IF g THEN user[p].got \cup {t} ELSE user[p].got,
                                 !.step = IF user[p].toGet = {t} THEN "drop" ELSE user[p].step]]
        BY <3>1, UserShape DEF CacheInv, CacheUser
      <3>4. QED
        BY <3>2, <3>3
    <2>2. CASE NoneListed(p)
      <3>1. user' = [user EXCEPT ![p] = [@ EXCEPT !.toGet = user[p].toGet, !.got = user[p].got,
                                                  !.step = "drop"]]
        BY <2>2, UserShape DEF NoneListed, Moves, CacheInv, CacheUser
      <3>2. user[p].toGet \in SUBSET Trace /\ user[p].got \in SUBSET Trace
        BY <1>1, UserShape
      <3>3. QED
        BY <3>1, <3>2
    <2>3. QED
      BY <2>1, <2>2
  <1>3. PICK toGet \in SUBSET Trace, got \in SUBSET Trace, next \in {"get", "drop"} :
            user' = [user EXCEPT ![p] = [@ EXCEPT !.toGet = toGet, !.got = got, !.step = next]]
    BY <1>2
  <1>4. [user[p] EXCEPT !.toGet = toGet, !.got = got, !.step = next] \in CacheUser
    BY UserShape DEF CacheUser, CacheStep
  <1>5. PICK u \in CacheUser : u = [user[p] EXCEPT !.toGet = toGet, !.got = got, !.step = next]
    BY <1>4
  <1>6. /\ u.step \in {"get", "drop"} /\ u.got \subseteq Trace
        /\ user' = [user EXCEPT ![p] = u]
    BY <1>3, <1>5, UserShape DEF CacheUser
  <1>7. CacheTypeOK'
    BY <1>1 DEF CacheInv, CacheTypeOK, cacheDisk
  <1>8. unbroken => Midway(u)'
    BY <1>1, <1>6, Standing, StandsOn DEF Uncut
  <1>9. QED
    BY <1>1, <1>6, <1>7, <1>8, OneGoesOn

\* The traces of the last refresh go.
LEMMA DropTracesKeeps == \A p \in User : CacheInv /\ DropTraces(p) => CacheInv'
  <1> SUFFICES ASSUME NEW p \in User, CacheInv, DropTraces(p) PROVE CacheInv'
    OBVIOUS
  <1>1. /\ user[p].step = "drop" /\ Moves(p, "store") /\ unbroken' = unbroken
        /\ stored' = {} /\ UNCHANGED <<tracesStamp, logFile, logsStamp, samples, generation>>
    BY DEF DropTraces, In
  <1>2. PICK u \in CacheUser : /\ user' = [user EXCEPT ![p] = u]
                              /\ u.step = "store" /\ u.got = user[p].got
    <2>1. PICK next \in CacheStep : next = "store"
      BY DEF CacheStep
    <2>2. Moves(p, next)
      BY <1>1, <2>1
    <2>3. \E u \in CacheUser : /\ user' = [user EXCEPT ![p] = u]
                              /\ u.step = next /\ u.got = user[p].got
      BY <2>2, GoesOn
    <2>4. QED
      BY <2>1, <2>3
  <1>3. CacheTypeOK'
    BY <1>1, UserShape DEF CacheInv, CacheTypeOK
  <1>4. unbroken => Midway(u)'
    BY <1>1, <1>2, UserShape DEF Midway, Uncut, TracesStand, LogStands
  <1>5. QED
    BY <1>1, <1>2, <1>3, <1>4, UserShape, OneGoesOn

\* Those of this one come.
LEMMA StoreTracesKeeps == \A p \in User : CacheInv /\ StoreTraces(p) => CacheInv'
  <1> SUFFICES ASSUME NEW p \in User, CacheInv, StoreTraces(p) PROVE CacheInv'
    OBVIOUS
  <1>1. /\ user[p].step = "store" /\ Moves(p, "stamp") /\ unbroken' = unbroken
        /\ stored' = stored \cup user[p].got
        /\ UNCHANGED <<tracesStamp, logFile, logsStamp, samples, generation>>
    BY DEF StoreTraces, In
  <1>2. PICK u \in CacheUser : /\ user' = [user EXCEPT ![p] = u]
                              /\ u.step = "stamp" /\ u.got = user[p].got
    <2>1. PICK next \in CacheStep : next = "stamp"
      BY DEF CacheStep
    <2>2. Moves(p, next)
      BY <1>1, <2>1
    <2>3. \E u \in CacheUser : /\ user' = [user EXCEPT ![p] = u]
                              /\ u.step = next /\ u.got = user[p].got
      BY <2>2, GoesOn
    <2>4. QED
      BY <2>1, <2>3
  <1>3. CacheTypeOK'
    BY <1>1, UserShape DEF CacheInv, CacheTypeOK
  <1>4. unbroken => Midway(u)'
    BY <1>1, <1>2, UserShape DEF Midway, Uncut, TracesStand, LogStands
  <1>5. QED
    BY <1>1, <1>2, <1>3, <1>4, UserShape, OneGoesOn

\* The log is written.
LEMMA WriteLogKeeps == \A p \in User : CacheInv /\ WriteLog(p) => CacheInv'
  <1> SUFFICES ASSUME NEW p \in User, CacheInv, WriteLog(p) PROVE CacheInv'
    OBVIOUS
  <1>1. /\ user[p].step = "write log" /\ Moves(p, "stamp log") /\ unbroken' = unbroken
        /\ (\E g \in user[p].got : logFile' = g)
        /\ UNCHANGED <<stored, tracesStamp, logsStamp, samples, generation>>
    BY DEF WriteLog, In
  <1>2. PICK u \in CacheUser : /\ user' = [user EXCEPT ![p] = u]
                              /\ u.step = "stamp log" /\ u.got = user[p].got
    <2>1. PICK next \in CacheStep : next = "stamp log"
      BY DEF CacheStep
    <2>2. Moves(p, next)
      BY <1>1, <2>1
    <2>3. \E u \in CacheUser : /\ user' = [user EXCEPT ![p] = u]
                              /\ u.step = next /\ u.got = user[p].got
      BY <2>2, GoesOn
    <2>4. QED
      BY <2>1, <2>3
  <1>3. CacheTypeOK'
    BY <1>1, UserShape DEF CacheInv, CacheTypeOK
  <1>4. unbroken => Midway(u)'
    BY <1>1, <1>2, UserShape DEF Midway, Uncut, TracesStand, LogStands
  <1>5. QED
    BY <1>1, <1>2, <1>3, <1>4, UserShape, OneGoesOn

\* cache clear, table by table.
LEMMA ClearTracesKeeps == \A p \in User : CacheInv /\ ClearTraces(p) => CacheInv'
  <1> SUFFICES ASSUME NEW p \in User, CacheInv, ClearTraces(p) PROVE CacheInv'
    OBVIOUS
  <1>1. /\ user[p].step = "clear traces" /\ Moves(p, "clear log") /\ unbroken' = unbroken
        /\ stored' = {} /\ UNCHANGED <<tracesStamp, logFile, logsStamp, samples, generation>>
    BY DEF ClearTraces, In
  <1>2. PICK u \in CacheUser : /\ user' = [user EXCEPT ![p] = u]
                              /\ u.step = "clear log" /\ u.got = user[p].got
    <2>1. PICK next \in CacheStep : next = "clear log"
      BY DEF CacheStep
    <2>2. Moves(p, next)
      BY <1>1, <2>1
    <2>3. \E u \in CacheUser : /\ user' = [user EXCEPT ![p] = u]
                              /\ u.step = next /\ u.got = user[p].got
      BY <2>2, GoesOn
    <2>4. QED
      BY <2>1, <2>3
  <1>3. CacheTypeOK'
    BY <1>1, UserShape DEF CacheInv, CacheTypeOK
  <1>4. unbroken => Midway(u)'
    BY <1>1, <1>2, UserShape DEF Midway, Uncut, TracesStand, LogStands
  <1>5. QED
    BY <1>1, <1>2, <1>3, <1>4, UserShape, OneGoesOn

\* The log file.
LEMMA ClearLogsKeeps == \A p \in User : CacheInv /\ ClearLogs(p) => CacheInv'
  <1> SUFFICES ASSUME NEW p \in User, CacheInv, ClearLogs(p) PROVE CacheInv'
    OBVIOUS
  <1>1. /\ user[p].step = "clear log" /\ Moves(p, "clear meta") /\ unbroken' = unbroken
        /\ logFile' = Never /\ UNCHANGED <<stored, tracesStamp, logsStamp, samples, generation>>
    BY DEF ClearLogs, In
  <1>2. PICK u \in CacheUser : /\ user' = [user EXCEPT ![p] = u]
                              /\ u.step = "clear meta" /\ u.got = user[p].got
    <2>1. PICK next \in CacheStep : next = "clear meta"
      BY DEF CacheStep
    <2>2. Moves(p, next)
      BY <1>1, <2>1
    <2>3. \E u \in CacheUser : /\ user' = [user EXCEPT ![p] = u]
                              /\ u.step = next /\ u.got = user[p].got
      BY <2>2, GoesOn
    <2>4. QED
      BY <2>1, <2>3
  <1>3. CacheTypeOK'
    BY <1>1, UserShape DEF CacheInv, CacheTypeOK
  <1>4. unbroken => Midway(u)'
    BY <1>1, <1>2, UserShape DEF Midway, Uncut, TracesStand, LogStands
  <1>5. QED
    BY <1>1, <1>2, <1>3, <1>4, UserShape, OneGoesOn

\* The stamps.
LEMMA ClearMetaKeeps == \A p \in User : CacheInv /\ ClearMeta(p) => CacheInv'
  <1> SUFFICES ASSUME NEW p \in User, CacheInv, ClearMeta(p) PROVE CacheInv'
    OBVIOUS
  <1>1. /\ user[p].step = "clear meta" /\ Moves(p, "clear samples") /\ unbroken' = unbroken
        /\ tracesStamp' = Never /\ logsStamp' = Never
        /\ UNCHANGED <<stored, logFile, samples, generation>>
    BY DEF ClearMeta, In
  <1>2. PICK u \in CacheUser : /\ user' = [user EXCEPT ![p] = u]
                              /\ u.step = "clear samples" /\ u.got = user[p].got
    <2>1. PICK next \in CacheStep : next = "clear samples"
      BY DEF CacheStep
    <2>2. Moves(p, next)
      BY <1>1, <2>1
    <2>3. \E u \in CacheUser : /\ user' = [user EXCEPT ![p] = u]
                              /\ u.step = next /\ u.got = user[p].got
      BY <2>2, GoesOn
    <2>4. QED
      BY <2>1, <2>3
  <1>3. CacheTypeOK'
    BY <1>1, UserShape DEF CacheInv, CacheTypeOK
  <1>4. unbroken => Midway(u)'
    BY <1>1, <1>2, UserShape DEF Midway, Uncut, TracesStand, LogStands
  <1>5. QED
    BY <1>1, <1>2, <1>3, <1>4, UserShape, OneGoesOn

\* The samples.
LEMMA ClearSamplesKeeps == \A p \in User : CacheInv /\ ClearSamples(p) => CacheInv'
  <1> SUFFICES ASSUME NEW p \in User, CacheInv, ClearSamples(p) PROVE CacheInv'
    OBVIOUS
  <1>1. /\ user[p].step = "clear samples" /\ Moves(p, "cleared") /\ unbroken' = unbroken
        /\ samples' = {} /\ UNCHANGED <<stored, tracesStamp, logFile, logsStamp, generation>>
    BY DEF ClearSamples, In
  <1>2. PICK u \in CacheUser : /\ user' = [user EXCEPT ![p] = u]
                              /\ u.step = "cleared" /\ u.got = user[p].got
    <2>1. PICK next \in CacheStep : next = "cleared"
      BY DEF CacheStep
    <2>2. Moves(p, next)
      BY <1>1, <2>1
    <2>3. \E u \in CacheUser : /\ user' = [user EXCEPT ![p] = u]
                              /\ u.step = next /\ u.got = user[p].got
      BY <2>2, GoesOn
    <2>4. QED
      BY <2>1, <2>3
  <1>3. CacheTypeOK'
    BY <1>1, UserShape DEF CacheInv, CacheTypeOK
  <1>4. unbroken => Midway(u)'
    BY <1>1, <1>2, UserShape DEF Midway, Uncut, TracesStand, LogStands
  <1>5. QED
    BY <1>1, <1>2, <1>3, <1>4, UserShape, OneGoesOn

\* A command that ends with nothing half done.
LEMMA LeavesKeeps ==
    ASSUME CacheInv, NEW p \in User, user[p].step # "away", Leaves(p), unbroken' \in BOOLEAN,
           unbroken' => unbroken, CacheTypeOK', unbroken' => TracesStand' /\ LogStands'
    PROVE  CacheInv'
  <1>1. user' = [user EXCEPT ![p] = Away]
    BY DEF Leaves
  <1>2. Midway(Away)'
    BY AwayShape DEF Midway, Uncut
  <1>3. QED
    BY <1>1, <1>2, AwayShape, OneMoves

LEMMA StampTracesKeeps == \A p \in User : CacheInv /\ StampTraces(p) => CacheInv'
  <1> SUFFICES ASSUME NEW p \in User, CacheInv, StampTraces(p) PROVE CacheInv'
    OBVIOUS
  <1>1. /\ user[p].step = "stamp" /\ tracesStamp' = user[p].got /\ unbroken' = unbroken
        /\ UNCHANGED <<stored, logFile, logsStamp, samples, generation>>
        /\ Moves(p, "fetch log") \/ Leaves(p)
    BY DEF StampTraces, In
  <1>2. CacheTypeOK'
    BY <1>1, UserShape DEF CacheInv, CacheTypeOK
  <1>3. unbroken => TracesStand' /\ LogStands'
    BY <1>1, UserShape DEF Midway, TracesStand, LogStands
  <1>4. CASE Moves(p, "fetch log")
    <2>1. PICK u \in CacheUser : user' = [user EXCEPT ![p] = u] /\ u.step = "fetch log"
      <3>1. PICK next \in CacheStep : next = "fetch log"
        BY DEF CacheStep
      <3>2. Moves(p, next)
        BY <1>4, <3>1
      <3>3. QED
        BY <3>1, <3>2, GoesOn
    <2>2. unbroken => Midway(u)'
      BY <1>3, <2>1 DEF Midway, Uncut
    <2>3. QED
      BY <1>1, <1>2, <2>1, <2>2, OneGoesOn
  <1>5. CASE Leaves(p)
    <2>1. unbroken' \in BOOLEAN /\ (unbroken' => unbroken)
      BY <1>1 DEF CacheInv
    <2>2. QED
      BY <1>1, <1>2, <1>3, <1>5, <2>1, LeavesKeeps
  <1>6. QED
    BY <1>1, <1>4, <1>5

\* The log as Home Assistant has it at that moment.
LEMMA FetchLogKeeps == \A p \in User : CacheInv /\ FetchLog(p) => CacheInv'
  <1> SUFFICES ASSUME NEW p \in User, CacheInv, FetchLog(p) PROVE CacheInv'
    OBVIOUS
  <1>1. /\ user[p].step = "fetch log" /\ UNCHANGED <<cacheDisk, generation, unbroken>>
        /\ user' = [user EXCEPT ![p].got = {generation}, ![p].step = "write log"]
    BY DEF FetchLog, In
  <1>2. generation \in Generation
    BY DEF CacheInv, CacheTypeOK
  <1>3. [user[p] EXCEPT !.got = {generation}, !.step = "write log"] \in CacheUser
    BY <1>2, UserShape DEF CacheUser, CacheStep
  <1>4. PICK u \in CacheUser : u = [user[p] EXCEPT !.got = {generation}, !.step = "write log"]
    BY <1>3
  <1>5. u.step = "write log" /\ u.got = {generation} /\ user' = [user EXCEPT ![p] = u]
    BY <1>1, <1>4, UserShape DEF CacheUser
  <1>6. CacheTypeOK'
    BY <1>1 DEF CacheInv, CacheTypeOK, cacheDisk
  <1>7. unbroken => TracesStand'
    BY <1>1, Standing DEF Uncut, TracesStand, cacheDisk
  <1>8. unbroken => Midway(u)'
    BY <1>5, <1>7 DEF Midway, Uncut
  <1>9. QED
    BY <1>1, <1>2, <1>5, <1>6, <1>8, OneGoesOn

LEMMA StampLogKeeps == \A p \in User : CacheInv /\ StampLog(p) => CacheInv'
  <1> SUFFICES ASSUME NEW p \in User, CacheInv, StampLog(p) PROVE CacheInv'
    OBVIOUS
  <1>1. /\ user[p].step = "stamp log" /\ Leaves(p) /\ \E g \in user[p].got : logsStamp' = g
        /\ UNCHANGED <<stored, tracesStamp, logFile, samples, generation>> /\ unbroken' = unbroken
    BY DEF StampLog, In
  <1>2. CacheTypeOK'
    BY <1>1, UserShape DEF CacheInv, CacheTypeOK
  <1>3. unbroken => TracesStand' /\ LogStands'
    BY <1>1, UserShape DEF Midway, TracesStand, LogStands
  <1>4. unbroken' \in BOOLEAN /\ (unbroken' => unbroken)
    BY <1>1 DEF CacheInv
  <1>5. QED
    BY <1>1, <1>2, <1>3, <1>4, LeavesKeeps

\* Commands that end, having left the traces and the log alone, and those that fail.
LEMMA CacheEndsKeeps ==
    \A p \in User : CacheInv /\ (SayCache(p) \/ StoreSamples(p) \/ CacheFails(p)) => CacheInv'
  <1> SUFFICES ASSUME NEW p \in User, CacheInv, SayCache(p) \/ StoreSamples(p) \/ CacheFails(p)
               PROVE  CacheInv'
    OBVIOUS
  <1>1. /\ user[p].step # "away" /\ Leaves(p)
        /\ UNCHANGED <<stored, tracesStamp, logFile, logsStamp, generation>>
        /\ samples' = samples \/ \E some \in SUBSET Sample : samples' = samples \cup some
    BY DEF SayCache, StoreSamples, CacheFails, In, cacheDisk
  <1>2. unbroken' \in BOOLEAN /\ (unbroken' => unbroken /\ user[p].step \in Uncut)
    <2>1. CASE SayCache(p) \/ StoreSamples(p)
      <3>1. unbroken' = unbroken /\ user[p].step \in Uncut
        BY <2>1 DEF SayCache, StoreSamples, In, Uncut
      <3>2. QED
        BY <3>1 DEF CacheInv
    <2>2. CASE CacheFails(p)
      BY <2>2 DEF CacheFails, CacheInv, Uncut
    <2>3. QED
      BY <2>1, <2>2
  <1>3. CacheTypeOK'
    BY <1>1 DEF CacheInv, CacheTypeOK
  <1>4. unbroken' => TracesStand' /\ LogStands'
    BY <1>1, <1>2, Standing DEF TracesStand, LogStands
  <1>5. QED
    BY <1>1, <1>2, <1>3, <1>4, LeavesKeeps

LEMMA CacheKeeps == CacheInv /\ [CacheNext]_cacheVars => CacheInv'
  <1> SUFFICES ASSUME CacheInv, [CacheNext]_cacheVars PROVE CacheInv'
    OBVIOUS
  <1>1. CASE LogMoves
    <2>1. UNCHANGED <<stored, tracesStamp, logFile, logsStamp, samples, user, unbroken>>
          /\ generation' \in Generation
      BY <1>1 DEF LogMoves, cacheDisk
    <2>2. CacheTypeOK'
      BY <2>1 DEF CacheInv, CacheTypeOK
    <2>3. Fetched' /\ (unbroken' => OneAtATime')
      BY <2>1 DEF CacheInv, Fetched, OneAtATime
    <2>4. TracesStand' = TracesStand /\ LogStands' = LogStands
      BY <2>1 DEF TracesStand, LogStands
    <2>5. \A p \in User : Midway(user[p])' = Midway(user[p])
      BY <2>1, <2>4 DEF Midway
    <2>6. unbroken' => Told'
      BY <2>1, <2>4, <2>5 DEF CacheInv, Told
    <2>7. QED
      BY <2>1, <2>2, <2>3, <2>6 DEF CacheInv
  <1>2. CASE UNCHANGED cacheVars
    <2>1. UNCHANGED <<stored, tracesStamp, logFile, logsStamp, samples, user, unbroken, generation>>
      BY <1>2 DEF cacheVars, cacheDisk
    <2>2. CacheTypeOK'
      BY <2>1 DEF CacheInv, CacheTypeOK
    <2>3. Fetched' /\ (unbroken' => OneAtATime')
      BY <2>1 DEF CacheInv, Fetched, OneAtATime
    <2>4. TracesStand' = TracesStand /\ LogStands' = LogStands
      BY <2>1 DEF TracesStand, LogStands
    <2>5. \A p \in User : Midway(user[p])' = Midway(user[p])
      BY <2>1, <2>4 DEF Midway
    <2>6. unbroken' => Told'
      BY <2>1, <2>4, <2>5 DEF CacheInv, Told
    <2>7. QED
      BY <2>1, <2>2, <2>3, <2>6 DEF CacheInv
  <1>3. QED
    BY <1>1, <1>2, StartCacheKeeps, ListTracesKeeps, GetTraceKeeps, DropTracesKeeps,
       StoreTracesKeeps, StampTracesKeeps, FetchLogKeeps, WriteLogKeeps, StampLogKeeps,
       ClearTracesKeeps, ClearLogsKeeps, ClearMetaKeeps, ClearSamplesKeeps, CacheEndsKeeps
    DEF CacheNext

\* What the cache holds has its type.
THEOREM CacheTypeCorrect == CacheSpec => []CacheTypeOK
  BY CacheBegins, CacheKeeps, PTL DEF CacheSpec, CacheInv

\* cache status: whatever the refreshes, the clears and their failures, the stamp of the last
\* sync is of what is stored, and nothing is left once "cache cleared" is said, while commands
\* come one at a time and none is cut in two (Store.RefreshTraces, Store.Clear).
THEOREM StampIsTrue == CacheSpec => []StampTellsStored
  <1>1. CacheInv => StampTellsStored
    BY DEF CacheInv, StampTellsStored, Told, Midway, TracesStand, LogStands, In
  <1>2. QED
    BY <1>1, CacheBegins, CacheKeeps, PTL DEF CacheSpec

-----------------------------------------------------------------------------
(* The files of an instance.                                                 *)

\* Each file behaves as it does alone: a step is of one of them and leaves the others.
THEOREM FilesImplemented == LocalSpec => Spec /\ DeliverySpec /\ IdsSpec /\ CacheSpec
  <1>1. LocalInit => Init /\ DeliveryInit /\ IdsInit /\ CacheInit
    BY DEF LocalInit
  <1>2. [LocalNext]_<<part, vars, deliveryVars, idVars, cacheVars>> =>
          /\ [Next]_vars /\ [DeliveryNext]_deliveryVars
          /\ [IdsNext]_idVars /\ [CacheNext]_cacheVars
    BY DEF LocalNext
  <1>3. QED
    BY <1>1, <1>2, PTL DEF LocalSpec, Spec, DeliverySpec, IdsSpec, CacheSpec

\* Whatever is run in an instance, the manual's record, the short ids and the cache have their
\* types.
THEOREM LocalTypeCorrect == LocalSpec => []LocalTypeOK
  <1>1. DeliveryTypeOK /\ IdsTypeOK /\ CacheTypeOK => LocalTypeOK
    BY DEF LocalTypeOK
  <1>2. QED
    BY <1>1, FilesImplemented, DeliveryTypeCorrect, IdsTypeCorrect, CacheTypeCorrect, PTL

\* What each file promises on its own holds of the instance: the guard lets through what was
\* previewed and refuses what was forgotten, the manual comes, and comes once, a printed id
\* stays, and the cache is as fresh as it says.
THEOREM FilesKeepPromises ==
    LocalSpec => /\ []GInv /\ []Instructed /\ []AloneIdsStay /\ []StampTellsStored
                 /\ Informed /\ NothingElseForgets /\ NotTwice
  BY FilesImplemented, GuardInvariance, NobodyIsLeftUninstructed, PrintedIdsStay, StampIsTrue,
     PassedMeansNoted, RefusedMeansForgotten, NothingIsToldTwice, PTL

=============================================================================
