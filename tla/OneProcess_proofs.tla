-------------------------- MODULE OneProcess_proofs --------------------------
(***************************************************************************)
(* Proofs about Connection, ReadCommand and their composition with McpServer    *)
(* and RetryBudget in MCOneProcess: for any timeouts, any number of calls, any   *)
(* backoff and any commands.                                                    *)
(***************************************************************************)
EXTENDS MCOneProcess, McpServer_proofs, RetryBudget_proofs, SequenceTheorems, TLAPS

-----------------------------------------------------------------------------
(* The WebSocket and the discovery over it.                                   *)

\* A failure of Connect is known to Discover alone, and ends it; only a discovery that has
\* failed gives a reason.
Explained ==
    /\ connectErr # "none" => stage \in {"discover", "found", "notfound"}
    /\ stage # "notfound" => reason = "none"

ConnInv == ConnectionTypeOK /\ DialsWithinTimeout /\ Explained /\ ReasonIsTheCause

\* The timeout.
LEMMA TimeoutIsNat == Timeout \in Nat /\ 0 <= Timeout
  BY ConnectionAssumption

\* The invariant begins.
LEMMA ConnectionBegins == ConnectionInit => ConnInv
  <1>1. ConnectionInit => ConnectionTypeOK
    <2> SUFFICES ASSUME ConnectionInit PROVE ConnectionTypeOK
      OBVIOUS
    <2>1. clock \in Nat /\ since \in Nat
      BY DEF ConnectionInit
    <2>2. retried \in BOOLEAN
      BY DEF ConnectionInit
    <2>3. QED
      BY <2>1, <2>2 DEF ConnectionInit, ConnectionTypeOK, Connecting
  <1>2. ConnectionInit => DialsWithinTimeout
    BY TimeoutIsNat DEF ConnectionInit, DialsWithinTimeout
  <1>3. ConnectionInit => Explained /\ ReasonIsTheCause
    BY DEF ConnectionInit, Explained, ReasonIsTheCause
  <1>4. QED
    BY <1>1, <1>2, <1>3 DEF ConnInv

\* A step of Connect that gets on.
LEMMA ReachKeeps ==
    ASSUME ConnInv, NEW next, Reach(next),
           \/ next \in {"found"}
           \/ next \in {"hello", "auth", "discover", "addons"} /\ connectErr = "none"
           \/ next = "upgrade" /\ stage = "dial" /\ connectErr = "none",
           stage # "notfound"
    PROVE  ConnInv'
  BY DEF ConnInv, ConnectionTypeOK, DialsWithinTimeout, Explained, ReasonIsTheCause, Reach,
         Connecting, found

\* An attempt that fails, the first or the last.
LEMMA AttemptFailsKeeps ==
    ASSUME ConnInv, NEW why \in Failure, AttemptFails(why), stage \in Connecting
    PROVE  ConnInv'
  <1>1. connectErr = "none" /\ reason = "none"
    BY DEF ConnInv, Explained, Connecting
  <1>2. CASE ~retried /\ ~Expired
    <2>1. /\ stage' = "dial" /\ retried' = TRUE /\ since' = clock
          /\ UNCHANGED <<url, clock, connectErr, refusal, slug, reason>>
      BY <1>2 DEF AttemptFails, found
    <2>2. DialsWithinTimeout'
      <3>1. clock \in Nat
        BY DEF ConnInv, ConnectionTypeOK
      <3>2. QED
        BY <1>2, <2>1, <3>1, TimeoutIsNat DEF DialsWithinTimeout, Expired
    <2>3. ConnectionTypeOK' /\ Explained' /\ ReasonIsTheCause'
      BY <1>1, <2>1
         DEF ConnInv, ConnectionTypeOK, Explained, ReasonIsTheCause, Connecting
    <2>4. QED
      BY <2>2, <2>3 DEF ConnInv
  <1>3. CASE retried \/ Expired
    BY <1>1, <1>3
       DEF ConnInv, ConnectionTypeOK, DialsWithinTimeout, Explained, ReasonIsTheCause,
           AttemptFails, found
  <1>4. QED
    BY <1>2, <1>3

\* The steps of Connect.
LEMMA ConnectKeeps == ConnInv /\ (Dial \/ Handshake \/ Hello \/ Authenticate) => ConnInv'
  <1> SUFFICES ASSUME ConnInv, Dial \/ Handshake \/ Hello \/ Authenticate PROVE ConnInv'
    OBVIOUS
  <1>1. stage \in Connecting /\ connectErr = "none"
    BY DEF Dial, Handshake, Hello, Authenticate, Connecting, ConnInv, Explained
  <1>2. \/ \E why \in Failure : AttemptFails(why)
        \/ Reach("upgrade") /\ stage = "dial"
        \/ \E next \in {"hello", "auth", "discover"} : Reach(next)
    BY DEF Dial, Handshake, Hello, Authenticate, Failure
  <1>3. QED
    BY <1>1, <1>2, AttemptFailsKeeps, ReachKeeps DEF Connecting

\* The time bounds cut a dial and an upgrade, and nothing after them.
LEMMA WaitKeeps == ConnInv /\ Wait => ConnInv'
  <1> SUFFICES ASSUME ConnInv, Wait PROVE ConnInv'
    OBVIOUS
  <1>1. /\ clock' = clock + 1 /\ clock \in Nat
        /\ UNCHANGED <<url, stage, retried, since, connectErr, refusal, slug, reason>>
    BY DEF Wait, found, ConnInv, ConnectionTypeOK
  <1>2. DialsWithinTimeout'
    <2>1. stage \in {"dial", "upgrade"} => ~(clock >= Timeout)
      BY DEF Wait, TimeIsUp, Expired
    <2>2. QED
      BY <1>1, <2>1, TimeoutIsNat DEF DialsWithinTimeout
  <1>3. ConnectionTypeOK' /\ Explained' /\ ReasonIsTheCause'
    <2>1. clock' \in Nat
      BY <1>1
    <2>2. QED
      BY <1>1, <2>1 DEF ConnInv, ConnectionTypeOK, Explained, ReasonIsTheCause
  <1>4. QED
    BY <1>2, <1>3 DEF ConnInv

\* A discovery that fails for a reason.
LEMMA NotFoundKeeps ==
    ASSUME ConnInv, stage \in {"discover", "addons", "info"},
           NEW why \in Reason, NEW words \in Refusal \cup {"none", "no ingress_url"},
           NotFound(why, words),
           why = "auth_invalid" <=> connectErr = "auth",
           why = "redirected" <=> connectErr = "redirect",
           connectErr # "none" => why \in {"auth_invalid", "redirected", "unreachable"}
    PROVE  ConnInv'
  BY DEF ConnInv, ConnectionTypeOK, DialsWithinTimeout, Explained, ReasonIsTheCause, NotFound,
         Connecting

\* And one that fails without.
LEMMA UnparsedKeeps ==
    ASSUME ConnInv, stage \in {"addons", "info"}, Unparsed PROVE ConnInv'
  BY DEF ConnInv, ConnectionTypeOK, DialsWithinTimeout, Explained, ReasonIsTheCause, Unparsed,
         Connecting, found

\* What Home Assistant refuses is never the token, nor a redirect.
LEMMA RefusalClassified ==
    ASSUME NEW words PROVE classifyWSError(words) \in Reason \ {"auth_invalid", "redirected"}
  BY DEF classifyWSError, Reason

\* The steps of Discover.
LEMMA DiscoverKeeps == ConnInv /\ (Discover \/ ListAddons \/ AddonInfo) => ConnInv'
  <1> SUFFICES ASSUME ConnInv, Discover \/ ListAddons \/ AddonInfo PROVE ConnInv'
    OBVIOUS
  <1>1. CASE Discover
    <2>1. stage = "discover"
      BY <1>1 DEF Discover
    <2>2. CASE NotFound(classifyConnectError(connectErr), "none") /\ connectErr # "none"
      <3>1. /\ classifyConnectError(connectErr) \in {"auth_invalid", "redirected", "unreachable"}
            /\ classifyConnectError(connectErr) = "auth_invalid" <=> connectErr = "auth"
            /\ classifyConnectError(connectErr) = "redirected" <=> connectErr = "redirect"
        BY DEF classifyConnectError
      <3> HIDE DEF classifyConnectError
      <3>2. QED
        BY <2>1, <2>2, <3>1, NotFoundKeeps DEF Reason
    <2>3. QED
      BY <1>1, <2>1, <2>2, ReachKeeps DEF Discover
  <1>2. CASE ListAddons \/ AddonInfo
    <2>1. stage \in {"addons", "info"} /\ connectErr = "none" /\ reason = "none"
      BY <1>2 DEF ListAddons, AddonInfo, ConnInv, Explained
    <2>2. CASE \E words \in Refusal : NotFound(classifyWSError(words), words)
      <3>1. PICK words \in Refusal : NotFound(classifyWSError(words), words)
        BY <2>2
      <3>2. classifyWSError(words) \in Reason \ {"auth_invalid", "redirected"}
        BY RefusalClassified
      <3>3. QED
        BY <2>1, <3>1, <3>2, NotFoundKeeps
    <2>3. CASE NotFound("addon_missing", "none") \/ NotFound("unreachable", "no ingress_url")
      BY <2>1, <2>3, NotFoundKeeps DEF Reason
    <2>4. CASE Unparsed
      BY <2>1, <2>4, UnparsedKeeps
    <2>5. CASE /\ \E addons : slug' = matchCompanion(addons)
               /\ stage' = "info"
               /\ UNCHANGED <<url, retried, clock, since, connectErr, refusal, reason>>
      <3>1. slug' \in Addon \cup {"none"}
        BY <2>5 DEF matchCompanion, Addon
      <3>2. QED
        BY <2>1, <2>5, <3>1
           DEF ConnInv, ConnectionTypeOK, DialsWithinTimeout, Explained, ReasonIsTheCause
    <2>6. CASE Reach("found")
      BY <2>1, <2>6, ReachKeeps
    <2>7. QED
      BY <1>2, <2>2, <2>3, <2>4, <2>5, <2>6 DEF ListAddons, AddonInfo
  <1>3. QED
    BY <1>1, <1>2

\* The invariant is inductive.
LEMMA ConnectionKeeps == ConnInv /\ [ConnectionNext]_connectionVars => ConnInv'
  <1>1. ConnInv /\ UNCHANGED connectionVars => ConnInv'
    BY DEF ConnInv, ConnectionTypeOK, DialsWithinTimeout, Explained, ReasonIsTheCause,
           connectionVars, found
  <1>2. QED
    BY <1>1, ConnectKeeps, WaitKeeps, DiscoverKeeps DEF ConnectionNext, ConnectionStep

\* Connect and Discover go through their stages in order, and what they found, were refused
\* or failed with has its type.
THEOREM ConnectionTypeCorrect == ConnectionSpec => []ConnectionTypeOK
  BY ConnectionBegins, ConnectionKeeps, PTL DEF ConnectionSpec, ConnInv

\* #73, D-34: whatever the timeouts, and however long the first attempt hung, no dial and no
\* upgrade is under way after --timeout: the retry has no budget of its own (WSClient.Connect).
THEOREM DialsInTime == ConnectionSpec => []DialsWithinTimeout
  BY ConnectionBegins, ConnectionKeeps, PTL DEF ConnectionSpec, ConnInv

\* #75: a discovery that failed names its cause: a rejected token and a redirect as such, and
\* nothing else as either (classifyConnectError, classifyWSError).
THEOREM CauseIsNamed == ConnectionSpec => []ReasonIsTheCause
  BY ConnectionBegins, ConnectionKeeps, PTL DEF ConnectionSpec, ConnInv

-----------------------------------------------------------------------------
(* Read commands.                                                             *)

\* A failure of one of these is told, in the answer or beside it, or ends the command.
Loud == {"fail", "gate", "live", "registry", "say", "scope", "warn"}

\* A command that says of every source its answer rests on when it went unread.
Outspoken(c) ==
    \A i \in DOMAIN c.does :
        c.does[i].from \in c.rests \cup {"state"} => c.does[i].on \subseteq Loud

\* A search that states what it could not read, a verdict that is refused or says so.
Scoped(c) ==
    /\ c.gate = "search" =>
          \A i \in DOMAIN c.does :
              c.does[i].on \subseteq {"fail", "say", "scope"} /\ c.does[i].empty = "go on"
    /\ c.gate = "verdict" =>
          \A i \in DOMAIN c.does : c.does[i].on \subseteq {"fail", "gate", "live", "registry"}

Refusing == {"error", "refused"}

\* What went unread has been told as far as the command has come.
ToldSoFar ==
    Outspoken(command) /\ conclusion \notin Refusing =>
        missing \cap (command.rests \cup {"state"}) \subseteq stated \cup warned

ScopeSoFar ==
    Scoped(command) /\ conclusion \notin Refusing /\ missing # {} =>
        /\ command.gate = "verdict" =>
              options.allowPartial \/ (~AnswersAMachine /\ missing \subseteq stated)
        /\ command.gate = "search" =>
              /\ ~options.json => missing \subseteq stated
              /\ options.json /\ conclusion # "none yet" => options.allowPartial
              /\ conclusion = "none" => options.json

\* --exit-code is a verdict's.
Judges == options.exitCode => command.gate = "verdict"

ReadInv == ReadTypeOK /\ ToldSoFar /\ ScopeSoFar /\ Judges

\* What ReadTypeOK says of the four sets of sources.
LEMMA FourWithin ==
    ASSUME NEW S, NEW T, NEW U, NEW V, NEW W
    PROVE  (\A X \in {S, T, U, V} : X \subseteq W) <=>
                S \subseteq W /\ T \subseteq W /\ U \subseteq W /\ V \subseteq W
  OBVIOUS

Sources == {command.does[i].from : i \in DOMAIN command.does}

\* ReadTypeOK, conjunct by conjunct.
LEMMA ReadTypeParts ==
    ASSUME ReadTypeOK
    PROVE  /\ command \in Asks
           /\ options \in [json : BOOLEAN, allowPartial : BOOLEAN, exitCode : BOOLEAN]
           /\ turn \in 1 .. Len(command.does) + 1 /\ conclusion \in Conclusions
           /\ got \subseteq Sources /\ missing \subseteq Sources
           /\ stated \subseteq Sources /\ warned \subseteq Sources
  <1>1. \A X \in {got, missing, stated, warned} : X \subseteq Sources
    BY DEF ReadTypeOK, Sources
  <1>2. /\ got \subseteq Sources /\ missing \subseteq Sources
        /\ stated \subseteq Sources /\ warned \subseteq Sources
    BY <1>1
  <1>3. QED
    BY <1>2 DEF ReadTypeOK

\* The read that is next.
LEMMA CommandShape ==
    ASSUME ReadTypeOK
    PROVE  /\ command.does \in Seq(ReadStep) /\ Len(command.does) \in Nat
           /\ DOMAIN command.does = 1 .. Len(command.does) /\ turn \in Nat
           /\ command.gate \in {"none", "search", "verdict"}
           /\ Asking => /\ turn \in 1 .. Len(command.does)
                        /\ turn + 1 \in 1 .. Len(command.does) + 1
                        /\ read \in ReadStep
                        /\ read.from \in {command.does[i].from : i \in DOMAIN command.does}
                        /\ read.empty \in {"go on", "none", "unknown"}
  <1>1. command.does \in Seq(ReadStep) /\ command.gate \in {"none", "search", "verdict"}
    BY ReadAssumption DEF ReadTypeOK, Commands
  <1>2. Len(command.does) \in Nat /\ DOMAIN command.does = 1 .. Len(command.does)
    BY <1>1, LenProperties
  <1>3. turn \in Nat
    BY <1>2, ReadTypeParts
  <1>4. ASSUME Asking
        PROVE  turn \in 1 .. Len(command.does) /\ turn + 1 \in 1 .. Len(command.does) + 1
    <2>1. turn >= 1
      BY <1>2, ReadTypeParts
    <2>2. turn <= Len(command.does)
      BY <1>4 DEF Asking
    <2>3. QED
      BY <1>2, <1>3, <2>1, <2>2
  <1>5. ASSUME Asking PROVE read \in ReadStep
    BY <1>1, <1>4, <1>5 DEF read
  <1>6. QED
    BY <1>1, <1>2, <1>3, <1>4, <1>5 DEF read, ReadStep

\* The command and its options stay, the sets grow by the source that is read.
LEMMA ReadTypeKeeps ==
    ASSUME ReadTypeOK, Asking \/ UNCHANGED turn,
           UNCHANGED <<command, options>>, turn' \in {turn, turn + 1}, conclusion' \in Conclusions,
           NEW w \in Sources,
           got' \in {got, got \cup {w}}, missing' \in {missing, missing \cup {w}},
           stated' \in {stated, stated \cup {w}}, warned' \in {warned, warned \cup {w}}
    PROVE  ReadTypeOK'
  <1>1. Sources' = Sources
    BY DEF Sources
  <1>2. /\ got' \subseteq Sources /\ missing' \subseteq Sources
        /\ stated' \subseteq Sources /\ warned' \subseteq Sources
    BY ReadTypeParts
  <1>3. \A X \in {got', missing', stated', warned'} : X \subseteq Sources'
    BY <1>1, <1>2
  <1>4. turn' \in 1 .. Len(command'.does) + 1
    <2>1. CASE UNCHANGED turn
      BY <2>1, ReadTypeParts
    <2>2. CASE Asking
      <3>1. turn + 1 \in 1 .. Len(command.does) + 1
        BY <2>2, CommandShape
      <3>2. QED
        BY <3>1, ReadTypeParts
    <2>3. QED
      BY <2>1, <2>2
  <1>5. /\ command' \in Asks
        /\ options' \in [json : BOOLEAN, allowPartial : BOOLEAN, exitCode : BOOLEAN]
    BY ReadTypeParts
  <1>6. QED
    BY <1>3, <1>4, <1>5 DEF ReadTypeOK, Sources

\* The invariant begins.
LEMMA ReadBegins == ReadInit => ReadInv
  <1> SUFFICES ASSUME ReadInit PROVE ReadInv
    OBVIOUS
  <1>1. command.does \in Seq(ReadStep)
    BY ReadAssumption DEF ReadInit, Commands
  <1>2. turn \in 1 .. Len(command.does) + 1
    <2>1. Len(command.does) \in Nat
      BY <1>1, LenProperties
    <2>2. turn = 1
      BY DEF ReadInit
    <2>3. QED
      BY <2>1, <2>2
  <1>3. ReadTypeOK
    BY <1>2 DEF ReadInit, ReadTypeOK, Conclusions
  <1>4. QED
    BY <1>3 DEF ReadInit, ReadInv, ToldSoFar, ScopeSoFar, Judges

\* A source that answered, or is not asked.
LEMMA HeldKeeps == ReadInv /\ (Held \/ Skip) => ReadInv'
  <1> SUFFICES ASSUME ReadInv, Held \/ Skip PROVE ReadInv'
    OBVIOUS
  <1>1. /\ Asking /\ turn' = turn + 1 /\ got' \in {got, got \cup {read.from}}
        /\ UNCHANGED <<command, options, missing, stated, warned, conclusion>>
    BY DEF Held, Skip, GoOn
  <1>2. ReadTypeOK /\ read.from \in Sources /\ conclusion \in Conclusions
    BY <1>1, CommandShape, ReadTypeParts DEF ReadInv, Sources
  <1>3. ReadTypeOK'
    BY <1>1, <1>2, ReadTypeKeeps
  <1>4. ToldSoFar' /\ ScopeSoFar' /\ Judges'
    BY <1>1 DEF ReadInv, ToldSoFar, ScopeSoFar, Outspoken, Scoped, AnswersAMachine, Judges
  <1>5. QED
    BY <1>3, <1>4 DEF ReadInv

\* A source without what was asked for.
LEMMA EmptyKeeps == ReadInv /\ Empty => ReadInv'
  <1> SUFFICES ASSUME ReadInv, Empty PROVE ReadInv'
    OBVIOUS
  <1>1. /\ Asking /\ conclusion = "none yet"
        /\ UNCHANGED <<command, options, got, missing, stated, warned>>
        /\ \/ turn' = turn + 1 /\ UNCHANGED conclusion
           \/ read.empty # "go on" /\ conclusion' = read.empty /\ UNCHANGED turn
    BY DEF Empty, GoOn, End, Asking
  <1>2. ReadTypeOK /\ read.from \in Sources /\ conclusion' \in Conclusions
    BY <1>1, CommandShape DEF ReadInv, Sources, Conclusions
  <1>3. ReadTypeOK'
    BY <1>1, <1>2, ReadTypeKeeps
  <1>4. Scoped(command) /\ command.gate = "search" => conclusion' = "none yet"
    BY <1>1, CommandShape DEF ReadInv, Scoped, read
  <1>5. ToldSoFar' /\ Judges'
    BY <1>1 DEF ReadInv, ToldSoFar, Outspoken, Judges, Refusing
  <1>6. ScopeSoFar'
    BY <1>1, <1>4 DEF ReadInv, ScopeSoFar, Scoped, AnswersAMachine, Refusing
  <1>7. QED
    BY <1>3, <1>5, <1>6 DEF ReadInv

\* A source that went unread is put where its read says, or the command ends there.
LEMMA MissedKeeps == ReadInv /\ Missed => ReadInv'
  <1> SUFFICES ASSUME ReadInv, Missed PROVE ReadInv'
    OBVIOUS
  <1>1. /\ Asking /\ conclusion = "none yet" /\ missing' = missing \cup {read.from}
        /\ got' \in {got, got \cup {read.from}} /\ UNCHANGED <<command, options>>
    BY DEF Missed, Asking
  <1>2. PICK on \in read.on : MissedBy(on)
    BY DEF Missed
  <1>3. \/ on = "fail" /\ conclusion' = "error" /\ UNCHANGED <<turn, stated, warned>>
        \/ on = "absent" /\ conclusion' = "unknown" /\ UNCHANGED <<turn, stated, warned>>
        \/ on = "gate" /\ conclusion' = "refused" /\ UNCHANGED <<turn, stated, warned>>
        \/ on = "live" /\ conclusion' = "error" /\ UNCHANGED <<turn, stated, warned>>
        \/ /\ on = "registry" /\ conclusion' \in {"error", "refused"}
           /\ UNCHANGED <<turn, stated, warned>>
        \/ /\ turn' = turn + 1 /\ UNCHANGED conclusion
           /\ \/ /\ on \in {"gate", "registry"} /\ (~AnswersAMachine \/ options.allowPartial)
                 /\ reportSweepScope(read.from)
              \/ on = "live" /\ options.allowPartial /\ reportSweepScope(read.from)
              \/ on = "say" /\ Say(read.from)
              \/ on = "scope" /\ reportSweepScope(read.from)
              \/ on = "warn" /\ Warn(read.from)
              \/ on = "hide" /\ UNCHANGED <<stated, warned>>
    BY <1>2 DEF MissedBy, Gate, End, GoOn, validateScanGateError
  <1>4. /\ stated' \in {stated, stated \cup {read.from}}
        /\ warned' \in {warned, warned \cup {read.from}}
        /\ turn' \in {turn, turn + 1}
        /\ conclusion' \in {"error", "unknown", "refused", "none yet"}
    BY <1>1, <1>3 DEF reportSweepScope, Say, Warn
  <1>5. ReadTypeOK'
    <2>1. ReadTypeOK /\ read.from \in Sources /\ conclusion' \in Conclusions
      BY <1>1, <1>4, CommandShape DEF ReadInv, Sources, Conclusions
    <2>2. QED
      BY <1>1, <1>4, <2>1, ReadTypeKeeps
  <1>6. ToldSoFar'
    <2> SUFFICES ASSUME Outspoken(command), conclusion' \notin Refusing
                 PROVE  missing' \cap (command.rests \cup {"state"}) \subseteq stated' \cup warned'
      BY <1>1 DEF ToldSoFar, Outspoken
    <2>1. missing \cap (command.rests \cup {"state"}) \subseteq stated \cup warned
      BY <1>1 DEF ReadInv, ToldSoFar, Refusing
    <2>2. read.from \in command.rests \cup {"state"} => on \in Loud
      BY <1>1, <1>2, CommandShape DEF ReadInv, Outspoken, read
    <2>3. read.from \in command.rests \cup {"state"} => read.from \in stated' \cup warned'
      BY <1>3, <2>2 DEF Loud, Refusing, reportSweepScope, Say, Warn
    <2>4. QED
      BY <1>1, <1>4, <2>1, <2>3
  <1>7. ScopeSoFar'
    <2> SUFFICES ASSUME Scoped(command), conclusion' \notin Refusing
                 PROVE  /\ command.gate = "verdict" =>
                              \/ options.allowPartial
                              \/ ~AnswersAMachine /\ missing' \subseteq stated'
                        /\ command.gate = "search" =>
                              /\ ~options.json => missing' \subseteq stated'
                              /\ conclusion' = "none yet"
      BY <1>1 DEF ScopeSoFar, Scoped, AnswersAMachine
    <2>1. /\ command.gate = "verdict" => on \in {"fail", "gate", "live", "registry"}
          /\ command.gate = "search" => on \in {"fail", "say", "scope"}
      BY <1>1, <1>2, CommandShape DEF ReadInv, Scoped, read
    <2>2. ASSUME command.gate = "verdict", ~options.allowPartial
          PROVE  ~AnswersAMachine /\ missing' \subseteq stated'
      <3>1. missing # {} => missing \subseteq stated
        BY <1>1, <2>2 DEF ReadInv, ScopeSoFar, Refusing
      <3>2. ~AnswersAMachine /\ ~options.json /\ read.from \in stated'
        BY <1>3, <2>1, <2>2 DEF Refusing, reportSweepScope, Say, AnswersAMachine
      <3>3. QED
        BY <1>1, <1>4, <3>1, <3>2
    <2>3. ASSUME command.gate = "search"
          PROVE  conclusion' = "none yet" /\ (~options.json => missing' \subseteq stated')
      <3>1. ~options.json /\ missing # {} => missing \subseteq stated
        BY <1>1, <2>3 DEF ReadInv, ScopeSoFar, Refusing
      <3>2. conclusion' = "none yet" /\ (~options.json => read.from \in stated')
        BY <1>1, <1>3, <2>1, <2>3 DEF Refusing, reportSweepScope, Say
      <3>3. QED
        BY <1>1, <1>4, <3>1, <3>2
    <2>4. QED
      BY <2>2, <2>3
  <1>8. QED
    BY <1>1, <1>5, <1>6, <1>7 DEF ReadInv, Judges

\* The answer.
LEMMA ConcludeKeeps == ReadInv /\ Conclude => ReadInv'
  <1> SUFFICES ASSUME ReadInv, Conclude PROVE ReadInv'
    OBVIOUS
  <1>1. /\ conclusion = "none yet"
        /\ UNCHANGED <<command, options, turn, got, missing, stated, warned>>
        /\ conclusion' \in {"refused", "rows", "hedged", "none"}
        /\ searchScopeGateError => conclusion' = "refused"
        /\ conclusion' = "none" => ~(command.gate = "search" /\ missing # {} /\ ~options.json)
    BY DEF Conclude, NoRows
  <1>2. ReadTypeOK'
    BY <1>1 DEF ReadInv, ReadTypeOK, Conclusions
  <1>3. ToldSoFar' /\ Judges'
    BY <1>1 DEF ReadInv, ToldSoFar, Outspoken, Refusing, Judges
  <1>4. ScopeSoFar'
    BY <1>1 DEF ReadInv, ScopeSoFar, Scoped, Refusing, AnswersAMachine, searchScopeGateError
  <1>5. QED
    BY <1>1, <1>2, <1>3, <1>4 DEF ReadInv

\* The invariant is inductive.
LEMMA ReadKeeps == ReadInv /\ [ReadNext]_readVars => ReadInv'
  <1>1. ReadInv /\ UNCHANGED readVars => ReadInv'
    <2> SUFFICES ASSUME ReadInv, UNCHANGED readVars PROVE ReadInv'
      OBVIOUS
    <2>1. ReadTypeOK'
      BY DEF ReadInv, ReadTypeOK, readVars
    <2>2. ToldSoFar' /\ ScopeSoFar' /\ Judges'
      BY DEF ReadInv, ToldSoFar, ScopeSoFar, Outspoken, Scoped, AnswersAMachine, Judges, readVars
    <2>3. QED
      BY <2>1, <2>2 DEF ReadInv
  <1>2. QED
    BY <1>1, HeldKeeps, EmptyKeeps, MissedKeeps, ConcludeKeeps DEF ReadNext

\* A command asks its sources in turn, and holds and misses only what it asked for.
THEOREM ReadTypeCorrect == ReadSpec => []ReadTypeOK
  BY ReadBegins, ReadKeeps, PTL DEF ReadSpec, ReadInv

\* H-21, for any command of that shape: where no read of a source the answer rests on hides
\* its failure, nobody is told that there is none without being told what went unread.
THEOREM OutspokenNeverDenies == ReadSpec => [](Outspoken(command) => UnreadIsNotEmpty)
  <1>1. ReadInv => (Outspoken(command) => UnreadIsNotEmpty)
    BY DEF ReadInv, ToldSoFar, UnreadIsNotEmpty, Refusing
  <1>2. QED
    BY <1>1, ReadBegins, ReadKeeps, PTL DEF ReadSpec

\* D-7, D-31, for any command of that shape: a search or a verdict over a part of the
\* instance says so in its body or is refused, unless a partial answer was asked for.
THEOREM ScopedTells == ReadSpec => [](Scoped(command) => SearchTellsItsScope)
  <1>1. ASSUME ReadInv, Scoped(command), conclusion \in {"rows", "none", "hedged"}, missing # {}
        PROVE  command.gate \in {"search", "verdict"} =>
                   /\ options.allowPartial \/ (~AnswersAMachine /\ missing \subseteq stated)
                   /\ conclusion = "none" => options.json \/ command.gate = "verdict"
    <2>1. CASE command.gate = "verdict"
      BY <1>1, <2>1 DEF ReadInv, ScopeSoFar, Refusing
    <2>2. CASE command.gate = "search"
      BY <1>1, <2>2 DEF ReadInv, ScopeSoFar, Refusing, AnswersAMachine, Judges
    <2>3. QED
      BY <2>1, <2>2
  <1>2. ReadInv => (Scoped(command) => SearchTellsItsScope)
    BY <1>1, CommandShape DEF ReadInv, SearchTellsItsScope
  <1>3. QED
    BY <1>2, ReadBegins, ReadKeeps, PTL DEF ReadSpec

-----------------------------------------------------------------------------
(* The commands of ReadSources.                                              *)

\* What a failure may lead to.
Ways == {"fail", "absent", "gate", "live", "registry", "say", "scope", "warn", "hide"}

\* The sources that are asked.
Names ==
    {"entities", "areas", "labels", "floors", "devices", "states", "traces", "logbook", "users",
     "state", "companion", "definition", "socket", "trace", "device", "helpers", "entries",
     "files", "content", "block", "template", "rendering", "dashboards", "resources",
     "config files", "dashboard list", "log", "companion health", "status", "config", "records",
     "tunnel", "issues", "statistics", "relations", "preferences", "services"}

\* A read, as Read and what narrows it build one.
NamedStep ==
    [from : Names, on : SUBSET Ways, empty : {"go on", "none", "unknown"},
     given : SUBSET Names, lacking : SUBSET Names, reached : SUBSET Names]

\* Reads that are told of where they are of one of these sources.
Telling(sources) == {r \in NamedStep : r.from \in sources => r.on \subseteq Loud}
Reads(sources) == Seq(Telling(sources))

\* One read.
LEMMA ReadTells ==
    ASSUME NEW sources, NEW source \in Names, NEW on \in SUBSET Ways,
           source \in sources => on \subseteq Loud
    PROVE  Read(source, on) \in Reads(sources)
  <1> DEFINE r == [from |-> source, on |-> on, empty |-> "go on",
                   given |-> {}, lacking |-> {}, reached |-> {}]
  <1>1. r \in NamedStep
    BY DEF NamedStep
  <1>2. r \in Telling(sources)
    BY <1>1 DEF Telling
  <1> HIDE DEF r
  <1>3. <<r>> \in Seq(Telling(sources))
    BY <1>2
  <1>4. QED
    BY <1>3 DEF r, Read, Reads

\* One read after another.
LEMMA BothTell ==
    ASSUME NEW sources, NEW s \in Reads(sources), NEW t \in Reads(sources)
    PROVE  s \o t \in Reads(sources)
  BY ConcatProperties DEF Reads

\* Given, Lacking, Reached, OrNone and OrUnknown change neither a source nor what its
\* failure leads to.
LEMMA StillTells ==
    ASSUME NEW sources, NEW s \in Reads(sources), NEW source \in Names
    PROVE  /\ Given(source, s) \in Reads(sources) /\ Lacking(source, s) \in Reads(sources)
           /\ Reached(source, s) \in Reads(sources)
           /\ OrNone(s) \in Reads(sources) /\ OrUnknown(s) \in Reads(sources)
  <1>1. /\ DOMAIN s = 1 .. Len(s) /\ Len(s) \in Nat
        /\ \A i \in 1 .. Len(s) : s[i] \in Telling(sources)
    BY DEF Reads
  <1>2. ASSUME NEW f, f = [i \in DOMAIN s |-> f[i]],
               \A i \in 1 .. Len(s) : f[i] \in Telling(sources)
        PROVE  f \in Reads(sources)
    <2>1. f \in [1 .. Len(s) -> Telling(sources)]
      BY <1>1, <1>2
    <2>2. QED
      BY <1>1, <2>1, SeqDef DEF Reads
  <1>3. \A i \in 1 .. Len(s) :
            /\ [s[i] EXCEPT !.given = @ \cup {source}] \in Telling(sources)
            /\ [s[i] EXCEPT !.lacking = @ \cup {source}] \in Telling(sources)
            /\ [s[i] EXCEPT !.reached = @ \cup {source}] \in Telling(sources)
    BY <1>1 DEF Telling, NamedStep
  <1>4. \A i \in 1 .. Len(s) :
            /\ [s[i] EXCEPT !.empty = "none"] \in Telling(sources)
            /\ [s[i] EXCEPT !.empty = "unknown"] \in Telling(sources)
    BY <1>1 DEF Telling, NamedStep
  <1>5. Given(source, s) \in Reads(sources)
    BY <1>1, <1>2, <1>3 DEF Given
  <1>6. Lacking(source, s) \in Reads(sources)
    BY <1>1, <1>2, <1>3 DEF Lacking
  <1>7. Reached(source, s) \in Reads(sources)
    BY <1>1, <1>2, <1>3 DEF Reached
  <1>8. OrNone(s) \in Reads(sources)
    BY <1>1, <1>2, <1>4 DEF OrNone
  <1>9. OrUnknown(s) \in Reads(sources)
    BY <1>1, <1>2, <1>4 DEF OrUnknown
  <1>10. QED
    BY <1>5, <1>6, <1>7, <1>8, <1>9

\* The reads with a name of their own.
LEMMA EachTells ==
    ASSUME NEW sources, NEW source \in Names
    PROVE  /\ Must(source) \in Reads(sources) /\ Says(source) \in Reads(sources)
           /\ Warns(source) \in Reads(sources)
           /\ source \notin sources => Hides(source) \in Reads(sources)
  <1>1. /\ {"fail"} \in SUBSET Ways /\ {"say"} \in SUBSET Ways
        /\ {"warn"} \in SUBSET Ways /\ {"hide"} \in SUBSET Ways
        /\ {"fail"} \subseteq Loud /\ {"say"} \subseteq Loud /\ {"warn"} \subseteq Loud
    BY DEF Ways, Loud
  <1>2. QED
    BY <1>1, ReadTells DEF Must, Says, Warns, Hides

\* The registries.
LEMMA ContextTells ==
    ASSUME NEW sources, NEW on \in SUBSET Ways, "entities" \in sources => on \subseteq Loud
    PROVE  fetchRegistryContext(on) \in Reads(sources)
  BY ReadTells, EachTells, BothTell, StillTells DEF fetchRegistryContext, Names

\* A command that tells, by all it reads, what ScopedTells and OutspokenNeverDenies ask for.
Answers(c) == Outspoken(c) /\ Scoped(c)

\* A listing whose reads tell of what it rests on.
LEMMA ListsTell ==
    ASSUME NEW sources, NEW does \in Reads(sources), NEW rests,
           rests \cup {"state"} \subseteq sources
    PROVE  /\ Answers(Lists(does, rests))
           /\ \A how : Answers(ReadAs(does, how, rests))
  <1>1. \A i \in DOMAIN does : does[i] \in Telling(sources)
    BY DEF Reads
  <1>2. QED
    BY <1>1 DEF Telling, Answers, Outspoken, Scoped, Lists, ReadAs

\* The same for a listing that is narrowed by what it also rests on.
LEMMA NarrowedTells ==
    ASSUME NEW sources, NEW does \in Reads(sources), NEW rests, NEW by,
           rests \cup by \cup {"state"} \subseteq sources
    PROVE  Answers(Narrowed(Lists(does, rests), by))
  <1>1. \A i \in DOMAIN does : does[i] \in Telling(sources)
    BY DEF Reads
  <1>2. QED
    BY <1>1 DEF Telling, Answers, Outspoken, Scoped, Lists, ReadAs, Narrowed

\* Automations, scripts and traces.
LEMMA AutomationsTell ==
    \A c \in {AutoLs, AutoLsByLabel, AutoLsFailing, AutoShow, AutoCat, AutoDiff, ScriptLs,
              ScriptLsFailing, ScriptShow, ScriptCat, ScriptDiff, TraceShow,
              TraceShowNewest} : Answers(c)
  <1> USE BothTell, EachTells, StillTells, ReadTells, ContextTells, ListsTell, NarrowedTells
      DEF Names, Ways, Loud
  <1>1. Answers(AutoLs)
    BY DEF AutoLs, fetchAutomations, fetchTraceList, RegistryIfAny, fetchFireCounts
  <1>2. Answers(AutoLsByLabel)
    BY DEF AutoLsByLabel, fetchAutomations, fetchTraceList, fetchFireCounts
  <1>3. Answers(AutoLsFailing)
    BY DEF AutoLsFailing, AutoLs, fetchAutomations, fetchTraceList, RegistryIfAny,
           fetchFireCounts
  <1>4. Answers(AutoShow)
    BY DEF AutoShow, resolveAutomation, fetchAutomations, fetchEntityState, GetState,
           fetchTraceList
  <1>5. Answers(AutoCat)
    BY DEF AutoCat, resolveAutomation, fetchAutomations, connectCompanion
  <1>6. Answers(AutoDiff)
    BY DEF AutoDiff, resolveAutomationConfigID, resolveAutomation, fetchAutomations,
           connectCompanion
  <1>7. Answers(ScriptLs)
    BY DEF ScriptLs, fetchScripts, fetchScriptTraceList, RegistryIfAny, fetchFireCounts
  <1>8. Answers(ScriptLsFailing)
    BY DEF ScriptLsFailing, ScriptLs, fetchScripts, fetchScriptTraceList, RegistryIfAny,
           fetchFireCounts
  <1>9. Answers(ScriptShow)
    BY DEF ScriptShow, fetchEntityState, GetState, fetchScriptTraceList
  <1>10. Answers(ScriptCat)
    BY DEF ScriptCat, connectCompanion
  <1>11. Answers(ScriptDiff)
    BY DEF ScriptDiff, ScriptCat, connectCompanion
  <1>12. Answers(TraceShow)
    BY DEF TraceShow
  <1>13. Answers(TraceShowNewest)
    BY DEF TraceShowNewest, latestAutomationRun
  <1> HIDE BothTell, EachTells, StillTells, ReadTells, ContextTells, ListsTell, NarrowedTells
      DEF Names, Ways, Loud
  <1>14. QED
    BY <1>1, <1>2, <1>3, <1>4, <1>5, <1>6, <1>7, <1>8, <1>9, <1>10, <1>11, <1>12, <1>13

\* Registries and helpers.
LEMMA RegistriesTell ==
    \A c \in {DeviceLs, DeviceLsByArea, DeviceShow, LabelLs, FloorLs, AreaLs, HelperLs,
              HelperShow, HelperCat} : Answers(c)
  <1> USE BothTell, EachTells, StillTells, ReadTells, ContextTells, ListsTell, NarrowedTells
      DEF Names, Ways, Loud
  <1>1. Answers(DeviceLs)
    BY DEF DeviceLs, fetchDeviceRegistryContext
  <1>2. Answers(DeviceLsByArea)
    BY DEF DeviceLsByArea, DeviceLs, fetchDeviceRegistryContext
  <1>3. Answers(DeviceShow)
    BY DEF DeviceShow, fetchDeviceRegistryContext, resolveDevice, Finds
  <1>4. Answers(LabelLs)
    BY DEF LabelLs
  <1>5. Answers(FloorLs)
    BY DEF FloorLs
  <1>6. Answers(AreaLs)
    BY DEF AreaLs
  <1>7. Answers(HelperLs)
    BY DEF HelperLs, connectCompanion, fetchStorageHelpers
  <1>8. Answers(HelperShow)
    BY DEF HelperShow, connectCompanion
  <1>9. Answers(HelperCat)
    BY DEF HelperCat, HelperShow, connectCompanion
  <1> HIDE BothTell, EachTells, StillTells, ReadTells, ContextTells, ListsTell, NarrowedTells
      DEF Names, Ways, Loud
  <1>10. QED
    BY <1>1, <1>2, <1>3, <1>4, <1>5, <1>6, <1>7, <1>8, <1>9

\* Configuration, templates, dashboards, health and the log.
LEMMA ConfigurationTells ==
    \A c \in {ConfigEntries, ConfigFiles, ConfigFile, ConfigBlock, TplEval, TplCat, DashLs,
              DashResources, Log, Health, CompanionStatus, CompanionLogs, WireguardStatus,
              Issues, Changes} : Answers(c)
  <1> USE BothTell, EachTells, StillTells, ReadTells, ContextTells, ListsTell, NarrowedTells
      DEF Names, Ways, Loud
  <1>1. Answers(ConfigEntries)
    BY DEF ConfigEntries
  <1>2. Answers(ConfigFiles)
    BY DEF ConfigFiles, connectCompanion
  <1>3. Answers(ConfigFile)
    BY DEF ConfigFile, connectCompanion
  <1>4. Answers(ConfigBlock)
    BY DEF ConfigBlock, connectCompanion, templateRedirect
  <1>5. Answers(TplEval)
    BY DEF TplEval
  <1>6. Answers(TplCat)
    BY DEF TplCat, connectCompanion
  <1>7. Answers(DashLs)
    BY DEF DashLs
  <1>8. Answers(DashResources)
    BY DEF DashResources
  <1>9. Answers(Log)
    BY DEF Log, fetchLogEntries
  <1>10. Answers(Health)
    BY DEF Health, fetchLogEntries, discoverCompanion
  <1>11. Answers(CompanionStatus)
    BY DEF CompanionStatus
  <1>12. Answers(CompanionLogs)
    BY DEF CompanionLogs, connectCompanion
  <1>13. Answers(WireguardStatus)
    BY DEF WireguardStatus, connectCompanion
  <1>14. Answers(Issues)
    BY DEF Issues
  <1>15. Answers(Changes)
    BY DEF Changes, loadUsers
  <1> HIDE BothTell, EachTells, StillTells, ReadTells, ContextTells, ListsTell, NarrowedTells
      DEF Names, Ways, Loud
  <1>16. QED
    BY <1>1, <1>2, <1>3, <1>4, <1>5, <1>6, <1>7, <1>8, <1>9, <1>10, <1>11, <1>12, <1>13,
       <1>14, <1>15

\* Entities.
LEMMA EntitiesTell ==
    \A c \in {EntLs, EntLsByDomain, EntShow, EntRelated, EnergyShow, SvcPreview} : Answers(c)
  <1> USE BothTell, EachTells, StillTells, ReadTells, ContextTells, ListsTell, NarrowedTells
      DEF Names, Ways, Loud
  <1>1. Answers(EntLs)
    BY DEF EntLs, RegistryIfAny
  <1>2. Answers(EntLsByDomain)
    BY DEF EntLsByDomain, RegistryIfAny
  <1>3. Answers(EntShow)
    BY DEF EntShow, fetchEntityState, GetState, loadUsers, changedByLogbookEntries
  <1>4. Answers(EntRelated)
    BY DEF EntRelated, findCompanionRelations
  <1>5. Answers(EnergyShow)
    BY DEF EnergyShow
  <1>6. Answers(SvcPreview)
    BY DEF SvcPreview
  <1> HIDE BothTell, EachTells, StillTells, ReadTells, ContextTells, ListsTell, NarrowedTells
      DEF Names, Ways, Loud
  <1>7. QED
    BY <1>1, <1>2, <1>3, <1>4, <1>5, <1>6

\* The searches state what they could not read, or log it.
Searching == {r \in NamedStep : r.on \subseteq {"fail", "say", "scope"} /\ r.empty = "go on"}

\* A read of theirs.
LEMMA SearchingReads ==
    ASSUME NEW source \in Names, NEW on \in SUBSET {"fail", "say", "scope"}
    PROVE  Read(source, on) \in Seq(Searching)
  <1> DEFINE r == [from |-> source, on |-> on, empty |-> "go on",
                   given |-> {}, lacking |-> {}, reached |-> {}]
  <1>1. r \in Searching
    BY DEF Searching, NamedStep, Ways
  <1> HIDE DEF r
  <1>2. <<r>> \in Seq(Searching)
    BY <1>1
  <1>3. QED
    BY <1>2 DEF r, Read

\* ref scan and grep.
LEMMA SearchesTell == Answers(RefScan) /\ Answers(Grep)
  <1>1. \A s, t \in Seq(Searching) : s \o t \in Seq(Searching)
    BY ConcatProperties
  <1>2. ASSUME NEW does \in Seq(Searching), NEW rests PROVE Answers(Searches(does, rests))
    <2>1. \A i \in DOMAIN does : does[i] \in Searching
      BY <1>2
    <2>2. QED
      BY <2>1 DEF Searching, Answers, Outspoken, Scoped, Searches, ReadAs, Loud
  <1>3. \A on \in SUBSET {"fail", "say", "scope"} :
            /\ connectRefSources \in Seq(Searching)
            /\ Read("config files", on) \in Seq(Searching)
            /\ scanDashboards(on) \in Seq(Searching)
    BY <1>1, SearchingReads DEF connectRefSources, connectCompanion, scanDashboards, Must, Names
  <1>4. Answers(RefScan)
    BY <1>1, <1>2, <1>3 DEF RefScan
  <1>5. Answers(Grep)
    BY <1>1, <1>2, <1>3 DEF Grep
  <1>6. QED
    BY <1>4, <1>5

\* The verdict is refused, or says so.
Judging == {r \in NamedStep : r.on \subseteq {"fail", "gate", "live", "registry"}}

\* A read of its.
LEMMA JudgingReads ==
    ASSUME NEW source \in Names, NEW on \in SUBSET {"fail", "gate", "live", "registry"}
    PROVE  Read(source, on) \in Seq(Judging)
  <1> DEFINE r == [from |-> source, on |-> on, empty |-> "go on",
                   given |-> {}, lacking |-> {}, reached |-> {}]
  <1>1. r \in Judging
    BY DEF Judging, NamedStep, Ways
  <1> HIDE DEF r
  <1>2. <<r>> \in Seq(Judging)
    BY <1>1
  <1>3. QED
    BY <1>2 DEF r, Read

\* ref validate.
LEMMA VerdictTells == Answers(RefValidate)
  <1>1. \A s, t \in Seq(Judging) : s \o t \in Seq(Judging)
    BY ConcatProperties
  <1>2. RefValidate.does \in Seq(Judging) /\ RefValidate.gate = "verdict"
    BY <1>1, JudgingReads
    DEF RefValidate, ReadAs, connectRefSources, connectCompanion, liveEntitySet, scanDashboards,
        Must, Names
  <1>3. \A i \in DOMAIN RefValidate.does : RefValidate.does[i] \in Judging
    BY <1>2
  <1>4. QED
    BY <1>2, <1>3 DEF Judging, Answers, Outspoken, Scoped, Loud

\* What denies mutely is neither a search nor a verdict.
LEMMA MuteAreScoped == \A c \in Mute : Scoped(c)
  <1>1. \A does, rests, by : /\ Lists(does, rests).gate = "none"
                            /\ Narrowed(Lists(does, rests), by).gate = "none"
    BY DEF Lists, ReadAs, Narrowed
  <1>2. \A does, rests, by : [Narrowed(Lists(does, rests), by) EXCEPT !.skips = TRUE].gate = "none"
    BY DEF Lists, ReadAs, Narrowed
  <1>3. \A c \in {CcLs, CcShow, CcLogs} : c.gate = "none"
    BY <1>1 DEF CcLs, CcShow, CcLogs
  <1>4. ScriptLsByLabel.gate = "none" /\ EntLsByArea.gate = "none"
    BY <1>1, <1>2 DEF ScriptLsByLabel, ScriptLs, EntLsByArea, EntLs
  <1>5. \A c \in {EntHist, EntHistAttr, EntAnomalies, EntHistStats, EntWho} : c.gate = "none"
    BY <1>1 DEF EntHist, EntHistAttr, EntAnomalies, EntHistStats, EntWho
  <1>6. QED
    BY <1>3, <1>4, <1>5 DEF Mute, MuteAboutComponents, Scoped

\* Every command states its scope, and every one that is not mute tells what went unread.
LEMMA CommandsTell == \A c \in MCAsks : Scoped(c) /\ (c \notin Mute => Outspoken(c))
  BY AutomationsTell, RegistriesTell, ConfigurationTells, EntitiesTell, SearchesTell, VerdictTells,
     MuteAreScoped
  DEF MCAsks, Answers

-----------------------------------------------------------------------------
(* One process.                                                              *)

\* Each part of a process behaves as it does alone: its steps are its own or leave it alone.
THEOREM PartsImplemented == ProcessSpec => Spec /\ RequestSpec /\ ConnectionSpec /\ ReadSpec
  <1>1. ProcessInit => Init /\ RequestInit /\ ConnectionInit /\ ReadInit
    BY DEF ProcessInit
  <1>2. [ProcessNext]_processVars =>
          /\ [Next]_vars /\ [RequestNext]_requestVars
          /\ [ConnectionNext]_connectionVars /\ [ReadNext]_readVars
    BY DEF ProcessNext, InServer, InRequest, InConnection, InRead, processVars
  <1>3. ProcessSpec => ProcessInit /\ [][ProcessNext]_processVars
    BY PTL DEF ProcessSpec
  <1>4. QED
    BY <1>1, <1>2, <1>3, PTL DEF Spec, RequestSpec, ConnectionSpec, ReadSpec

\* Whatever a process does, its requests, its socket and its reads have their types.
THEOREM ProcessTypeCorrect == ProcessSpec => []ProcessTypeOK
  <1>1. BInv /\ ConnectionTypeOK /\ ReadTypeOK => ProcessTypeOK
    BY DEF ProcessTypeOK, BInv
  <1>2. QED
    BY <1>1, PartsImplemented, RequestInvariance, ConnectionTypeCorrect, ReadTypeCorrect, PTL

\* #73, D-34, H-23: requests with all their retries and connections with their second attempt
\* keep to one --timeout, whatever it is (httpretry.Budget, WSClient.Connect).
THEOREM TimeoutIsKept == ProcessSpec => []WithinTimeout
  <1>1. WithinBudget /\ DialsWithinTimeout => WithinTimeout
    BY DEF WithinTimeout
  <1>2. QED
    BY <1>1, PartsImplemented, BudgetIsKept, DialsInTime, PTL

\* What the parts promise on their own the process keeps: no flag, cancellation or manual goes
\* to another call, no request is duplicated, a cancelled one ends, and a failed discovery
\* names its cause.
THEOREM ProcessKeepsPromises ==
    ProcessSpec => /\ []OwnFlags /\ []OwnCancellation /\ []ManualOnce
                   /\ []AtMostOnce /\ []CancelledSoonEnds /\ []ReasonIsTheCause
                   /\ KeepsPromise
  BY PartsImplemented, FlagsDoNotLeak, CancellationsDoNotLeak, ManualIsDeliveredOnce,
     NothingIsDuplicated, CancelledEndsSoon, CauseIsNamed, PromiseIsKept, PTL

\* H-21, H-7 for the commands of ReadSources: whichever of their sources fail, in whatever
\* order, all but the mute ones tell what went unread before they deny anything.
THEOREM UnreadIsAlwaysTold ==
    ASSUME Asks \subseteq MCAsks
    PROVE  ProcessSpec => []UnreadIsTold
  <1>1. ReadTypeOK /\ (Outspoken(command) => UnreadIsNotEmpty) => UnreadIsTold
    BY CommandsTell DEF ReadTypeOK, UnreadIsTold
  <1>2. QED
    BY <1>1, PartsImplemented, ReadTypeCorrect, OutspokenNeverDenies, PTL

\* D-7, D-31 for the commands of ReadSources: ref scan, ref validate and grep state the part
\* they searched, or are refused where nobody would read it.
THEOREM ScopeIsAlwaysTold ==
    ASSUME Asks \subseteq MCAsks
    PROVE  ProcessSpec => []SearchTellsItsScope
  <1>1. ReadTypeOK /\ (Scoped(command) => SearchTellsItsScope) => SearchTellsItsScope
    BY CommandsTell DEF ReadTypeOK
  <1>2. QED
    BY <1>1, PartsImplemented, ReadTypeCorrect, ScopedTells, PTL

=============================================================================
