----------------------------- MODULE Connection -----------------------------
(***************************************************************************)
(* The WebSocket to Home Assistant (haapi.WSClient) and the discovery of the  *)
(* companion that runs over it (companion.Discover).                          *)
(*                                                                            *)
(* One process connects once and then asks for the companion.  What stands at  *)
(* the configured URL is chosen anew at every step.  Time is counted in ticks  *)
(* since Connect was called.                                                  *)
(***************************************************************************)
EXTENDS Naturals, Sequences, SequencesExt

CONSTANTS
    Timeout,       \* --timeout (haapi.DefaultTimeout)
    DialTimeout,   \* DialTimeout, before the minimum is taken
    Upgrade,       \* handshakeTimeout, before the minimum is taken
    MaxClock,      \* bound on the ticks counted
    MaxAddons      \* bound on the add-ons Supervisor lists

ASSUME ConnectionAssumption ==
    /\ Timeout \in Nat \ {0} /\ DialTimeout \in Nat \ {0} /\ Upgrade \in Nat \ {0}
    /\ MaxClock \in Nat /\ MaxAddons \in Nat

\* Why an attempt to connect failed.
Failure == {"transport", "redirect", "protocol", "auth"}

Reason == {"auth_denied", "auth_invalid", "addon_missing", "unreachable",
           "redirected", "protocol_mismatch"}

\* What identifies an add-on as the companion, best first; "other" does not.
Addon == {"slug", "suffix", "name", "other"}

Connecting == {"dial", "upgrade", "hello", "auth"}

VARIABLES
    url,         \* COMPANION_URL is configured
    stage,       \* of Connect and then of Discover
    retried,     \* the one retry has been used
    clock,       \* ticks since Connect began
    since,       \* when the attempt under way began to dial
    connectErr,  \* why the last Connect failed
    refusal,     \* what HA answered to the last supervisor command
    slug,        \* the add-on picked
    reason       \* of the DiscoveryError

connectionVars == <<url, stage, retried, clock, since, connectErr, refusal, slug, reason>>
found == <<refusal, slug, reason>>

ConnectionInit ==
    /\ url \in BOOLEAN
    /\ stage = "dial" /\ retried = FALSE
    /\ clock = 0 /\ since = 0
    /\ connectErr = "none" /\ refusal = "none" /\ slug = "none" /\ reason = "none"

Minimum(a, b) == IF a < b THEN a ELSE b
dialBound == Minimum(DialTimeout, Timeout)
handshakeBound == Minimum(Upgrade, Timeout)

\* The context of Connect has a deadline, each attempt a shorter one.
Expired == clock >= Timeout
TimeIsUp ==
    \/ Expired
    \/ clock - since >= handshakeBound
    \/ stage = "dial" /\ clock - since >= dialBound

(***************************************************************************)
(* Connect: one attempt, and one more if there is time.                      *)
(***************************************************************************)
AttemptFails(why) ==
    /\ IF ~retried /\ ~Expired
       THEN /\ stage' = "dial" /\ retried' = TRUE /\ since' = clock
            /\ UNCHANGED connectErr
       ELSE /\ stage' = "discover" /\ connectErr' = why
            /\ UNCHANGED <<retried, since>>
    /\ UNCHANGED <<url, clock, found>>

Reach(next) ==
    /\ stage' = next
    /\ UNCHANGED <<url, retried, clock, since, connectErr, found>>

\* redirectFromHandshake: only a redirect to another origin is one.
Dial ==
    /\ stage = "dial"
    /\ \/ ~TimeIsUp /\ (Reach("upgrade") \/ AttemptFails("transport"))
       \/ TimeIsUp /\ AttemptFails("transport")

Handshake ==
    /\ stage = "upgrade"
    /\ \/ ~TimeIsUp /\ (Reach("hello") \/ AttemptFails("redirect"))
       \/ AttemptFails("transport")

\* The deadline of the dial is cleared once the socket is open: what follows is
\* read without one.
Hello ==
    /\ stage = "hello"
    /\ Reach("auth") \/ AttemptFails("protocol") \/ AttemptFails("transport")

Authenticate ==
    /\ stage = "auth"
    /\ \/ Reach("discover")
       \/ \E why \in {"auth", "protocol", "transport"} : AttemptFails(why)

Wait ==
    /\ clock < MaxClock
    /\ \/ stage \in {"dial", "upgrade"} /\ ~TimeIsUp
       \/ stage \in {"hello", "auth"}
    /\ clock' = clock + 1
    /\ UNCHANGED <<url, stage, retried, since, connectErr, found>>

(***************************************************************************)
(* Discover.                                                                 *)
(***************************************************************************)
\* Mutant: whatever went wrong, the server was not reached.
NobodyThere(err) == "unreachable"

\* Mutant: the cause is passed on as it came.
RawCause(err) == IF err = "redirect" THEN "redirected" ELSE err

classifyConnectError(err) ==
    CASE err = "redirect" -> "redirected"
      [] err = "auth"     -> "auth_invalid"
      [] OTHER            -> "unreachable"

\* The words of a refused supervisor command, in the order they are looked for;
\* "lost" is a socket that closed.
Refusal == {"unknown command", "forbidden", "not found", "lost", "other"}

classifyWSError(words) ==
    CASE words = "unknown command" -> "protocol_mismatch"
      [] words = "forbidden"       -> "auth_denied"
      [] words = "not found"       -> "addon_missing"
      [] OTHER                     -> "unreachable"

\* matchCompanion: by slug, else by the repository's suffix, else by name.
matchCompanion(addons) ==
    LET listed(kind) == \E i \in DOMAIN addons : addons[i] = kind
    IN  IF listed("slug") THEN "slug"
        ELSE IF listed("suffix") THEN "suffix"
        ELSE IF listed("name") THEN "name"
        ELSE "none"

NotFound(why, words) ==
    /\ stage' = "notfound" /\ reason' = why /\ refusal' = words
    /\ UNCHANGED <<url, retried, clock, since, connectErr, slug>>

\* A payload that does not parse, or a record without its slug, is an error
\* without a reason.
Unparsed ==
    /\ stage' = "unparsed"
    /\ UNCHANGED <<url, retried, clock, since, connectErr, found>>

Discover ==
    /\ stage = "discover"
    /\ \/ url /\ Reach("found")
       \/ ~url /\ connectErr # "none" /\ NotFound(classifyConnectError(connectErr), "none")
       \/ ~url /\ connectErr = "none" /\ Reach("addons")

ListAddons ==
    /\ stage = "addons"
    /\ \/ \E words \in Refusal : NotFound(classifyWSError(words), words)
       \/ Unparsed
       \/ \E addons \in BoundedSeq(Addon, MaxAddons) :
              LET match == matchCompanion(addons)
              IN  IF match = "none"
                  THEN NotFound("addon_missing", "none")
                  ELSE /\ stage' = "info" /\ slug' = match
                       /\ UNCHANGED <<url, retried, clock, since, connectErr, refusal, reason>>

AddonInfo ==
    /\ stage = "info"
    /\ \/ \E words \in Refusal : NotFound(classifyWSError(words), words)
       \/ Unparsed
       \/ NotFound("unreachable", "no ingress_url")
       \/ Reach("found")

ConnectionStep ==
    \/ Dial \/ Handshake \/ Hello \/ Authenticate
    \/ Discover \/ ListAddons \/ AddonInfo

ConnectionNext == ConnectionStep \/ Wait

ConnectionSpec == ConnectionInit /\ [][ConnectionNext]_connectionVars

(***************************************************************************)
(* Properties.                                                               *)
(***************************************************************************)
ConnectionTypeOK ==
    /\ url \in BOOLEAN /\ retried \in BOOLEAN
    /\ stage \in Connecting \cup
           {"discover", "addons", "info", "found", "notfound", "unparsed"}
    /\ clock \in Nat /\ since \in Nat
    /\ connectErr \in Failure \cup {"none"}
    /\ refusal \in Refusal \cup {"none", "no ingress_url"}
    /\ slug \in Addon \cup {"none"}
    /\ reason \in Reason \cup {"none"}

\* #73, D-34: both attempts to open the socket share --timeout: no dial and no
\* upgrade is under way once it is over, however long the first attempt hung in
\* the authentication, and a retry is not given a budget of its own.
DialsWithinTimeout == stage \in {"dial", "upgrade"} => clock <= Timeout

\* #75: the reason given is the cause.  A rejected token or a redirect of the last
\* attempt is named as such, and nothing else is.
ReasonIsTheCause ==
    stage = "notfound" =>
        /\ reason = "auth_invalid" <=> connectErr = "auth"
        /\ reason = "redirected" <=> connectErr = "redirect"
        /\ connectErr # "none" => reason \in {"auth_invalid", "redirected", "unreachable"}

=============================================================================
