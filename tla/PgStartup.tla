----------------------------- MODULE PgStartup -----------------------------
(***************************************************************************)
(* Opening a PostgreSQL wire session (wire/walsender.rs): which TLS mode   *)
(* the URL, the environment and the host ask for, the TLS request, the     *)
(* authentication conversation, the deadline over all of it and the second *)
(* attempt without the decoding option.  The server may answer with any    *)
(* message at any point.  The session it opens is WalStream's; what is     *)
(* proved of both is at the end.                                           *)
(***************************************************************************)
EXTENDS WalStream, SequenceTheorems, TLAPS

CONSTANTS
  Named,    \* sslmode spellings: in the URL, in PGSSLMODE, or "unset"
  MaxMsgs   \* bound: messages of one authentication conversation

VARIABLES
  ask,      \* [url, env: a spelling, local, workmem, optIn: BOOLEAN]
  ssl,      \* the resolved mode
  channel,  \* "none", "plain", "tls" (unverified) or "verified"
  login,    \* where the session is
  opts,     \* this attempt carries the decoding option
  scram,    \* ScramState: "none", "first", "final" (signature known), "verified"
  exposed,  \* channels the password itself (in clear or as MD5) was sent over
  proof,    \* history: the server has shown the signature of this exchange
  logins,   \* startup packets sent
  tried,    \* the attempt with the option is over
  refused,  \* history: the server refused the option
  msgs      \* messages read in this attempt

loginVars == <<ask, ssl, channel, login, opts, scram, exposed, proof, logins, tried, refused, msgs>>

-----------------------------------------------------------------------------
Refused == "refused"

\* ssl_mode_named: verify-ca and unknown spellings are refused by name.
ModeNamed(v) ==
  CASE v = "disable" -> "disable"
    [] v \in {"prefer", "allow"} -> "prefer"
    [] v = "require" -> "require"
    [] v = "verify-full" -> "verify-full"
    [] OTHER -> Refused

\* parse_url: the URL's spelling, else PGSSLMODE, else prefer for a local host
\* and verify-full for any other.
ModeOf(a) ==
  IF a.url # "unset" THEN ModeNamed(a.url)
  ELSE IF a.env # "unset" THEN ModeNamed(a.env)
  ELSE IF a.local THEN "prefer" ELSE "verify-full"

LoginInit ==
  /\ ask \in [url : Named, env : Named, local : BOOLEAN, workmem : BOOLEAN, optIn : BOOLEAN]
  /\ ssl = "none" /\ channel = "none" /\ login = "connect"
  /\ opts = FALSE /\ scram = "none" /\ exposed = {} /\ proof = FALSE
  /\ logins = 0 /\ tried = FALSE /\ refused = FALSE /\ msgs = 0

\* connect: the first attempt carries the option when the operator set one.
Connect ==
  /\ login = "connect"
  /\ ssl' = ModeOf(ask)
  /\ opts' = (ask.workmem /\ ~tried)
  /\ channel' = "none" /\ scram' = "none" /\ proof' = FALSE /\ msgs' = 0
  /\ login' = CASE ssl' = Refused -> "failed" [] ssl' = "disable" -> "startup" [] OTHER -> "tls"
  /\ UNCHANGED <<ask, exposed, logins, tried, refused>>

\* tls_upgrade: the server accepts the SSLRequest (a verified chain only under
\* verify-full) ...
TlsAccepted ==
  /\ login = "tls"
  /\ channel' = IF ssl = "verify-full" THEN "verified" ELSE "tls"
  /\ login' = "startup"
  /\ UNCHANGED <<ask, ssl, opts, scram, exposed, proof, logins, tried, refused, msgs>>

\* ... or refuses it, which only prefer permits; a handshake may also fail.
TlsRefused ==
  /\ login = "tls"
  /\ login' = IF ssl = "prefer" THEN "startup" ELSE "failed"
  /\ UNCHANGED <<ask, ssl, channel, opts, scram, exposed, proof, logins, tried, refused, msgs>>

Startup ==
  /\ login = "startup"
  /\ channel' = IF channel = "none" THEN "plain" ELSE channel
  /\ logins' = logins + 1
  /\ login' = "auth"
  /\ UNCHANGED <<ask, ssl, opts, scram, exposed, proof, tried, refused, msgs>>

DowngradeOk == ssl = "verify-full" \/ ask.optIn

Reading == login = "auth" /\ msgs < MaxMsgs /\ msgs' = msgs + 1

\* AuthenticationCleartextPassword, AuthenticationMD5Password.
AskPassword ==
  /\ Reading
  /\ IF DowngradeOk THEN exposed' = exposed \cup {channel} /\ UNCHANGED login
                    ELSE login' = "failed" /\ UNCHANGED exposed
  /\ UNCHANGED <<ask, ssl, channel, opts, scram, proof, logins, tried, refused>>

\* AuthenticationSASL: a fresh exchange, or a mechanism not spoken.
AskSasl ==
  /\ Reading
  /\ \/ scram' = "first" /\ proof' = FALSE /\ UNCHANGED login
     \/ login' = "failed" /\ UNCHANGED <<scram, proof>>
  /\ UNCHANGED <<ask, ssl, channel, opts, exposed, logins, tried, refused>>

\* AuthenticationSASLContinue: client_final computes the proof and the
\* signature to expect; a wrong nonce or an absurd count is refused.
SaslContinue ==
  /\ Reading
  /\ \/ scram # "none" /\ UNCHANGED login
        /\ scram' = (IF scram = "verified" THEN scram ELSE "final")
     \/ login' = "failed" /\ UNCHANGED scram
  /\ UNCHANGED <<ask, ssl, channel, opts, exposed, proof, logins, tried, refused>>

\* AuthenticationSASLFinal: verify_server accepts the one signature.
SaslFinal ==
  /\ Reading
  /\ \/ scram \in {"final", "verified"} /\ scram' = "verified" /\ proof' = TRUE /\ UNCHANGED login
     \/ login' = "failed" /\ UNCHANGED <<scram, proof>>
  /\ UNCHANGED <<ask, ssl, channel, opts, exposed, logins, tried, refused>>

\* Mutant: ReadyForQuery is authentication.
ReadyTrusted ==
  /\ Reading
  /\ login' = "ready"
  /\ UNCHANGED <<ask, ssl, channel, opts, scram, exposed, proof, logins, tried, refused>>

\* ReadyForQuery: a SCRAM exchange must have been verified.
Ready ==
  /\ Reading
  /\ login' = IF scram \in {"none", "verified"} THEN "ready" ELSE "failed"
  /\ UNCHANGED <<ask, ssl, channel, opts, scram, exposed, proof, logins, tried, refused>>

\* AuthenticationOk, ParameterStatus, BackendKeyData, Notice.
Ignored == login = "auth" /\ UNCHANGED loginVars

\* ErrorResponse: only a refusal of the option (is_guc_rejection) is worth a
\* second attempt, without it.
ErrorResponse ==
  /\ Reading
  /\ \/ opts /\ refused' = TRUE /\ tried' = TRUE /\ login' = "connect"
     \/ login' = "failed" /\ UNCHANGED <<tried, refused>>
  /\ UNCHANGED <<ask, ssl, channel, opts, scram, exposed, proof, logins>>

\* A message startup does not know.
Unexpected ==
  /\ Reading
  /\ login' = "failed"
  /\ UNCHANGED <<ask, ssl, channel, opts, scram, exposed, proof, logins, tried, refused>>

\* connect_with: one deadline over connect, TLS and startup.
Deadline ==
  /\ login \in {"tls", "startup", "auth"}
  /\ login' = "failed"
  /\ UNCHANGED <<ask, ssl, channel, opts, scram, exposed, proof, logins, tried, refused, msgs>>

LoginEnded == login \in {"ready", "failed"} /\ UNCHANGED loginVars

LoginNext ==
  \/ Connect \/ TlsAccepted \/ TlsRefused \/ Startup
  \/ AskPassword \/ AskSasl \/ SaslContinue \/ SaslFinal \/ Ready
  \/ Ignored \/ ErrorResponse \/ Unexpected \/ Deadline \/ LoginEnded

\* The client's own steps and its timer; nothing is asked of the server.
LoginSpec ==
  /\ LoginInit /\ [][LoginNext]_loginVars
  /\ WF_loginVars(Connect) /\ WF_loginVars(Startup) /\ WF_loginVars(Deadline)

-----------------------------------------------------------------------------
\* A session is taken for ready only when a server that began a SCRAM exchange
\* has shown the signature of that exchange, whatever order its messages came
\* in (startup, ScramState::require_verified).
ServerProven == login = "ready" /\ scram # "none" => proof

\* What the URL, PGSSLMODE or the host's locality ask of the channel holds of
\* every conversation: never plain under require or verify-full, verified for
\* a remote host that says nothing, and the password itself only over a
\* verified channel or by consent (parse_url, connect_inner, guard_downgrade).
ChannelAsAsked ==
  LET said == IF ask.url # "unset" THEN ask.url ELSE ask.env
  IN  /\ login \in {"auth", "ready"} =>
           /\ said \in {"require", "verify-full"} => channel # "plain"
           /\ said = "verify-full" \/ (said = "unset" /\ ~ask.local) => channel = "verified"
      /\ exposed \subseteq {"verified"} \/ ask.optIn

\* A second login is only ever the plain attempt after the server refused the
\* decoding option; a wrong password costs one (connect).
OneLogin == logins <= 2 /\ (logins = 2 => refused /\ ~opts)

\* A session that reached ReadyForQuery after a SCRAM exchange has seen the server
\* prove it knows the password, whatever messages came in between; every conversation
\* runs over the channel the URL, PGSSLMODE or the host's locality ask for, and a
\* second login only follows a refused option (walsender.rs).
ProvenBeforeReady == ServerProven /\ ChannelAsAsked /\ OneLogin

-----------------------------------------------------------------------------
(* The session that is opened (WalStream): ConfirmedApplied holds for every budget, latency *)
(* and length of an apply.                                                                 *)

\* What is reported was applied, what is applied was received.
Positions ==
  /\ received \in Nat /\ applied \in Nat /\ reported \in Nat /\ confirmed \in Nat
  /\ confirmed <= applied /\ reported <= applied /\ applied <= received

Ages ==
  /\ sock \in Seq({"w", "k"})
  /\ wait \in Nat /\ (quiet = None \/ quiet \in Nat) /\ (asked = None \/ asked \in Nat)

\* While nothing has come for `quiet` ticks from a live server, a request is out since
\* PingInterval at the latest, and it is not older than the answer takes.
InTime ==
  /\ pc # "silent"
  /\ asked # None => asked <= Latency
  /\ pc \in {"start", "busy", "drain"} => quiet = None
  /\ pc = "wait" => quiet # None
  /\ pc \in {"read", "wait"} /\ sock = <<>> /\ quiet # None =>
        \/ asked # None /\ quiet <= PingInterval + asked
        \/ asked = None /\ pc = "wait" /\ quiet = wait /\ wait <= PingInterval

IInv == Positions /\ Ages /\ (alive => InTime)

\* A status repeats the last report or carries the watermark (Status): no step lets a
\* position overtake the one it rests on.
LEMMA PositionsStep ==
  ASSUME Positions, [Next]_vars
  PROVE  Positions'
<1>. USE DEF Positions
<1>1. ASSUME NEW lsn, lsn \in {reported, applied}, Status(lsn), UNCHANGED <<received, applied>>
      PROVE  Positions'
  BY <1>1 DEF Status
<1>2. CASE Quiet \/ Confirm
  BY <1>1, <1>2 DEF Quiet, Confirm
<1>3. CASE Read \/ ReadArrives
  BY <1>3 DEF Read, ReadArrives, Took
<1>4. CASE Start \/ Apply \/ Resume \/ Drained \/ DrainExpired \/ Ended
  BY <1>4 DEF Start, Apply, Resume, Drained, DrainExpired, Ended, vars
<1>5. CASE Ship \/ Answer \/ PathDies \/ ServerEnds \/ Tick \/ UNCHANGED vars
  BY <1>5 DEF Ship, Answer, PathDies, ServerEnds, Tick, vars
<1>. QED
  BY <1>2, <1>3, <1>4, <1>5 DEF Next

\* The socket stays a sequence of frames, and an age is absent or a number of ticks.
LEMMA AgesStep ==
  ASSUME WalStreamAssumption, Ages, [Next]_vars
  PROVE  Ages'
<1>1. sock' \in Seq({"w", "k"})
  <2>1. ASSUME sock # <<>>, sock' = Tail(sock)
        PROVE  sock' \in Seq({"w", "k"})
    BY <2>1, HeadTailProperties DEF Ages
  <2>2. ASSUME NEW f \in {"w", "k"}, sock' = Append(sock, f)
        PROVE  sock' \in Seq({"w", "k"})
    BY <2>2, AppendProperties DEF Ages
  <2>3. <<>> \in Seq({"w", "k"})
    BY EmptySeq
  <2>4. \/ sock' = sock \/ sock' = <<>>
        \/ sock # <<>> /\ sock' = Tail(sock)
        \/ \E f \in {"w", "k"} : sock' = Append(sock, f)
    BY DEF Next, vars, Start, Read, ReadArrives, Took, Quiet, Apply, Confirm, Resume, Drained,
           DrainExpired, Ship, Answer, PathDies, ServerEnds, Tick, Ended
  <2>. QED
    BY <2>1, <2>2, <2>3, <2>4 DEF Ages
<1>2. wait' \in Nat
  BY DEF Ages, Next, vars, Start, Read, ReadArrives, Took, Quiet, Apply, Confirm, Resume, Drained,
         DrainExpired, Ship, Answer, PathDies, ServerEnds, Tick, Ended
<1>3. quiet' = None \/ quiet' \in Nat
  BY DEF Ages, Next, vars, Start, Read, ReadArrives, Took, Quiet, Apply, Confirm, Resume, Drained,
         DrainExpired, Ship, Answer, PathDies, ServerEnds, Tick, Ended, Older
<1>4. asked' = None \/ asked' \in Nat
  BY DEF Ages, Next, vars, Start, Read, ReadArrives, Took, Quiet, Apply, Confirm, Resume, Drained,
         DrainExpired, Ship, Answer, PathDies, ServerEnds, Tick, Ended, Older
<1>. QED
  BY <1>1, <1>2, <1>3, <1>4 DEF Ages

\* The heart of the argument: as long as the path is whole, a read that has gone quiet has
\* asked by half the budget, and the answer comes before the other half is over.
LEMMA InTimeStep ==
  ASSUME WalStreamAssumption, AnswersInTime, Ages, alive => InTime, [Next]_vars, alive'
  PROVE  InTime'
<1>1. alive /\ InTime
  BY DEF Next, vars, Start, Read, ReadArrives, Took, Quiet, Apply, Confirm, Resume, Drained,
         DrainExpired, Ship, Answer, PathDies, ServerEnds, Tick, Ended
<1>2. /\ PingInterval \in Nat /\ Latency \in Nat /\ Silence \in Nat /\ 0 # None
      /\ PingInterval < Silence /\ 0 < Silence
      /\ \A a \in Nat : a <= Latency => PingInterval + a < Silence
  BY DEF WalStreamAssumption, AnswersInTime, PingInterval
<1>3. ASSUME NEW f, sock' = Append(sock, f)
      PROVE  sock' # <<>>
  BY <1>3, AppendProperties, EmptySeq DEF Ages
<1>. HIDE DEF PingInterval
<1>4. CASE Start
  BY <1>1, <1>4 DEF Start, InTime
<1>5. CASE Read \/ ReadArrives
  <2>1. CASE sock # <<>> /\ Took
    BY <1>1, <1>5, <2>1 DEF Read, ReadArrives, Took, InTime
  <2>2. CASE Read /\ sock = <<>>
    <3>1. /\ pc = "read" /\ wait' = 0 /\ UNCHANGED <<asked, sock>>
          /\ quiet' = IF quiet = None THEN 0 ELSE quiet
          /\ pc' = IF quiet' >= Silence THEN "silent" ELSE "wait"
      BY <2>2 DEF Read
    <3>2. quiet' \in Nat /\ quiet' # None
      BY <1>2, <3>1 DEF Ages, WalStreamAssumption
    <3>3. \/ asked # None /\ quiet' <= PingInterval + asked
          \/ asked = None /\ quiet' = wait' /\ wait' <= PingInterval
      BY <1>1, <1>2, <2>2, <3>1 DEF InTime, Ages
    <3>4. asked # None => asked \in Nat /\ asked <= Latency
      BY <1>1 DEF InTime, Ages
    <3>5. pc' = "wait"
      BY <1>2, <3>1, <3>2, <3>3, <3>4
    <3>. QED
      BY <1>1, <3>1, <3>2, <3>3, <3>5 DEF InTime
  <2>. QED
    BY <1>5, <2>1, <2>2 DEF Read, ReadArrives
<1>6. CASE Quiet
  <2>1. pc = "wait" /\ sock = <<>> /\ UNCHANGED <<quiet, wait, sock>>
    BY <1>6 DEF Quiet, Expired
  <2>2. quiet \in Nat /\ quiet # None
    BY <1>1, <2>1 DEF InTime, Ages, WalStreamAssumption
  <2>3. asked # None => asked \in Nat /\ asked <= Latency
    BY <1>1 DEF InTime, Ages
  <2>4. \/ asked # None /\ quiet <= PingInterval + asked
        \/ asked = None /\ quiet <= PingInterval
    BY <1>1, <2>1, <2>2 DEF InTime
  <2>5. ~(quiet >= Silence)
    BY <1>2, <2>2, <2>3, <2>4
  <2>6. pc' = "read" /\ asked' = IF asked = None THEN 0 ELSE asked
    BY <1>6, <2>5 DEF Quiet
  <2>7. asked' # None /\ asked' <= Latency /\ quiet <= PingInterval + asked'
    BY <1>2, <2>2, <2>3, <2>4, <2>6
  <2>. QED
    BY <2>1, <2>6, <2>7 DEF InTime
<1>7. CASE Apply \/ Confirm \/ Ended \/ UNCHANGED vars
  BY <1>1, <1>7 DEF Apply, Confirm, Ended, vars, InTime
<1>8. CASE Resume \/ Drained \/ DrainExpired \/ ServerEnds \/ PathDies
  BY <1>1, <1>8 DEF Resume, Drained, DrainExpired, ServerEnds, PathDies, InTime
<1>9. CASE Ship \/ Answer
  BY <1>1, <1>3, <1>9 DEF Ship, Answer, InTime
<1>10. CASE Tick
  <2>1. /\ asked' = Older(asked) /\ quiet' = Older(quiet) /\ UNCHANGED <<pc, sock>>
        /\ asked # Latency
    BY <1>1, <1>10 DEF Tick
  <2>2. asked' # None => asked # None /\ asked \in Nat /\ asked' = asked + 1 /\ asked' <= Latency
    BY <1>1, <1>2, <2>1 DEF Older, InTime, Ages
  <2>3. CASE pc # "wait"
    BY <1>1, <1>10, <2>1, <2>2, <2>3 DEF Tick, Older, InTime
  <2>4. CASE pc = "wait"
    <3>1. /\ quiet \in Nat /\ quiet # None /\ wait' = wait + 1 /\ sock = <<>> /\ wait \in Nat
          /\ ~(wait >= PingInterval)
      BY <1>1, <1>10, <2>4 DEF Tick, Expired, InTime, Ages
    <3>2. quiet' = quiet + 1 /\ quiet' # None
      BY <2>1, <3>1 DEF Older, WalStreamAssumption
    <3>3. CASE asked # None
      <4>1. asked \in Nat /\ asked' = asked + 1 /\ asked' # None
        BY <2>1, <3>3 DEF Older, Ages, WalStreamAssumption
      <4>2. quiet' <= PingInterval + asked'
        BY <1>1, <1>2, <2>4, <3>1, <3>2, <3>3, <4>1 DEF InTime
      <4>. QED
        BY <2>1, <2>2, <2>4, <3>2, <4>1, <4>2 DEF InTime
    <3>4. CASE asked = None
      <4>1. asked' = None /\ quiet' = wait' /\ wait' <= PingInterval
        BY <1>1, <1>2, <2>1, <2>4, <3>1, <3>2, <3>4 DEF InTime, Older
      <4>. QED
        BY <2>1, <2>4, <3>2, <4>1 DEF InTime
    <3>. QED
      BY <3>3, <3>4
  <2>. QED
    BY <2>3, <2>4
<1>. QED
  BY <1>4, <1>5, <1>6, <1>7, <1>8, <1>9, <1>10 DEF Next

\* A live server is never taken for dead and no status goes past what the destination
\* applied, for every silence budget a live server can answer in (half of it, and the
\* latency), every number of frames and every length of an apply (refill, next_event,
\* standby_status of walsender.rs).
THEOREM ConfirmedAppliedHolds ==
  WalStreamAssumption /\ AnswersInTime => (Spec => []ConfirmedApplied)
<1>1. ASSUME WalStreamAssumption, AnswersInTime
      PROVE  Spec => []ConfirmedApplied
  <2>1. Init => IInv
    BY <1>1, EmptySeq DEF Init, IInv, Positions, Ages, InTime
  <2>2. IInv /\ [Next]_vars => IInv'
    BY <1>1, PositionsStep, AgesStep, InTimeStep DEF IInv
  <2>3. IInv => ConfirmedApplied
    BY DEF IInv, Positions, InTime, ConfirmedApplied, LiveNeverSilent
  <2>. QED
    BY <2>1, <2>2, <2>3, PTL DEF Spec
<1>. QED
  BY <1>1

-----------------------------------------------------------------------------
(* The exchange that opens it: what a conversation has shown is known from where it stands, *)
(* the channel from the mode resolved, the logins from the attempt.                         *)

Attempts == IF tried THEN 1 ELSE 0

Shape ==
  /\ scram = "verified" => proof
  /\ login = "ready" => scram \in {"none", "verified"}

Channels ==
  /\ login \in {"tls", "startup", "auth", "ready"} => ssl = ModeOf(ask)
  /\ login = "startup" =>
       /\ ssl = "require" => channel = "tls"
       /\ ssl = "verify-full" => channel = "verified"
  /\ login \in {"auth", "ready"} =>
       /\ ssl = "require" => channel = "tls"
       /\ ssl = "verify-full" => channel = "verified"
  /\ ask.optIn \/ exposed \subseteq {"verified"}

Logins ==
  /\ logins \in Nat
  /\ tried \in BOOLEAN /\ opts \in BOOLEAN /\ refused \in BOOLEAN
  /\ login \in {"connect", "tls", "startup"} => logins = Attempts
  /\ login \in {"tls", "startup", "auth"} => (tried => ~opts)
  /\ login = "auth" => logins = Attempts + 1
  /\ tried => refused
  /\ OneLogin

LoginInv == Shape /\ Channels /\ Logins

\* Authentication: the signature is shown before a verified exchange, and a
\* session is ready only after one that was verified or never begun.
LEMMA ShapeStep == Shape /\ [LoginNext]_loginVars => Shape'
<1>. SUFFICES ASSUME Shape, [LoginNext]_loginVars PROVE Shape'
  OBVIOUS
<1>1. CASE Connect
  BY <1>1 DEF Connect, Shape, Refused
<1>2. CASE TlsAccepted \/ TlsRefused \/ Startup
  BY <1>2 DEF TlsAccepted, TlsRefused, Startup, Shape
<1>3. CASE AskPassword
  BY <1>3 DEF AskPassword, Reading, Shape
<1>4. CASE AskSasl \/ SaslContinue \/ SaslFinal
  BY <1>4 DEF AskSasl, SaslContinue, SaslFinal, Reading, Shape
<1>5. CASE Ready
  BY <1>5 DEF Ready, Reading, Shape
<1>6. CASE ErrorResponse \/ Unexpected \/ Deadline
  BY <1>6 DEF ErrorResponse, Unexpected, Deadline, Reading, Shape
<1>7. CASE Ignored \/ LoginEnded \/ UNCHANGED loginVars
  BY <1>7 DEF Ignored, LoginEnded, Shape, loginVars
<1>. QED
  BY <1>1, <1>2, <1>3, <1>4, <1>5, <1>6, <1>7 DEF LoginNext

\* The channel: every attempt resolves the mode again, and nothing after the
\* TLS request changes mode or channel.
LEMMA ChannelsStep == Channels /\ [LoginNext]_loginVars => Channels'
<1>. SUFFICES ASSUME Channels, [LoginNext]_loginVars PROVE Channels'
  OBVIOUS
<1>1. CASE Connect
  <2>1. /\ ask' = ask /\ ssl' = ModeOf(ask) /\ exposed' = exposed
        /\ login' \in {"failed", "startup", "tls"}
        /\ login' = "startup" => ssl' = "disable"
    BY <1>1 DEF Connect, Refused
  <2>2. ModeOf(ask') = ModeOf(ask)
    BY <2>1
  <2>. QED
    BY <2>1, <2>2 DEF Channels
<1>2. CASE TlsAccepted
  BY <1>2 DEF TlsAccepted, Channels, ModeOf, ModeNamed, Refused
<1>3. CASE TlsRefused
  BY <1>3 DEF TlsRefused, Channels, ModeOf, ModeNamed, Refused
<1>4. CASE Startup
  BY <1>4 DEF Startup, Channels, ModeOf
<1>5. CASE AskPassword
  BY <1>5 DEF AskPassword, Reading, DowngradeOk, Channels, ModeOf
<1>6. CASE AskSasl \/ SaslContinue \/ SaslFinal
  BY <1>6 DEF AskSasl, SaslContinue, SaslFinal, Reading, Channels, ModeOf
<1>7. CASE Ready
  BY <1>7 DEF Ready, Reading, Channels, ModeOf
<1>8. CASE ErrorResponse \/ Unexpected \/ Deadline
  BY <1>8 DEF ErrorResponse, Unexpected, Deadline, Reading, Channels, ModeOf
<1>9. CASE Ignored \/ LoginEnded \/ UNCHANGED loginVars
  BY <1>9 DEF Ignored, LoginEnded, Channels, ModeOf, loginVars
<1>. QED
  BY <1>1, <1>2, <1>3, <1>4, <1>5, <1>6, <1>7, <1>8, <1>9 DEF LoginNext

\* Logins: only the refusal of the option opens a second attempt, and that one
\* does not carry it.
LEMMA LoginsStep == Logins /\ [LoginNext]_loginVars => Logins'
<1>. SUFFICES ASSUME Logins, [LoginNext]_loginVars PROVE Logins'
  OBVIOUS
<1>1. CASE Connect
  <2>1. /\ UNCHANGED <<logins, tried, refused>>
        /\ opts' \in BOOLEAN
        /\ tried => ~opts'
        /\ logins = Attempts
        /\ login' \in {"failed", "startup", "tls"}
    BY <1>1 DEF Connect, Refused, Logins
  <2>2. logins <= 1
    BY <2>1 DEF Attempts
  <2>. QED
    BY <2>1, <2>2 DEF Logins, Attempts, OneLogin
<1>2. CASE TlsAccepted \/ TlsRefused
  BY <1>2 DEF TlsAccepted, TlsRefused, Logins, Attempts, OneLogin
<1>3. CASE Startup
  BY <1>3 DEF Startup, Logins, Attempts, OneLogin
<1>4. CASE AskPassword
  BY <1>4 DEF AskPassword, Reading, Logins, Attempts, OneLogin
<1>5. CASE AskSasl \/ SaslContinue \/ SaslFinal
  BY <1>5 DEF AskSasl, SaslContinue, SaslFinal, Reading, Logins, Attempts, OneLogin
<1>6. CASE Ready
  BY <1>6 DEF Ready, Reading, Logins, Attempts, OneLogin
<1>7. CASE ErrorResponse
  <2>1. CASE opts /\ refused' = TRUE /\ tried' = TRUE /\ login' = "connect"
    <3>1. login = "auth" /\ ~tried /\ UNCHANGED <<logins, opts>>
      BY <1>7, <2>1 DEF ErrorResponse, Reading, Logins
    <3>2. logins = 1
      BY <3>1 DEF Logins, Attempts
    <3>. QED
      BY <2>1, <3>1, <3>2 DEF Logins, Attempts, OneLogin
  <2>2. CASE login' = "failed" /\ UNCHANGED <<tried, refused>>
    BY <1>7, <2>2 DEF ErrorResponse, Logins, OneLogin
  <2>. QED
    BY <1>7, <2>1, <2>2 DEF ErrorResponse
<1>8. CASE Unexpected \/ Deadline
  BY <1>8 DEF Unexpected, Deadline, Reading, Logins, Attempts, OneLogin
<1>9. CASE Ignored \/ LoginEnded \/ UNCHANGED loginVars
  BY <1>9 DEF Ignored, LoginEnded, Logins, Attempts, OneLogin, loginVars
<1>. QED
  BY <1>1, <1>2, <1>3, <1>4, <1>5, <1>6, <1>7, <1>8, <1>9 DEF LoginNext

\* Whatever a server answers, in whatever order, and for every spelling of the
\* mode: no session is ready before the server's proof, none runs over a channel
\* weaker than was asked, and a wrong password costs one login (connect, startup).
THEOREM ProvenBeforeReadyHolds ==
  LoginSpec => []ProvenBeforeReady
<1>1. LoginInit => LoginInv
  <2>1. LoginInit => Shape /\ Channels
    BY DEF LoginInit, Shape, Channels
  <2>2. LoginInit => Logins
    <3>1. LoginInit => Attempts = 0 /\ OneLogin
      BY DEF LoginInit, Attempts, OneLogin
    <3>2. LoginInit => tried \in BOOLEAN /\ opts \in BOOLEAN /\ refused \in BOOLEAN
      BY DEF LoginInit
    <3>3. LoginInit => login = "connect" /\ ~tried /\ logins = 0
      BY DEF LoginInit
    <3>. QED
      BY <3>1, <3>2, <3>3 DEF Logins
  <2>. QED
    BY <2>1, <2>2 DEF LoginInv
<1>2. LoginInv /\ [LoginNext]_loginVars => LoginInv'
  BY ShapeStep, ChannelsStep, LoginsStep DEF LoginInv
<1>3. LoginInv => ServerProven
  BY DEF LoginInv, Shape, ServerProven
<1>4. LoginInv => ChannelAsAsked
  BY DEF LoginInv, Channels, ChannelAsAsked, ModeOf, ModeNamed, Refused
<1>5. LoginInv => OneLogin
  BY DEF LoginInv, Logins
<1>. QED
  BY <1>1, <1>2, <1>3, <1>4, <1>5, PTL DEF LoginSpec, ProvenBeforeReady
=============================================================================
