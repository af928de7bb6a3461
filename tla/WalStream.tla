----------------------------- MODULE WalStream -----------------------------
(***************************************************************************)
(* The replication conversation of one session (wire/walsender.rs): the    *)
(* protocol fallback of START_REPLICATION, the scanner's silence budget    *)
(* with its keepalive requests, standby status reports, and the bounded    *)
(* CopyDone handshake.  Time passes in ticks; ages are counted in ticks.   *)
(* The server may say nothing of its own (wal_sender_timeout = 0, or WAL   *)
(* of tables nobody tracks), but a live one answers a keepalive request    *)
(* within Latency; a half-open connection carries nothing either way.      *)
(* PgStartup opens such a session; the proofs of both are there.           *)
(***************************************************************************)
EXTENDS Integers, Sequences

CONSTANTS
  Silence,   \* the silence budget (120 s)
  Latency,   \* how long a live server takes to answer a request
  DrainMax,  \* stop_replication's patience (30 s)
  Versions,  \* what servers accept: "v2b", "v2", "v1", "none"
  MaxFrames, \* bound: WAL frames of the behaviour
  MaxBusy,   \* bound: the longest apply, longer than Silence
  None

WalStreamAssumption ==
  /\ Silence \in Nat /\ Latency \in Nat /\ DrainMax \in Nat /\ MaxFrames \in Nat
  /\ MaxBusy \in Nat /\ None \notin Nat

\* ping_interval: half the budget (and at most 30 s).
PingInterval == Silence \div 2

AnswersInTime == PingInterval + Latency < Silence

VARIABLES
  version,   \* the newest START_REPLICATION form the server accepts
  want,      \* binary is wanted
  pc,
  binary,    \* stream_binary
  alive,     \* the path to the server is whole
  sock,      \* frames on the socket not yet read: WAL "w" or keepalive "k"
  sent,      \* WAL frames the server has sent
  received,  \* ... the client has taken
  quiet,     \* ticks since quiet_since, or None
  wait,      \* ticks the current read has been parked
  busy,      \* ticks the consumer has been away from the socket
  asked,     \* ticks since the oldest unanswered request, or None
  reported,  \* the lsn of the last standby status
  applied,   \* the destination's watermark
  confirmed  \* what the server takes for confirmed

vars == <<version, want, pc, binary, alive, sock, sent, received, quiet, wait,
          busy, asked, reported, applied, confirmed>>

Init ==
  /\ version \in Versions /\ want \in BOOLEAN
  /\ pc = "start" /\ binary = FALSE /\ alive = TRUE
  /\ sock = <<>> /\ sent = 0 /\ received = 0
  /\ quiet = None /\ wait = 0 /\ busy = 0 /\ asked = None
  /\ reported = 0 /\ applied = 0 /\ confirmed = 0

Accepts(form) == CASE form = "v2b" -> version = "v2b"
                   [] form = "v2" -> version \in {"v2b", "v2"}
                   [] form = "v1" -> version # "none"

\* start_replication: binary if wanted, then protocol 2, then protocol 1.
Start ==
  /\ pc = "start"
  /\ binary' = (want /\ Accepts("v2b"))
  /\ pc' = IF binary' \/ Accepts("v2") \/ Accepts("v1") THEN "read" ELSE "failed"
  /\ UNCHANGED <<version, want, alive, sock, sent, received, quiet, wait, busy, asked,
                 reported, applied, confirmed>>

\* standby_status: the server takes a position, and 0 for no position.
Status(lsn) == /\ reported' = lsn
               /\ confirmed' = IF alive /\ lsn > 0 THEN lsn ELSE confirmed

Took == /\ sock' = Tail(sock)
        /\ received' = IF Head(sock) = "w" THEN received + 1 ELSE received
        /\ quiet' = None /\ busy' = 0 /\ pc' = "busy"

\* refill: what is there is taken; else a read is parked, timed from its start.
Read ==
  /\ pc = "read"
  /\ \/ sock # <<>> /\ Took /\ UNCHANGED wait
     \/ /\ sock = <<>> /\ wait' = 0
        /\ quiet' = IF quiet = None THEN 0 ELSE quiet
        /\ pc' = IF quiet' >= Silence THEN "silent" ELSE "wait"
        /\ UNCHANGED <<sock, received, busy>>
  /\ UNCHANGED <<version, want, binary, alive, sent, asked, reported, applied, confirmed>>

ReadArrives ==
  /\ pc = "wait" /\ sock # <<>> /\ Took
  /\ UNCHANGED <<version, want, binary, alive, sent, wait, asked, reported, applied, confirmed>>

Expired == pc = "wait" /\ (wait >= PingInterval \/ quiet >= Silence)

\* Mutant: the keepalive request reports what was received.
QuietReceived ==
  /\ Expired /\ sock = <<>>
  /\ IF quiet >= Silence
     THEN pc' = "silent" /\ UNCHANGED <<asked, reported, confirmed>>
     ELSE /\ Status(received) /\ pc' = "read"
          /\ asked' = IF asked = None THEN 0 ELSE asked
  /\ UNCHANGED <<version, want, binary, alive, sock, sent, received, quiet, wait, busy, applied>>

\* The parked read's timer: out of budget, or next_event asks for a keepalive
\* with the position it reported last.
Quiet ==
  /\ Expired /\ sock = <<>>
  /\ IF quiet >= Silence
     THEN pc' = "silent" /\ UNCHANGED <<asked, reported, confirmed>>
     ELSE /\ Status(reported) /\ pc' = "read"
          /\ asked' = IF asked = None THEN 0 ELSE asked
  /\ UNCHANGED <<version, want, binary, alive, sock, sent, received, quiet, wait, busy, applied>>

\* The consumer decodes and applies; the destination commits what it received.
Apply ==
  /\ pc = "busy" /\ applied < received
  /\ applied' = received
  /\ UNCHANGED <<version, want, pc, binary, alive, sock, sent, received, quiet, wait, busy,
                 asked, reported, confirmed>>

\* A window confirmed, or a keepalive answered: the applied position goes out.
Confirm ==
  /\ pc = "busy" /\ reported # applied
  /\ Status(applied)
  /\ UNCHANGED <<version, want, pc, binary, alive, sock, sent, received, quiet, wait, busy,
                 asked, applied>>

\* Back to next_event, or out of the loop: CopyDone is sent.
Resume ==
  /\ pc = "busy"
  /\ pc' \in {"read", "drain"}
  /\ wait' = 0
  /\ UNCHANGED <<version, want, binary, alive, sock, sent, received, quiet, busy, asked,
                 reported, applied, confirmed>>

\* stop_replication: in-flight frames are passed over up to ReadyForQuery ...
Drained ==
  /\ pc = "drain" /\ alive
  /\ pc' = "stopped" /\ sock' = <<>>
  /\ UNCHANGED <<version, want, binary, alive, sent, received, quiet, wait, busy, asked,
                 reported, applied, confirmed>>

\* ... or the bound ends the wait.
DrainExpired ==
  /\ pc = "drain" /\ wait >= DrainMax
  /\ pc' = "stopped"
  /\ UNCHANGED <<version, want, binary, alive, sock, sent, received, quiet, wait, busy,
                 asked, reported, applied, confirmed>>

\* The server ships WAL, answers a request, or the path dies.
Ship ==
  /\ alive /\ sent < MaxFrames /\ pc \notin {"start", "failed"}
  /\ sent' = sent + 1 /\ sock' = Append(sock, "w")
  /\ UNCHANGED <<version, want, pc, binary, alive, received, quiet, wait, busy, asked,
                 reported, applied, confirmed>>

Answer ==
  /\ alive /\ asked # None
  /\ asked' = None /\ sock' = Append(sock, "k")
  /\ UNCHANGED <<version, want, pc, binary, alive, sent, received, quiet, wait, busy,
                 reported, applied, confirmed>>

PathDies ==
  /\ alive /\ pc \notin {"start", "failed"}
  /\ alive' = FALSE
  /\ UNCHANGED <<version, want, pc, binary, sock, sent, received, quiet, wait, busy, asked,
                 reported, applied, confirmed>>

\* The server ends the stream, with CopyDone or an error, in the reader's path.
ServerEnds ==
  /\ alive /\ pc \in {"read", "wait"} /\ sock = <<>>
  /\ pc' = "stopped"
  /\ UNCHANGED <<version, want, binary, alive, sock, sent, received, quiet, wait, busy,
                 asked, reported, applied, confirmed>>

Older(age) == IF age = None THEN None ELSE age + 1

\* A tick: whatever is due happens before the next one.
Tick ==
  /\ pc \in {"wait", "busy", "drain"}
  /\ ~Expired /\ ~(pc = "wait" /\ sock # <<>>)
  /\ ~(pc = "drain" /\ wait >= DrainMax)
  /\ ~(pc = "busy" /\ busy >= MaxBusy)
  /\ ~(alive /\ asked = Latency)
  /\ quiet' = Older(quiet)
  /\ asked' = IF alive THEN Older(asked) ELSE None
  /\ wait' = IF pc = "busy" THEN wait ELSE wait + 1
  /\ busy' = IF pc = "busy" THEN busy + 1 ELSE busy
  /\ UNCHANGED <<version, want, pc, binary, alive, sock, sent, received, reported, applied,
                 confirmed>>

Over == pc \in {"failed", "silent", "stopped"}
Ended == Over /\ UNCHANGED vars

Client == Start \/ Read \/ ReadArrives \/ Quiet \/ Resume \/ DrainExpired
Next ==
  \/ Start \/ Read \/ ReadArrives \/ Quiet \/ Apply \/ Confirm \/ Resume
  \/ Drained \/ DrainExpired \/ Ship \/ Answer \/ PathDies \/ ServerEnds \/ Tick \/ Ended

\* The client's steps and time go on, and a live server answers a request;
\* nothing else is asked of the server.
Spec == Init /\ [][Next]_vars /\ WF_vars(Client) /\ WF_vars(Tick) /\ WF_vars(Answer)

-----------------------------------------------------------------------------
\* A live server is never taken for dead, however long an apply kept the
\* client away from the socket and however little the server says of its own
\* (FrameScanner::refill, next_event).
LiveNeverSilent == pc = "silent" => ~alive

\* No status the client sends, keepalive replies and the final one included, confirms
\* a position the destination has not applied, and no live server is given up on the way
\* (standby_status, next_event, refill).
ConfirmedApplied == confirmed <= applied /\ LiveNeverSilent
=============================================================================
