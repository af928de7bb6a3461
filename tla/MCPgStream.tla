----------------------------- MODULE MCPgStream -----------------------------
(* The PostgreSQL side of a log_based drain: logging in (PgStartup), the     *)
(* replication connection (WalStream), the window drain (Drain), and the     *)
(* COPY plane of a bulk read (CopyPlane). Each behaviour plays one scenario. *)
EXTENDS PgStartup, TLC

CONSTANTS x1, x2, x3, y1, y2, Off

VARIABLES
    which,   \* the scenario a behaviour plays; the other components are Off
    wal, schema, tx, session, drainSent, streamed, shipped, undone, decoded, wire, announced,
    inStream, txBuf, relayout, body, layout, start, end, stop, streams, streamBytes, carry,
    watermark, drainApplied,
    lane, span, copyWire, fate, lo, hi, copyPc, co, piece, fr, bld, tr, strip, out, enc, bad

drainVars == <<wal, schema, tx, session, drainSent, streamed, shipped, undone, decoded, wire,
    announced, inStream, txBuf, relayout, body, layout, start, end, stop, streams, streamBytes,
    carry, watermark, drainApplied>>
walVars == vars
copyVars == <<lane, span, copyWire, fate, lo, hi, copyPc, co, piece, fr, bld, tr, strip, out,
    enc, bad>>
suiteVars == <<which, drainVars, walVars, loginVars, copyVars>>

Spellings == {"unset", "disable", "allow", "prefer", "require", "verify-ca", "verify-full"}
\* How a server may cut the 10 payload bytes of two rows: per row, in one block,
\* with a notice between, across a row, with an empty block.
Layouts == {<<2, 3, 3, 2>>, <<10>>, <<2, 3, -1, 3, 2>>, <<4, 3, 3>>, <<2, 0, 6, 2>>}
Symmetry == Permutations({x1, x2, x3}) \cup Permutations({y1, y2})

Streams == INSTANCE Drain WITH Txs <- {y1, y2}, Subs <- {0, 1}, MaxOps <- 2, MaxWal <- 4,
    Schemas <- 1, Cols <- <<2>>, AlterInside <- FALSE, Budget <- 2, TxLimit <- 2, Follow <- FALSE,
    sent <- drainSent, applied <- drainApplied
Relayouts == INSTANCE Drain WITH Txs <- {x1, x2, x3}, Subs <- {0}, MaxOps <- 1, MaxWal <- 5,
    Schemas <- 2, Cols <- <<2, 2>>, AlterInside <- FALSE, Budget <- 3, TxLimit <- 3,
    Follow <- TRUE, sent <- drainSent, applied <- drainApplied
Copy == INSTANCE CopyPlane WITH Lanes <- {"framed", "pieces", "rb", "tsv", "strip"}, Spans <- 2,
    Tuples <- 2, Fates <- {"ok", "error", "closed"}, WindowCap <- 4, Target <- 4, Chunk <- 4,
    StK <- 2, Bite <- 1, RowGroup <- 3, wire <- copyWire, pc <- copyPc

\* The scenarios respect what each component asks of its constants.
ASSUME ScenarioConstants == Streams!DrainAssumption /\ Relayouts!DrainAssumption /\
    WalStreamAssumption /\ AnswersInTime /\ Copy!CopyPlaneAssumption

DrainOff == wal = Off /\ schema = Off /\ tx = Off /\ session = Off /\ drainSent = Off /\
    streamed = Off /\ shipped = Off /\ undone = Off /\ decoded = Off /\ wire = Off /\
    announced = Off /\ inStream = Off /\ txBuf = Off /\ relayout = Off /\ body = Off /\
    layout = Off /\ start = Off /\ end = Off /\ stop = Off /\ streams = Off /\
    streamBytes = Off /\ carry = Off /\ watermark = Off /\ drainApplied = Off
WalOff == version = Off /\ want = Off /\ pc = Off /\ binary = Off /\ alive = Off /\ sock = Off /\
    sent = Off /\ received = Off /\ quiet = Off /\ wait = Off /\ busy = Off /\ asked = Off /\
    reported = Off /\ applied = 0 /\ confirmed = 0
LoginOff == ask = Off /\ ssl = Off /\ channel = Off /\ login = Off /\ opts = Off /\
    scram = Off /\ exposed = {} /\ proof = Off /\ logins = 0 /\ tried = Off /\
    refused = Off /\ msgs = Off
CopyOff == lane = Off /\ span = Off /\ copyWire = Off /\ fate = Off /\ lo = Off /\ hi = Off /\
    copyPc = Off /\ co = Off /\ piece = Off /\ fr = Off /\ bld = Off /\ tr = Off /\
    strip = Off /\ out = Off /\ enc = Off /\ bad = Off

DrainInit ==
    \/ which = "streams" /\ Streams!Init
    \/ which = "layouts" /\ Relayouts!Init
WalInit == which = "wal" /\ Init
StartupInit == which = "login" /\ LoginInit
CopyInit == which = "copy" /\ Copy!Init

SuiteInit ==
    \/ DrainInit /\ WalOff /\ LoginOff /\ CopyOff
    \/ WalInit /\ DrainOff /\ LoginOff /\ CopyOff
    \/ StartupInit /\ DrainOff /\ WalOff /\ CopyOff
    \/ CopyInit /\ DrainOff /\ WalOff /\ LoginOff

DrainNext ==
    \/ which = "streams" /\ Streams!Next
    \/ which = "layouts" /\ Relayouts!Next
WalNext == which = "wal" /\ Next
StartupNext == which = "login" /\ LoginNext
CopyNext == which = "copy" /\ Copy!Next

SuiteNext ==
    \/ DrainNext /\ UNCHANGED <<which, walVars, loginVars, copyVars>>
    \/ WalNext /\ UNCHANGED <<which, drainVars, loginVars, copyVars>>
    \/ StartupNext /\ UNCHANGED <<which, drainVars, walVars, copyVars>>
    \/ CopyNext /\ UNCHANGED <<which, drainVars, walVars, loginVars>>

SuiteSpec == SuiteInit /\ [][SuiteNext]_suiteVars

-----------------------------------------------------------------------------
\* The destination holds exactly the surviving changes of the transactions up to
\* its watermark, in commit order, in windows cut by budget, deadline, carry or a savepoint's
\* rollback in a streamed transaction, and every row of a window has the shape of
\* the window's layout, also when columns change between two transactions of one
\* session (drain_window, TxBuf, carry); what a session charges against its budget
\* for streamed transactions is what it holds of them.
AppliedUpToWatermark ==
    /\ which = "streams" =>
          Streams!AppliedUpToWatermark /\ Streams!CommitOrder /\ Streams!StreamsCharged
    /\ which = "layouts" => Relayouts!AppliedUpToWatermark /\ Relayouts!RowsUnderTheirLayout

\* A worker that reports success on a COPY has handed on every row of its spans,
\* each once and in order, however the bytes were cut into messages and reads, and
\* an answer that came whole is never refused.
CopiedWhole ==
    which = "copy" => Copy!RowsInOrder /\ Copy!SuccessIsWhole /\ Copy!WholeNeverRefused
=============================================================================
