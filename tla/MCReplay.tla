------------------------------ MODULE MCReplay ------------------------------
(* What a window becomes at a destination and what becomes of it when it is   *)
(* met again: the collapse of a window's changes (Collapse) and the append    *)
(* changelog with its replays (Changelog). Each behaviour plays one scenario. *)
EXTENDS Naturals, Sequences, TLC

CONSTANTS k1, k2, k3, None, Hole, Vacant, Off

VARIABLES
    which,   \* the scenario a behaviour plays; the other components are Off
    src, events, cuts, col, queue, dest, loaded, refused,
    wal, hist, log, markers, mark, memo, end, todo, plan, deaths, boots, origin, logRefused

collapseVars == <<src, events, cuts, col, queue, dest, loaded, refused>>
logVars == <<wal, hist, log, markers, mark, memo, end, todo, plan, deaths, boots, origin,
    logRefused>>
vars == <<which, collapseVars, logVars>>

\* Each initial row has cells of its own.
OwnCells == [k \in {k1, k2, k3} |-> k]
Symmetry == Permutations({k1, k2, k3})

Pg == INSTANCE Collapse WITH V0 <- 0, T0 <- OwnCells, Keys <- {k1, k2, k3}, Dest <- "pg",
    Deferred <- FALSE, MaxEvents <- 5, MaxWindows <- 1, Overlap <- 0, Toasted <- TRUE,
    Reuse <- TRUE
PgAgain == INSTANCE Collapse WITH V0 <- 0, T0 <- OwnCells, Keys <- {k1, k2, k3}, Dest <- "pg",
    Deferred <- FALSE, MaxEvents <- 5, MaxWindows <- 1, Overlap <- 5, Toasted <- TRUE,
    Reuse <- FALSE
PgSwap == INSTANCE Collapse WITH V0 <- 0, T0 <- OwnCells, Keys <- {k1, k2, k3}, Dest <- "pg",
    Deferred <- TRUE, MaxEvents <- 5, MaxWindows <- 1, Overlap <- 0, Toasted <- FALSE,
    Reuse <- TRUE
Bq == INSTANCE Collapse WITH V0 <- 0, T0 <- OwnCells, Keys <- {k1, k2, k3}, Dest <- "bq",
    Deferred <- FALSE, MaxEvents <- 5, MaxWindows <- 1, Overlap <- 0, Toasted <- TRUE,
    Reuse <- TRUE
My == INSTANCE Collapse WITH V0 <- 0, T0 <- OwnCells, Keys <- {k1, k2, k3}, Dest <- "my",
    Deferred <- FALSE, MaxEvents <- 4, MaxWindows <- 2, Overlap <- 0, Toasted <- TRUE,
    Reuse <- TRUE
Ice == INSTANCE Collapse WITH V0 <- 0, T0 <- OwnCells, Keys <- {k1, k2, k3}, Dest <- "ice",
    Deferred <- FALSE, MaxEvents <- 4, MaxWindows <- 2, Overlap <- 2, Toasted <- TRUE,
    Reuse <- TRUE
Fresh == INSTANCE Changelog WITH Gone <- Vacant,
    Keys <- {"a", "b"}, Legacy <- "none", MaxCommits <- 3,
    MaxDeaths <- 1, MaxBoots <- 0, refused <- logRefused
From55 == INSTANCE Changelog WITH Gone <- Vacant,
    Keys <- {"a", "b"}, Legacy <- "v55", MaxCommits <- 3,
    MaxDeaths <- 1, MaxBoots <- 0, refused <- logRefused
From56 == INSTANCE Changelog WITH Gone <- Vacant,
    Keys <- {"a", "b"}, Legacy <- "v56", MaxCommits <- 3,
    MaxDeaths <- 1, MaxBoots <- 0, refused <- logRefused
FromBoth == INSTANCE Changelog WITH Gone <- Vacant,
    Keys <- {"a", "b"}, Legacy <- "both", MaxCommits <- 3,
    MaxDeaths <- 1, MaxBoots <- 0, refused <- logRefused
Reboots == INSTANCE Changelog WITH Gone <- Vacant,
    Keys <- {"a", "b"}, Legacy <- "none", MaxCommits <- 2,
    MaxDeaths <- 1, MaxBoots <- 1, refused <- logRefused

\* The scenarios respect what each component asks of its constants.
ASSUME ScenarioConstants == Pg!CollapseAssumption /\ PgAgain!CollapseAssumption /\
    PgSwap!CollapseAssumption /\ Bq!CollapseAssumption /\ My!CollapseAssumption /\
    Ice!CollapseAssumption /\ Fresh!ChangelogAssumption /\ From55!ChangelogAssumption /\
    From56!ChangelogAssumption /\ FromBoth!ChangelogAssumption /\ Reboots!ChangelogAssumption

CollapseOff == src = Off /\ events = Off /\ cuts = Off /\ col = Off /\ queue = Off /\
    dest = Off /\ loaded = Off /\ refused = Off
LogOff == wal = Off /\ hist = Off /\ log = Off /\ markers = Off /\ mark = Off /\ memo = Off /\
    end = Off /\ todo = Off /\ plan = Off /\ deaths = Off /\ boots = Off /\ origin = Off /\
    logRefused = Off

CollapseInit ==
    \/ which = "pg" /\ Pg!Init
    \/ which = "again" /\ PgAgain!Init
    \/ which = "swap" /\ PgSwap!Init
    \/ which = "bq" /\ Bq!Init
    \/ which = "my" /\ My!Init
    \/ which = "ice" /\ Ice!Init
LogInit ==
    \/ which = "fresh" /\ Fresh!Init
    \/ which = "v55" /\ From55!Init
    \/ which = "v56" /\ From56!Init
    \/ which = "both" /\ FromBoth!Init
    \/ which = "boot" /\ Reboots!Init

Init ==
    \/ CollapseInit /\ LogOff
    \/ LogInit /\ CollapseOff

CollapseNext ==
    \/ which = "pg" /\ Pg!Next
    \/ which = "again" /\ PgAgain!Next
    \/ which = "swap" /\ PgSwap!Next
    \/ which = "bq" /\ Bq!Next
    \/ which = "my" /\ My!Next
    \/ which = "ice" /\ Ice!Next
LogNext ==
    \/ which = "fresh" /\ Fresh!Next
    \/ which = "v55" /\ From55!Next
    \/ which = "v56" /\ From56!Next
    \/ which = "both" /\ FromBoth!Next
    \/ which = "boot" /\ Reboots!Next

Next ==
    \/ CollapseNext /\ UNCHANGED <<which, logVars>>
    \/ LogNext /\ UNCHANGED <<which, collapseVars>>

Spec == Init /\ [][Next]_vars

-----------------------------------------------------------------------------
\* A window leaves the destination exactly where the source was at the window's end:
\* key moves, reused keys, deferred swaps, unchanged TOASTed cells, and windows the
\* destination already holds a part of (Collapser, the apply programs of dest_pg and dest_bq).
CollapseExact ==
    [][/\ which = "pg" => Pg!AppliesExactly
       /\ which = "again" => PgAgain!AppliesExactly
       /\ which = "swap" => PgSwap!AppliesExactly
       /\ which = "bq" => Bq!AppliesExactly]_vars

\* Once every window is applied the replica is the source, also where a TRUNCATE
\* commits by itself (MySQL) and where a TOASTed cell is fetched from a source that
\* has moved on (Iceberg); no window is refused.
CollapseConverges ==
    /\ which = "my" => My!Converges /\ My!NeverRefused
    /\ which = "ice" => Ice!Converges
    /\ which = "pg" => Pg!NeverRefused
    /\ which = "bq" => Bq!NeverRefused

\* The changelog holds every event once under one identity, however often its window
\* was cut, killed and met again, and also after an upgrade from a release with
\* another numbering; a log both of them wrote is refused, not guessed (replay.rs).
LogFaithful ==
    /\ which = "fresh" => Fresh!Faithful /\ Fresh!Identity
    /\ which = "v55" => From55!Faithful /\ From55!Identity
    /\ which = "v56" => From56!Faithful
    /\ which = "both" => FromBoth!NoGuess

\* The current view over the changelog shows the source as of the watermark, through
\* replays and through a second bootstrap into the same log (changelog.rs).
CurrentTrue ==
    /\ which = "fresh" => Fresh!CurrentTrue
    /\ which = "boot" => Reboots!CurrentTrue /\ Reboots!NeverRefused
=============================================================================
