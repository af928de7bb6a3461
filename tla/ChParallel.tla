----------------------------- MODULE ChParallel -----------------------------
(***************************************************************************)
(* Windows of one insert-only ClickHouse table applied several at a time   *)
(* (logbased/run.rs, the parallel arm of apply_windows).  They may land in *)
(* any order; the table's mark follows the contiguous prefix.  A window    *)
(* with a tail or a truncate waits for the ones before it and runs alone.  *)
(*                                                                         *)
(* A window here is one op on one key; a row remembers the windows that    *)
(* made it, so what a readback saw is visible in it.                       *)
(***************************************************************************)
EXTENDS Naturals, Sequences, SequencesExt, FiniteSets

CONSTANTS
    Keys,
    Total,     \* bound: windows of the log
    Depth,     \* window_depth, at least 2
    MaxDeaths  \* bound: runs that fail

ChParallelAssumption == {Total, Depth, MaxDeaths} \subseteq Nat /\ Depth >= 2

VARIABLES
    ops,       \* what each window does
    next,      \* the next window the drain hands over
    held,      \* a window taken off the channel that waits for the ones in flight, 0 for none
    inflight,  \* windows whose apply is running
    applied,   \* of those, the ones whose statements have run
    done,      \* settled windows past the prefix
    expected,  \* the first window not yet closed
    barrier,   \* a window runs alone
    tab,       \* the table: per key the newest version
    mark,      \* _apitap_state
    deaths     \* runs that failed

vars == <<ops, next, held, inflight, applied, done, expected, barrier, tab, mark, deaths>>

\* Bodies::parallel_safe: no tail, no truncate.
ParallelSafe(w) == ops[w].op \in {"put", "delete"}

Nothing == [ver |-> 0, made |-> <<>>]

\* What a window does to a table whose earlier windows have all landed.
Effect(t, w) ==
    LET k == ops[w].key IN
    CASE ops[w].op = "put" -> [t EXCEPT ![k] = [ver |-> w, made |-> <<w>>]]
      [] ops[w].op = "delete" -> [t EXCEPT ![k] = [ver |-> w, made |-> <<>>]]
      [] ops[w].op = "masked" -> [t EXCEPT ![k] = [ver |-> w, made |-> Append(t[k].made, w)]]
      [] ops[w].op = "truncate" -> [j \in Keys |-> Nothing]

Truth(w) == FoldLeft(Effect, [k \in Keys |-> Nothing], [i \in 1..w |-> i])

Init ==
    /\ ops \in [1..Total -> [op : {"put", "delete", "masked", "truncate"}, key : Keys]]
    /\ \A w \in 1..Total : ops[w].op = "masked" => Truth(w - 1)[ops[w].key].made # <<>>
    /\ next = 1 /\ held = 0 /\ inflight = {} /\ applied = {} /\ done = {}
    /\ expected = 1 /\ barrier = FALSE
    /\ tab = [k \in Keys |-> Nothing] /\ mark = 0 /\ deaths = 0

Launch(w) == inflight' = inflight \cup {w}

\* A window off the channel: launched, or held until everything in flight has settled.
Recv ==
    /\ held = 0 /\ next <= Total
    /\ Cardinality(inflight) < Depth /\ ~barrier
    /\ next' = next + 1
    /\ \/ ParallelSafe(next) /\ Launch(next) /\ UNCHANGED held
       \/ ~ParallelSafe(next) /\ held' = next /\ UNCHANGED inflight
    /\ UNCHANGED <<ops, applied, done, expected, barrier, tab, mark, deaths>>

\* The drain of the ones in flight is over; the held window goes alone.
Alone ==
    /\ held # 0 /\ inflight = {}
    /\ Launch(held) /\ held' = 0 /\ barrier' = TRUE
    /\ UNCHANGED <<ops, next, applied, done, expected, tab, mark, deaths>>

\* A versioned INSERT shows only if nothing newer is at the key.
Newer(t, k, v) == IF t[k].ver > v.ver THEN t ELSE [t EXCEPT ![k] = v]

\* The window's statements.  A masked row already made by an earlier attempt is taken from
\* the residue journal as it was.
ApplyWindow(w) ==
    LET k == ops[w].key
        at == tab[k].made
        image == IF Contains(at, w) THEN at ELSE Append(at, w)
    IN  /\ w \in inflight \ applied
        /\ applied' = applied \cup {w}
        /\ \/ /\ ops[w].op = "put"
              /\ tab' = Newer(tab, k, [ver |-> w, made |-> <<w>>])
           \/ /\ ops[w].op = "delete"
              /\ tab' = Newer(tab, k, [ver |-> w, made |-> <<>>])
           \/ /\ ops[w].op = "masked"
              /\ tab' = [tab EXCEPT ![k] = [ver |-> w, made |-> image]]
           \/ /\ ops[w].op = "truncate"
              /\ tab' = [j \in Keys |-> Nothing]
        /\ UNCHANGED <<ops, next, held, inflight, done, expected, barrier, mark, deaths>>

\* settle!: the window joins the done ones, and every window of the contiguous prefix is
\* closed in order (close_prefix_window).
Settle(w) ==
    LET all == done \cup {w}
        last == CHOOSE e \in expected - 1..Total : expected..e \subseteq all /\ e + 1 \notin all
    IN  /\ w \in applied
        /\ inflight' = inflight \ {w} /\ applied' = applied \ {w}
        /\ done' = {d \in all : d > last}
        /\ expected' = last + 1 /\ mark' = last
        /\ barrier' = (barrier /\ inflight' # {})
        /\ UNCHANGED <<ops, next, held, tab, deaths>>

\* An apply or a close fails: the run returns, what is in flight is dropped, some of it after
\* its statements ran.  The next run starts at the mark.
Fail ==
    /\ deaths < MaxDeaths /\ inflight # {}
    /\ deaths' = deaths + 1
    /\ next' = mark + 1 /\ expected' = mark + 1
    /\ held' = 0 /\ inflight' = {} /\ applied' = {} /\ done' = {} /\ barrier' = FALSE
    /\ UNCHANGED <<ops, tab, mark>>

Next ==
    \/ Recv \/ Alone \/ Fail
    \/ \E w \in 1..Total : ApplyWindow(w) \/ Settle(w)

Spec == Init /\ [][Next]_vars
LiveSpec == Spec /\ WF_vars(Recv) /\ WF_vars(Alone)
                 /\ \A w \in 1..Total : WF_vars(ApplyWindow(w)) /\ WF_vars(Settle(w))

-----------------------------------------------------------------------------
TypeOK ==
    /\ applied \subseteq inflight /\ inflight \cup done \subseteq 1..Total
    /\ Cardinality(inflight) <= Depth
    /\ mark \in 0..Total /\ next \in 1..Total + 1
    /\ \A k \in Keys : tab[k].ver \in 0..Total

\* Whatever order the windows landed in, and however often a run failed half way, the table
\* is the source once the mark reaches the last window (run.rs 2439-2443, 2476-2483).
Converges == mark = Total => [k \in Keys |-> tab[k].made] = [k \in Keys |-> Truth(Total)[k].made]

\* A window about to read its row back finds it as the window before it left it, or as its
\* own earlier attempt did (run.rs 2477-2483: "otherwise a masked readback races its
\* sibling's insert").
ReadsInOrder ==
    \A w \in inflight \ applied : ops[w].op = "masked" =>
        tab[ops[w].key].made \in {Truth(w - 1)[ops[w].key].made, Truth(w)[ops[w].key].made}
=============================================================================
