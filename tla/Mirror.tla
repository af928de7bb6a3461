------------------------------- MODULE Mirror -------------------------------
(***************************************************************************)
(* What a log_based group promises, whatever moves the data: each member   *)
(* is either unpublished, or an exact prefix of the source's log that only *)
(* grows, and the source keeps the log from the slowest member on until    *)
(* the copy is given up.  Module Replica implements it.                    *)
(***************************************************************************)
EXTENDS Integers, Sequences

CONSTANTS Tables, Absent

VARIABLES
    log,     \* log[i]: the members changed by the source's i-th commit
    at,      \* at[t]: the prefix t stands for, Absent when unpublished
    rows,    \* rows[t]: the commits whose changes a reader of t sees
    kept     \* the log is kept from here on; Absent when it is not

mvars == <<log, at, rows, kept>>

Prefix(t, p) == {i \in 1..p : t \in log[i]}
Published(t) == at[t] # Absent
Set(t, p) ==
    /\ at' = [at EXCEPT ![t] = p]
    /\ rows' = [rows EXCEPT ![t] = Prefix(t, p)]

Init ==
    /\ log = <<>>
    /\ at = [t \in Tables |-> Absent]
    /\ rows = [t \in Tables |-> {}]
    /\ kept = Absent

Commit ==
    /\ \E S \in SUBSET Tables : log' = Append(log, S)
    /\ UNCHANGED <<at, rows, kept>>

\* The log is kept from now on, which makes sense for a fresh copy only.
Establish ==
    /\ kept = Absent /\ kept' = Len(log)
    /\ \A t \in Tables : ~Published(t)
    /\ UNCHANGED <<log, at, rows>>

\* A member appears as the prefix it was copied at; the log after it is kept, or
\* was given up meanwhile, and the member will not grow.
Publish ==
    /\ \E t \in Tables, p \in 0..Len(log) :
          ~Published(t) /\ (kept # Absent => kept <= p) /\ Set(t, p)
    /\ UNCHANGED <<log, kept>>

\* A member grows, whole commits at a time, while the log is there to grow from.
Advance ==
    /\ \E t \in Tables, p \in 0..Len(log) :
          Published(t) /\ at[t] < p /\ kept # Absent /\ kept <= at[t] /\ Set(t, p)
    /\ UNCHANGED <<log, kept>>

\* Nothing a published member still needs is released.
Release ==
    /\ kept # Absent
    /\ \E k \in (kept + 1)..Len(log) :
          /\ \A t \in Tables : Published(t) => k <= at[t]
          /\ kept' = k
    /\ UNCHANGED <<log, at, rows>>

\* The copy is given up: members are withdrawn, or the log is.
Withdraw ==
    /\ \E T \in SUBSET Tables :
          /\ T # {}
          /\ at' = [t \in Tables |-> IF t \in T THEN Absent ELSE at[t]]
          /\ rows' = [t \in Tables |-> IF t \in T THEN {} ELSE rows[t]]
    /\ UNCHANGED <<log, kept>>

Lose ==
    /\ kept # Absent /\ kept' = Absent
    /\ UNCHANGED <<log, at, rows>>

Next == Commit \/ Establish \/ Publish \/ Advance \/ Release \/ Withdraw \/ Lose

Spec == Init /\ [][Next]_mvars
=============================================================================
