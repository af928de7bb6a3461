------------------------------ MODULE Planning -------------------------------
(***************************************************************************)
(* The arithmetic a load is planned with: the split of a cursor range into *)
(* read statements (spans and span_range of source/mod.rs; exact, i128 in  *)
(* the code), and the price of a pipe (PipeCost of pipeline/mod.rs): what  *)
(* one pipe of a shape holds, how many a memory limit pays for, and the    *)
(* peak of a shape. A cost is [reserve, chunks, fixed, perRowGroup].       *)
(***************************************************************************)
EXTENDS Integers

\* ceil((hi - lo + 1) / n)
Step(lo, hi, n) == (hi - lo + n) \div n

\* The k-th span, k from 0, is cut at hi; one that would start past hi is not made.
SpanLo(lo, hi, n, k) == lo + k * Step(lo, hi, n)
SpanHi(lo, hi, n, k) ==
    LET e == lo + (k + 1) * Step(lo, hi, n) - 1 IN IF e < hi THEN e ELSE hi

\* The spans that are made.
Made(lo, hi, n) == {k \in 0..(n - 1) : SpanLo(lo, hi, n, k) <= hi}

-----------------------------------------------------------------------------
PipeBytes(cost, chunk, rg) == cost.chunks * chunk + cost.fixed + cost.perRowGroup * rg

AtLeastOne(n) == IF n > 1 THEN n ELSE 1

\* mem.saturating_sub(reserve) / pipe_bytes.max(1)
Allowed(cost, chunk, rg, mem) ==
    (IF mem > cost.reserve THEN mem - cost.reserve ELSE 0)
        \div AtLeastOne(PipeBytes(cost, chunk, rg))

\* A candidate's pipes: what fits, at most the ask, at least one.
Score(cost, ask, mem, chunk, rg) ==
    LET a == Allowed(cost, chunk, rg, mem)
    IN AtLeastOne(IF a < ask THEN a ELSE ask)

ModelPeak(cost, chunk, rg, pipes) == pipes * PipeBytes(cost, chunk, rg) + cost.reserve
=============================================================================
