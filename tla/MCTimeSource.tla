--------------------------- MODULE MCTimeSource ---------------------------
(* TimeSource for TLC: programs that have three timers, for the heap; two  *)
(* goroutines that advance the time; or a ticker.                          *)
EXTENDS TimeSource, TLC

CONSTANTS c1, c2, c3, a1, a2, k1

Durations12 == 1..2

Program(s, cs, as, ks) == [source |-> s, clients |-> cs, advancers |-> as, tickers |-> ks]

SmallPrograms ==
    { Program("system", {c1, c2}, {}, {}),
      Program("manual", {c1, c2, c3}, {a1}, {}),
      Program("manual", {c1, c2}, {a1, a2}, {}),
      Program("manual", {c1}, {a1, a2}, {k1}) }
===========================================================================
