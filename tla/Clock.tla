------------------------------- MODULE Clock -------------------------------
(***************************************************************************)
(* get_cpu_mhz of src/csrc/get_clock.cc, which recv_benchmark divides by:   *)
(* the cycles per microsecond, by linear regression over measurements of    *)
(* growing length, compared with what /proc/cpuinfo says.                   *)
(*                                                                          *)
(* A frequency is a fraction <<numerator, denominator>>; NaN is what C      *)
(* makes of 0.0 / 0.0.  Of time there is what has passed since a            *)
(* measurement began, on the wall clock and in cycles.  The sections for    *)
(* architectures other than x86-64 are left out.                            *)
(***************************************************************************)
EXTENDS Integers, Sequences, FiniteSetsExt

CONSTANTS
  Measurements, UsecStep, UsecStart,   \* MEASUREMENTS, USECSTEP, USECSTART
  Mhz,            \* the rate of the cycle counter
  Overheads,      \* cycles between get_cycles and gettimeofday
  Readings,       \* frequencies /proc/cpuinfo may show; see proc_get_cpu_mhz
  MaxDelay,       \* bound on the time between two calls of gettimeofday
  MaxSteps,       \* bound on adjustments of the wall clock
  MaxWall         \* bound on the length of a measurement

ASSUME ClockAssumption ==
  /\ Measurements \in Nat \ {0}
  /\ {UsecStep, UsecStart, Mhz} \subseteq Nat
  /\ Overheads \subseteq Nat /\ Readings \subseteq Nat
  /\ MaxDelay \in Nat /\ MaxSteps \in Nat /\ MaxWall \in Nat

VARIABLES
  phase,      \* "start" and "poll" of a measurement, "regress", "done"
  x, y,       \* the measurements so far
  wall,       \* tv2 - tv1
  cycles,     \* get_cycles() - start
  cpuinfo,    \* the frequencies in /proc/cpuinfo, one per processor
  result,     \* of get_cpu_mhz
  overheads, steps   \* history

vars == <<phase, x, y, wall, cycles, cpuinfo, result, overheads, steps>>

NaN == <<0, 0>>
Zero == <<0, 1>>

Init ==
  /\ phase = "start"
  /\ x = <<>> /\ y = <<>>
  /\ wall = 0 /\ cycles = 0
  /\ cpuinfo \in {<<>>} \union {<<r>> : r \in Readings} \union (Readings \X Readings)
  /\ result = Zero
  /\ overheads = {} /\ steps = 0

----------------------------------------------------------------------------
(* sample_get_cpu_mhz                                                      *)

StartMeasurement ==
  /\ phase = "start"
  /\ phase' = "poll"
  /\ wall' = 0
  /\ \E o \in Overheads : cycles' = o /\ overheads' = overheads \union {o}
  /\ UNCHANGED <<x, y, cpuinfo, result, steps>>

\* Mutant: the measurement is over when the clock shows exactly the time.
EndsExactly(t) == t = UsecStart + Len(x) * UsecStep

\* The loop on gettimeofday ends.
LongEnough(t) == t >= UsecStart + Len(x) * UsecStep

\* One call of gettimeofday, d microseconds after the one before.
Poll(d) ==
  /\ phase = "poll"
  /\ wall < MaxWall
  /\ cycles' = cycles + Mhz * d
  /\ wall' = wall + d
  /\ IF LongEnough(wall + d)
     THEN /\ x' = Append(x, wall + d)
          /\ y' = Append(y, cycles')
          /\ phase' = IF Len(x') = Measurements THEN "regress" ELSE "start"
     ELSE UNCHANGED <<x, y, phase>>
  /\ UNCHANGED <<cpuinfo, result, overheads, steps>>

\* Somebody sets the wall clock, forth or back.
AdjustClock ==
  /\ phase = "poll"
  /\ steps < MaxSteps
  /\ \E s \in {-UsecStart, UsecStart} : wall' = wall + s
  /\ steps' = steps + 1
  /\ UNCHANGED <<phase, x, y, cycles, cpuinfo, result, overheads>>

\* A loop that adds f up.
Total(f) ==
  LET sum[n \in 0 .. Measurements] == IF n = 0 THEN 0 ELSE sum[n - 1] + f[n]
  IN  sum[Measurements]

Products(f, g) == [k \in 1 .. Measurements |-> f[k] * g[k]]

\* Mutant: a line through the origin.
ThroughOrigin(f, g) == Total(Products(f, g))

\* MEASUREMENTS * sfg - sf * sg
Covariance(f, g) == Measurements * Total(Products(f, g)) - Total(f) * Total(g)

\* The slope, unless r^2 < 0.9, a comparison that is false of NaN.
Sample ==
  LET xx == Covariance(x, x)
      xy == Covariance(x, y)
      yy == Covariance(y, y)
  IN  IF xx = 0 THEN NaN
      ELSE IF yy # 0 /\ 10 * xy * xy < 9 * xx * yy THEN Zero
      ELSE <<xy, xx>>

----------------------------------------------------------------------------
(* proc_get_cpu_mhz and get_cpu_mhz                                        *)

\* The first frequency that is not zero, 0 if there is none; others that
\* differ from it are only reported.
Proc ==
  LET found == {i \in 1 .. Len(cpuinfo) : cpuinfo[i] # 0}
  IN  IF found = {} THEN 0 ELSE cpuinfo[Min(found)]

\* Both agree to 2 percent.  Denominators are positive.
Agree(proc, sample) ==
  LET d == proc * sample[2] - sample[1]
  IN  50 * (IF d > 0 THEN d ELSE -d) <= proc * sample[2]

\* Zero is false in C and NaN is not; no comparison with NaN is true.
Combined(proc, sample) ==
  IF proc = 0 \/ (sample[1] = 0 /\ sample # NaN) THEN Zero
  ELSE IF sample = NaN \/ Agree(proc, sample) THEN <<proc, 1>>
  ELSE sample

GetCpuMhz ==
  /\ phase = "regress"
  /\ phase' = "done"
  /\ result' = Combined(Proc, Sample)
  /\ UNCHANGED <<x, y, wall, cycles, cpuinfo, overheads, steps>>

\* gettimeofday fails: sample_get_cpu_mhz returns 0, and so does get_cpu_mhz.
GettimeofdayFails ==
  /\ phase \in {"start", "poll"}
  /\ phase' = "done"
  /\ result' = Combined(Proc, Zero)
  /\ UNCHANGED <<x, y, wall, cycles, cpuinfo, overheads, steps>>

Step == StartMeasurement \/ (\E d \in 1 .. MaxDelay : Poll(d)) \/ GetCpuMhz

Next == Step \/ AdjustClock \/ GettimeofdayFails

\* The program runs; the clock does not have to be adjusted.
Spec == Init /\ [][Next]_vars /\ WF_vars(Step)

----------------------------------------------------------------------------
(* Properties.                                                             *)

\* A constant overhead of the calls cancels out, however much the polls
\* overshoot: the regression gives the rate of the counter, and get_cpu_mhz
\* that or, if it is within 2 percent, what the first processor shows.  Only
\* when all measurements came out equally long does it trust cpuinfo alone.
OverheadCancels ==
  phase = "done" /\ Len(x) = Measurements /\ steps = 0 /\ Cardinality(overheads) = 1 =>
    \/ Proc = 0 /\ result = Zero
    \/ result = <<Proc, 1>> /\ (Agree(Proc, <<Mhz, 1>>) \/ \A k \in 1 .. Measurements : x[k] = x[1])
    \/ result[1] = Mhz * result[2] /\ ~Agree(Proc, <<Mhz, 1>>)

\* get_cpu_mhz returns although the wall clock may be set back while it
\* measures, and polls do not hit the end of a measurement.
Returns == <>(phase = "done")
=============================================================================
