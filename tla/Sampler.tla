------------------------------- MODULE Sampler -------------------------------
(***************************************************************************)
(* The network panel: network_sampler (metrics.py) stores the container's  *)
(* cumulative byte counter, and prunes old rows now and then; _network     *)
(* (dashboard/app.py) turns neighbouring rows into rates.  The counter     *)
(* starts again with the container, the rows stay.  One of the four        *)
(* counters is followed; they do not differ.                               *)
(***************************************************************************)
EXTENDS Integers, Sequences, FiniteSets

CONSTANTS PruneAfter,    \* 300 seconds, in the unit of time
          Interval,      \* NET_SAMPLE_INTERVAL
          Retention,     \* NET_METRICS_RETENTION_HOURS
          Shown,         \* the dashboard's LIMIT
          MaxNow, MaxBytes, MaxSamples, MaxLives    \* bounds

ASSUME SamplerAssumption ==
  /\ {PruneAfter, Retention, Shown, MaxNow, MaxBytes, MaxSamples, MaxLives} \subseteq Nat
  /\ Interval \in Nat \ {0}    \* zero divides by zero before the loop

VARIABLES now,
          counter, bytes,    \* since the container started, and in all
          tick,              \* samples stored in this life of the process
          samples,           \* metrics_net, in order: time, counter, and all bytes so far
          lives
samplerVars == <<now, counter, bytes, tick, samples, lives>>

PruneEvery == IF PruneAfter < Interval THEN 1 ELSE PruneAfter \div Interval

SamplerInit ==
  /\ now = 0 /\ counter = 0 /\ bytes = 0 /\ tick = 0 /\ samples = <<>> /\ lives = 1

\* Mutant of Traffic: the loopback's bytes are read along (metrics.py:157).
TrafficWithLoopback ==
  /\ bytes < MaxBytes /\ bytes' = bytes + 1 /\ counter' = counter + 2
  /\ UNCHANGED <<now, tick, samples, lives>>

Traffic ==
  /\ bytes < MaxBytes /\ bytes' = bytes + 1 /\ counter' = counter + 1
  /\ UNCHANGED <<now, tick, samples, lives>>

Passes ==
  /\ now < MaxNow /\ now' = now + 1
  /\ UNCHANGED <<counter, bytes, tick, samples, lives>>

\* The container starts again.
NewLife ==
  /\ lives < MaxLives /\ lives' = lives + 1
  /\ counter' = 0 /\ tick' = 0
  /\ UNCHANGED <<now, bytes, samples>>

\* The rows are in the order of their times, so the old ones come first.
Old(rows) == {i \in DOMAIN rows : rows[i].at < now - Retention}
Recent(rows) == SubSeq(rows, 1 + Cardinality(Old(rows)), Len(rows))

\* A round of the loop; one whose insert fails changes nothing.  The insert is
\* committed by itself: the deletion after it may fail alone.
Round ==
  LET rows == Append(samples, [at |-> now, counter |-> counter, bytes |-> bytes])
  IN  /\ tick < MaxSamples /\ tick' = tick + 1
      /\ \/ samples' = rows
         \/ tick' % PruneEvery = 0 /\ samples' = Recent(rows)
      /\ UNCHANGED <<now, counter, bytes, lives>>

SamplerRest == now = MaxNow /\ UNCHANGED samplerVars

SamplerNext == Traffic \/ Passes \/ NewLife \/ Round \/ SamplerRest
SamplerSpec == SamplerInit /\ [][SamplerNext]_samplerVars

-----------------------------------------------------------------------------
\* The dashboard.

\* Mutant of Grown: a counter that went down is taken as it comes.
GrownEitherWay(a, b) == IF b >= a THEN b - a ELSE a - b

\* What a rate is computed from: a counter that went down counts as nothing.
Grown(a, b) == IF b >= a THEN b - a ELSE 0

Window == SubSeq(samples, 1 + (IF Len(samples) > Shown THEN Len(samples) - Shown ELSE 0),
                 Len(samples))

\* The neighbours that give a rate.
Neighbours == {i \in 1..(Len(Window) - 1) : Window[i + 1].at > Window[i].at}

-----------------------------------------------------------------------------
\* Properties.

(***************************************************************************)
(* The panel never shows more traffic between two samples than there was,  *)
(* although the container may have been started again in between, any      *)
(* number of times.                                                        *)
(***************************************************************************)
RatesNeverOverstate ==
  \A i \in Neighbours :
    Grown(Window[i].counter, Window[i + 1].counter) <= Window[i + 1].bytes - Window[i].bytes

-----------------------------------------------------------------------------
(***************************************************************************)
(* The inductive invariant.  Rows are in the order of their times, and     *)
(* from one to the next the bytes only grow, those that were counted in    *)
(* earlier lives too.                                                      *)
(***************************************************************************)
Sample == [at : Nat, counter : Nat, bytes : Nat]

SamplerTypeOK ==
  /\ {now, counter, bytes, tick, lives} \subseteq Nat
  /\ samples \in Seq(Sample)

NotAfter(s, t) ==
  s.at <= t.at /\ s.bytes <= t.bytes /\ s.bytes - s.counter <= t.bytes - t.counter

SamplesGrow ==
  /\ \A i, j \in DOMAIN samples : i <= j => NotAfter(samples[i], samples[j])
  /\ \A i \in DOMAIN samples :
       NotAfter(samples[i], [at |-> now, counter |-> counter, bytes |-> bytes])

\* All of it: what every sample, pruning and restart keeps.
SamplerInv == SamplerTypeOK /\ SamplesGrow
=============================================================================
