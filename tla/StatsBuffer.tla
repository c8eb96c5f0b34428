---------------------------- MODULE StatsBuffer ----------------------------
(***************************************************************************)
(* The ring buffer of samples that refreshContainer keeps per container.   *)
(* A sample is the number under which Docker took it, so that "older" is   *)
(* "<"; what a sample says is left out.  The empty sequence stands for an  *)
(* absent key: the service never stores an empty buffer.                   *)
(***************************************************************************)
EXTENDS Naturals, Sequences

CONSTANT MaxSamples

ASSUME MaxSamplesAssumption == MaxSamples \in Nat \ {0}

Absent == << >>

Sample == Nat \ {0}

Buffer == Seq(Sample)

\* Variant: the cut is forgotten.
ExtendUncut(samples, s) == Append(samples, s)

\* collector.go:228-231: append, then cut from the left to MaxSamples.
Extend(samples, s) ==
    LET all    == Append(samples, s)
        excess == IF Len(all) > MaxSamples THEN Len(all) - MaxSamples ELSE 0
    IN  [i \in 1 .. Len(all) - excess |-> all[i + excess]]

\* The number of the newest sample, which is the last; 0 when there is none.
Newest(samples) == IF samples = Absent THEN 0 ELSE samples[Len(samples)]

Ascending(samples) ==
    \A i, j \in 1 .. Len(samples) : i < j => samples[i] < samples[j]
============================================================================
