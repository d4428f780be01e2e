---------------------------- MODULE Negotiation ----------------------------
(***************************************************************************)
(* The choice of a stream format for an input device (wasapi.rs,           *)
(* open_device; diagnose_negotiation repeats it for the window's preview). *)
(*                                                                         *)
(* A format is a record of rate, channels and bits; a configuration is     *)
(* what a device offers: a sample format, channels and a range of rates.   *)
(* A device is the sequence of its configurations, in its own order.       *)
(***************************************************************************)
EXTENDS Integers, Sequences

Formats == [rate : Nat, channels : Nat, bits : Nat]
Configs == [sample : {"i16", "f32"}, channels : Nat, low : Nat, high : Nat]

Bits(config) == IF config.sample = "f32" THEN 32 ELSE 16

\* Mutated form: a rate above the range counts as inside it.
DistanceBelowOnly(config, rate) ==
  IF rate < config.low THEN config.low - rate ELSE 0

\* How far the range of a configuration is from the rate asked for.
Distance(config, rate) ==
  IF rate < config.low THEN config.low - rate
  ELSE IF rate > config.high THEN rate - config.high
  ELSE 0

\* A matching bit depth is worth 1000 Hz; the subtraction saturates at 0.
Score(config, f) ==
  LET d == Distance(config, f.rate)
  IN IF Bits(config) # f.bits THEN d ELSE IF d < 1000 THEN 0 ELSE d - 1000

\* The places of the configurations with the channels asked for; if there is
\* none, all places.
Candidates(device, f) ==
  LET same == {i \in DOMAIN device : device[i].channels = f.channels}
  IN IF same # {} THEN same ELSE DOMAIN device

\* Candidate i comes before candidate j: its score is lower, or it comes first.
Before(device, f, i, j) ==
  \/ Score(device[i], f) < Score(device[j], f)
  \/ Score(device[i], f) = Score(device[j], f) /\ i <= j

Chosen(device, f) ==
  device[CHOOSE i \in Candidates(device, f) :
           \A j \in Candidates(device, f) : Before(device, f, i, j)]

Clamp(config, rate) ==
  IF rate < config.low THEN config.low
  ELSE IF rate > config.high THEN config.high ELSE rate

\* The stream that is built: the rate of the chosen configuration, but the
\* channels of the first configuration that has its sample format.
Stream(device, f) ==
  LET chosen == Chosen(device, f)
      same == {i \in DOMAIN device : device[i].sample = chosen.sample}
  IN [sample   |-> chosen.sample,
      rate     |-> Clamp(chosen, f.rate),
      channels |-> device[CHOOSE i \in same : \A j \in same : i <= j].channels]

\* What actual_format reports.
Actual(device, f) ==
  [rate |-> Clamp(Chosen(device, f), f.rate), channels |-> f.channels,
   bits |-> Bits(Chosen(device, f))]

\* Whether the device offers a stream (external: the sound system refuses any
\* other).
Offers(device, stream) ==
  \E i \in DOMAIN device :
    /\ device[i].sample = stream.sample
    /\ device[i].channels = stream.channels
    /\ stream.rate \in device[i].low .. device[i].high
=============================================================================
