---------------------------- MODULE RateControl ----------------------------
(***************************************************************************)
(* What an arrival report does to the rates of an engine: the bandwidth    *)
(* estimator of src/core/bwe.rs, Path::on_arrival_feedback and             *)
(* consider_probe, and the shares Engine::push_packet hands to the local   *)
(* tracks.  Rates are whole kilobits per second, loss is in thousandths    *)
(* and time in milliseconds; the code filters in floating point.  A report *)
(* is what its datagrams add up to, and the trend its group delays make of *)
(* the network state: the inter-arrival and trendline filters only choose  *)
(* that state and are left to chance.                                      *)
(***************************************************************************)
EXTENDS Integers, FiniteSets, Functions

CONSTANTS
  StartRate, MinRate, MaxRate,
  PacingFactor,       \* pacing_factor, in thousandths
  Rtts,               \* round trips the path has stored when a report comes
  Samples,            \* acknowledged rates a report can amount to
  Losses,             \* shares of its datagrams a report can call lost
  ProbeInterval, AlrProbeInterval,
  VideoTracks, AudioTracks,
  TimeSteps,          \* amounts by which time passes
  MaxReports,         \* bound
  MaxTime             \* bound: milliseconds

RateAssumption ==
  /\ {MinRate, StartRate, MaxRate} \subseteq Nat \ {0}
  /\ MinRate <= StartRate /\ StartRate <= MaxRate
  /\ PacingFactor \in Nat /\ PacingFactor >= 1000
  /\ MinRate >= 16    \* no less than the floor of the audio budget; 30 in the code
  /\ Samples \subseteq Nat \ {0} /\ Losses \subseteq 0..999
  /\ TimeSteps \subseteq Nat /\ Rtts \subseteq Nat
  /\ IsFiniteSet(VideoTracks \union AudioTracks) /\ VideoTracks \intersect AudioTracks = {}

VARIABLES
  target, acked, loss, network, lastIncrease, lastDecrease,
  probes,         \* ProbeController, and startup_probes_pending
  pacing, lastProbe,
  rates,          \* what each local track was told, 0 before
  reported,       \* number of reports
  now

estimator == <<target, acked, loss, network, lastIncrease, lastDecrease>>
vars == <<estimator, probes, pacing, lastProbe, rates, reported, now>>

Never == -1
Tracks == VideoTracks \union AudioTracks
Smaller(a, b) == IF a < b THEN a ELSE b
Larger(a, b) == IF a > b THEN a ELSE b
Clamp(rate, low, high) == Smaller(Larger(rate, low), high)

Bounded(rate) == Clamp(rate, MinRate, MaxRate)
Since(at, default) == IF at = Never THEN default ELSE now - at

Init ==
  /\ target = StartRate /\ acked = StartRate /\ loss = 0 /\ network = "Normal"
  /\ lastIncrease = Never /\ lastDecrease = Never
  /\ probes = [startup |-> TRUE, nextId |-> 1, lastAlr |-> Never]
  /\ pacing = (StartRate * PacingFactor) \div 1000 /\ lastProbe = Never
  /\ rates = [t \in {} |-> 0]
  /\ reported = 0 /\ now = 0

(* A report without received datagrams has no sample and moves no trend;    *)
(* one that matches nothing on record has no share either, and goes through *)
(* the rest of the estimator all the same.                                  *)
Trends == {"Normal", "Overusing", "Underusing"}
Reports ==
  [share : Losses, sample : Samples, trend : Trends]
    \union [share : {1000, Never}, sample : {0}, trend : {network}]

AckedAfter(r) == IF r.sample = 0 THEN acked ELSE (85 * acked + 15 * r.sample) \div 100
LossAfter(r) == IF r.share = Never THEN loss ELSE (9 * loss + r.share) \div 10

(* "Overuse must not raise the estimate (inflated acked windows)." *)
Decreased(current, ackedRate) ==
  Bounded(Smaller(Larger((85 * ackedRate) \div 100 - 5, 0), current))

(* 1.08^s for s below one second is a line to within a thousandth. *)
Grown(current, dt) ==
  Larger((current * (100000 + 8 * Clamp(dt, 0, 1000))) \div 100000, current + 1)

Increased(current, ackedRate, dt) ==
  Bounded(Smaller(Grown(current, dt), (3 * ackedRate) \div 2 + 10))

MayIncrease == Since(lastIncrease, 1000) >= 200

(* apply_aimd *)
AimdTarget(state, ackedRate) ==
  CASE state = "Overusing" -> Decreased(target, ackedRate)
    [] state = "Normal" /\ MayIncrease -> Increased(target, ackedRate, Since(lastIncrease, 1000))
    [] OTHER -> target

(* apply_loss_rules: a report in three hundred milliseconds and a round     *)
(* trip, when more than a tenth is lost.                                    *)
LossCuts(lossRate, rtt) == lossRate > 100 /\ Since(lastDecrease, 300 + rtt) >= 300 + rtt

AfterLoss(rate, lossRate) == Larger((rate * (2000 - lossRate)) \div 2000, 1)

Paced(rate) == Larger((rate * PacingFactor + 500) \div 1000, rate)

(* Variant: the floor of the budget is per track. *)
AudioBudgetEach(rate, count) == Clamp(rate \div 10, 16 * count, 64 * count)

AudioBudget(rate, count) == Clamp(rate \div 10, 16, 64 * count)

(* The shares of the tracks the engine has. *)
Share(rate, t, tracks) ==
  LET audio == Cardinality(tracks \intersect AudioTracks)
      budget == IF audio = 0 THEN 0 ELSE AudioBudget(rate, audio)
      video == Larger(Cardinality(tracks \intersect VideoTracks), 1)
  IN IF t \in AudioTracks THEN budget \div audio ELSE Larger(rate - budget, 0) \div video

Moves(rate) == rate # target

(* push_packet of an arrival report.  A target that does not move returns   *)
(* early: neither the pacer nor an encoder hears of the report.             *)
OnReport ==
  \E r \in Reports, rtt \in Rtts :
    LET aimd == AimdTarget(r.trend, AckedAfter(r))
        cuts == LossCuts(LossAfter(r), rtt)
        rate == Bounded(IF cuts THEN AfterLoss(aimd, LossAfter(r)) ELSE aimd)
    IN
    /\ reported < MaxReports
    /\ reported' = reported + 1
    /\ acked' = AckedAfter(r) /\ loss' = LossAfter(r) /\ network' = r.trend
    /\ lastIncrease' = IF network' = "Normal" /\ MayIncrease THEN now ELSE lastIncrease
    /\ lastDecrease' = IF cuts THEN now ELSE lastDecrease
    /\ target' = rate
    /\ pacing' = IF Moves(rate) THEN Paced(rate) ELSE pacing
    /\ rates' = IF Moves(rate)
                THEN [t \in DOMAIN rates |-> Share(rate, t, DOMAIN rates)] ELSE rates
    /\ UNCHANGED <<probes, lastProbe, now>>

(* poll_probes: the clusters it names are numbered and dropped. *)
ProbesAfter(idle) ==
  LET alr == idle /\ Since(probes.lastAlr, AlrProbeInterval) >= AlrProbeInterval
  IN [startup |-> FALSE,
      nextId |-> probes.nextId + (IF probes.startup THEN 2 ELSE 0) + (IF alr THEN 1 ELSE 0),
      lastAlr |-> IF alr THEN now ELSE probes.lastAlr]

(* With an empty queue the pacer is raised, and stays raised until a report *)
(* moves the target.                                                        *)
ProbePacing(idle) == IF idle THEN Larger(2 * target, pacing) ELSE pacing

(* consider_probe, in the finish of any entry of the engine. *)
ConsiderProbe ==
  \E idle \in BOOLEAN :
    /\ DOMAIN rates # {}
    /\ Since(lastProbe, ProbeInterval) >= ProbeInterval
    /\ lastProbe' = now
    /\ probes' = ProbesAfter(idle)
    /\ pacing' = ProbePacing(idle)
    /\ UNCHANGED <<estimator, rates, reported, now>>

(* add_local_track and remove_track: nobody is told a new share. *)
AddTrack ==
  \E t \in Tracks \ DOMAIN rates :
    /\ rates' = [u \in DOMAIN rates \union {t} |-> IF u = t THEN 0 ELSE rates[u]]
    /\ UNCHANGED <<estimator, probes, pacing, lastProbe, reported, now>>

RemoveTrack ==
  \E t \in DOMAIN rates :
    /\ rates' = Restrict(rates, DOMAIN rates \ {t})
    /\ UNCHANGED <<estimator, probes, pacing, lastProbe, reported, now>>

Pass ==
  \E step \in TimeSteps :
    /\ now + step <= MaxTime
    /\ now' = now + step
    /\ UNCHANGED <<estimator, probes, pacing, lastProbe, rates, reported>>

Next == OnReport \/ ConsiderProbe \/ AddTrack \/ RemoveTrack \/ Pass

Spec == Init /\ [][Next]_vars

---------------------------------------------------------------------------
TypeOK ==
  /\ target \in MinRate..MaxRate
  /\ acked \in Nat /\ loss \in 0..1000
  /\ network \in Trends
  /\ lastIncrease \in -1..now /\ lastDecrease \in -1..now /\ lastProbe \in -1..now
  /\ DOMAIN rates \subseteq Tracks

(* The encoders together are never told more than the connection's target,  *)
(* whatever tracks came and went since, at the floor of the audio budget    *)
(* and at the floor of the target alike; and the pacer is never slower than *)
(* that target: probes, loss and reports that change nothing must not leave *)
(* it behind.                                                               *)
RatesOrdered ==
  SumFunction(rates) <= target /\ target <= pacing
============================================================================
