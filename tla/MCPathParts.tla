---------------------------- MODULE MCPathParts ----------------------------
(***************************************************************************)
(* The three parts of a Path that have modules of their own, one at a      *)
(* time: they share no variable, so nothing is lost by leaving the others  *)
(* where they start.                                                       *)
(***************************************************************************)
EXTENDS Integers, Sequences, TLC

CONSTANTS
  MaskBits, Interval, Retention, SeqSpace, FirstSeq, MaxSent, LastTick,
  StartRate, MinRate, MaxRate, PacingFactor, Rtts, Samples, Losses,
  ProbeInterval, AlrProbeInterval, VideoTracks, AudioTracks, TimeSteps,
  MaxReports, MaxTime,
  WindowLength, Scale, Targets, Sizes

VARIABLES
  part,
  sent, history, acked, result, wire, dropped, pending, nextBase, lastEmit,
  reports, arrived, clock,
  target, ackedRate, loss, network, lastIncrease, lastDecrease, probes,
  pacing, lastProbe, rates, reported, now,
  limiter, spent, moved

Feedback == INSTANCE ArrivalFeedback WITH MaxTime <- LastTick, now <- clock
Rate     == INSTANCE RateControl WITH acked <- ackedRate
Retrans  == INSTANCE RetransBudget WITH Window <- WindowLength

ASSUME PartsAssumption ==
  Feedback!FeedbackAssumption /\ Rate!RateAssumption /\ Retrans!BudgetAssumption

feedbackVars ==
  <<sent, history, acked, result, wire, dropped, pending, nextBase, lastEmit,
    reports, arrived, clock>>
rateVars ==
  <<target, ackedRate, loss, network, lastIncrease, lastDecrease, probes,
    pacing, lastProbe, rates, reported, now>>
retransVars == <<limiter, spent, moved>>
vars == <<part, feedbackVars, rateVars, retransVars>>

OnlyFeedback == part = "feedback" /\ UNCHANGED <<part, rateVars, retransVars>>
OnlyRate     == part = "rate" /\ UNCHANGED <<part, feedbackVars, retransVars>>
OnlyRetrans  == part = "retrans" /\ UNCHANGED <<part, feedbackVars, rateVars>>

(* A limiter that is not the part under check starts with one target. *)
Init ==
  /\ part \in {"feedback", "rate", "retrans"}
  /\ Feedback!Init /\ Rate!Init /\ Retrans!Init
  /\ part # "retrans" => \A t \in Targets : limiter.budget <= Retrans!FromTarget(t).budget

Next ==
  \/ OnlyFeedback /\ Feedback!Send
  \/ OnlyFeedback /\ Feedback!Lose
  \/ OnlyFeedback /\ Feedback!Arrive
  \/ OnlyFeedback /\ Feedback!Tick
  \/ OnlyFeedback /\ Feedback!OnReport
  \/ OnlyFeedback /\ Feedback!Pass
  \/ OnlyRate /\ Rate!OnReport
  \/ OnlyRate /\ Rate!ConsiderProbe
  \/ OnlyRate /\ Rate!AddTrack
  \/ OnlyRate /\ Rate!RemoveTrack
  \/ OnlyRate /\ Rate!Pass
  \/ OnlyRetrans /\ Retrans!Retransmit
  \/ OnlyRetrans /\ Retrans!Retarget
  \/ OnlyRetrans /\ Retrans!Pass

Spec == Init /\ [][Next]_vars

(* Audio tracks differ in nothing but their name. *)
AudioAlike == Permutations(AudioTracks)

---------------------------------------------------------------------------
(* Each part keeps its state typed: nothing is acknowledged that is not on  *)
(* record, the target stays within its limits, and no more is retransmitted *)
(* than the budget of a window.                                             *)
PathTypeOK == Feedback!TypeOK /\ Rate!TypeOK /\ Retrans!TypeOK

(* An arrival waits, is in a report or is too old to matter. *)
ArrivalAccounted == Feedback!ArrivalAccounted

(* A round trip is never shorter than the way there. *)
RoundTripReal == Feedback!RoundTripReal

(* The encoders keep to the target, and the pacer keeps up with it. *)
RatesOrdered == Rate!RatesOrdered

(* Under a steady target a window length carries at most two budgets of     *)
(* retransmissions.                                                         *)
AtMostTwoBudgets == Retrans!AtMostTwoBudgets
============================================================================
