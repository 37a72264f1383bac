---------------------------- MODULE RetransBudget ----------------------------
(***************************************************************************)
(* The retransmission budget over time: NACKed packets ask the limiter of  *)
(* src/core/history.rs, and arrival reports that move the bandwidth target *)
(* install a new limiter (src/engine/path.rs).                             *)
(***************************************************************************)
EXTENDS RetransLimiter

CONSTANTS
  Targets,    \* bandwidth targets the estimator may choose
  Sizes       \* sizes of retransmitted packets

BudgetAssumption ==
  /\ {Window, Scale} \subseteq Nat \ {0}
  /\ Targets \subseteq Nat /\ Sizes \subseteq Nat

VARIABLES
  limiter,
  spent,      \* history: bytes let through in this tick and the k before it
  moved       \* history: whether the target moved in the tick k before this one

vars == <<limiter, spent, moved>>

Ticks == 0..(Window - 1)

Init ==
  /\ \E target \in Targets : limiter = FromTarget(target)
  /\ spent = [k \in Ticks |-> 0]
  /\ moved = [k \in Ticks |-> FALSE]

(* get_retransmission asks for one packet. *)
Retransmit ==
  \E size \in Sizes :
    /\ limiter' = Consume(limiter, size)
    /\ spent' = IF Fits(limiter, size) THEN [k \in Ticks |-> spent[k] + size] ELSE spent
    /\ UNCHANGED moved

(* on_arrival_feedback with a target that moved. *)
Retarget ==
  \E target \in Targets :
    /\ FromTarget(target).budget # limiter.budget
    /\ ~moved[0]    \* bound: the target moves once in a tick
    /\ limiter' = FromTarget(target)
    /\ moved' = [moved EXCEPT ![0] = TRUE]
    /\ UNCHANGED spent

Pass ==
  /\ limiter' = Older(limiter)
  /\ spent'   = [k \in Ticks |-> IF k = 0 THEN 0 ELSE spent[k - 1]]
  /\ moved'   = [k \in Ticks |-> IF k = 0 THEN FALSE ELSE moved[k - 1]]

Next == Retransmit \/ Retarget \/ Pass

Spec == Init /\ [][Next]_vars

---------------------------------------------------------------------------
SpentInWindow == spent[Window - 1]
Steady == \A k \in Ticks : ~moved[k]

TypeOK ==
  /\ limiter \in Limiter /\ limiter.used <= limiter.budget
  /\ spent \in [Ticks -> Nat]
  /\ moved \in [Ticks -> BOOLEAN]

(* What the code guarantees under a steady target: any Window ticks touch   *)
(* at most two windows of the limiter, so retransmissions never take more   *)
(* than twice the budget in them.                                           *)
AtMostTwoBudgets == Steady => SpentInWindow <= 2 * limiter.budget
=============================================================================
