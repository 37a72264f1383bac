--------------------------- MODULE RetransLimiter ---------------------------
(***************************************************************************)
(* RetransRateLimiter of src/core/history.rs as operators on a value: the  *)
(* byte budget retransmissions may use in one window.  Instants are kept   *)
(* as ages, so age is the time since window_start, and Unset stands for    *)
(* a window that has not begun.                                            *)
(***************************************************************************)
EXTENDS Integers

CONSTANTS
  Window,   \* length of a window, 500 ms in the code
  Scale     \* bits per second times ticks that make one byte

ASSUME WindowAssumption == Window \in Nat \ {0} /\ Scale \in Nat \ {0}

Unset == -1

Limiter == [budget : Nat, used : Nat, age : (0..Window) \union {Unset}]

(* bytes_for_rate, and the same division in from_target_bps. *)
BytesFor(rate, ticks) == (rate * ticks) \div Scale

FromTarget(target) ==
  [budget |-> IF BytesFor(target, Window) > 1 THEN BytesFor(target, Window) ELSE 1,
   used   |-> 0,
   age    |-> Unset]

(* A window starts at the first use, and again at the first use after it    *)
(* has run out.                                                             *)
Roll(lim) ==
  IF lim.age = Unset \/ lim.age >= Window
  THEN [budget |-> lim.budget, used |-> 0, age |-> 0] ELSE lim

(* Variant: each packet is compared with the whole budget. *)
FitsAlone(lim, bytes) == bytes <= lim.budget

Fits(lim, bytes) == Roll(lim).used + bytes <= lim.budget

(* try_consume: the window rolls even when the bytes do not fit. *)
Consume(lim, bytes) ==
  IF Fits(lim, bytes) THEN [Roll(lim) EXCEPT !.used = @ + bytes] ELSE Roll(lim)

(* One tick of time; older than one window is all the same. *)
Older(lim) ==
  IF lim.age = Unset \/ lim.age >= Window THEN lim ELSE [lim EXCEPT !.age = @ + 1]
=============================================================================
