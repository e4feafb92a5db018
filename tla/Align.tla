------------------------------- MODULE Align --------------------------------
(***************************************************************************)
(* Rounding to a multiple of an alignment, as the macros of                *)
(* inc/dragonstub/linux/math.h and align.h do it.                          *)
(***************************************************************************)
EXTENDS Integers

RoundDown(x, a) == (x \div a) * a

RoundUp(x, a) == RoundDown(x + (a - 1), a)

DivRoundUp(x, a) == (x + (a - 1)) \div a
=============================================================================
