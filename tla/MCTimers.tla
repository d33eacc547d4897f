------------------------------ MODULE MCTimers -----------------------------
(* Timers with settings that make every stage tick, and with both timers.  *)
EXTENDS Timers

MCSettings == {<<7200, 0>>, <<3662, 0>>, <<1, 0>>, <<0, 4>>, <<4, 2>>}
=============================================================================
