---------------------------- MODULE MCInterrupts ----------------------------
(* The constants of the run of Interrupts that a configuration cannot write. *)
EXTENDS Interrupts

Order == <<"17", "16">>
Parts == {{"bus"}, {"clock"}, {"timer"}}
=============================================================================
