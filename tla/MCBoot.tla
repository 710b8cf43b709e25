------------------------------- MODULE MCBoot -------------------------------
(* An instance of Boot for TLC: a board of a few bytes. *)
EXTENDS Boot

MCMessage == <<"h", "i", "\n">>

\* All bytes nonzero, none, or every third.
MCPowerOn == {Ram, {}, {a \in Ram : a % 3 = 0}}
=============================================================================
