------------------------------- MODULE MCTimer -------------------------------
(* An instance of Timer with a few timers of every kind.                    *)
EXTENDS Timer
=============================================================================
