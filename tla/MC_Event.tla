------------------------------- MODULE MC_Event -------------------------------
(* Requests of up to three events over two ordinary events and one too    *)
(* large for analysisd, so that repeated events and all outcomes mix.     *)
EXTENDS Event

CONSTANTS e1, e2, big

MCEvent == {e1, e2, big}
MCLarge == {big}
=============================================================================
