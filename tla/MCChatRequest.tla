---------------------------- MODULE MCChatRequest ----------------------------
(* Instances of ChatRequest for TLC.                                        *)
EXTENDS ChatRequest

\* Every model takes one unit of VRAM.
OneUnit == [m \in Models |-> 1]
===============================================================================
