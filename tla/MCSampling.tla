----------------------------- MODULE MCSampling -----------------------------
(* The sampler and another probe on the timer's handler, and a return probe  *)
(* there as well; five symbols.                                              *)
EXTENDS Sampling
MCFunction == [p \in Probes |-> "timer"]
MCSymbols == <<10, 20, 30, 40, 50>>
=============================================================================
