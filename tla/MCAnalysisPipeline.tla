------------------------- MODULE MCAnalysisPipeline -------------------------
(* AnalysisPipeline for TLC: small sets of model values. *)
EXTENDS AnalysisPipeline, TLC

\* Every handler is the single thread of its own worker process.
WorkerPerHandler == [h \in CoreHandlers \cup EnrichmentHandlers |-> h]
HandlerIds == CoreHandlers \cup EnrichmentHandlers

HandlerSymmetry == Permutations(CoreHandlers) \cup Permutations(EnrichmentHandlers)
=============================================================================
