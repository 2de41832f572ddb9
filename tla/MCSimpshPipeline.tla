-------------------------- MODULE MCSimpshPipeline --------------------------
(***************************************************************************)
(* Pipelines of three commands: filters only, a source or an endless       *)
(* writer in front, and a command in the middle or at the end that stops   *)
(* reading or never reads.  An endless writer has one of those behind it.  *)
(***************************************************************************)
EXTENDS SimpshPipeline

Commands(a, b, c) == [i \in Stage |-> <<a, b, c>>[i + 1]]

MCPrograms ==
    {Commands("filter", "filter", "filter"), Commands("source", "filter", "head"),
     Commands("yes", "filter", "head"), Commands("yes", "source", "filter"),
     Commands("filter", "head", "filter")}
=============================================================================
