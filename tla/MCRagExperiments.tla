-------------------------- MODULE MCRagExperiments --------------------------
(* The experiments on their own, with two questions and one.                 *)
EXTENDS RagExperiments

MCScripts == << <<1, 2>>, <<1>> >>
=============================================================================
