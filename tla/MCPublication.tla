--------------------------- MODULE MCPublication ---------------------------
(* Instances of Publication: the first generation has a companion the      *)
(* second lacks and the other way round.                                   *)
EXTENDS Publication, TLC

CONSTANTS ga, gb, gc, xa, xb, xc

MCFiles == [g \in Generations |->
              CASE g = ga -> {xa, xb} [] g = gb -> {xa, xc} [] g = gc -> {xa}]

Symmetric == Permutations(Processes)
============================================================================
