------------------------------- MODULE MCParts -------------------------------
(* What the model-checking modules of independent parts share: the names of  *)
(* processes, and the variables that more than one component declares.       *)
EXTENDS Naturals, Sequences, TLC

CONSTANTS p1, p2, s1, s2, s3, None

VARIABLES part,  \* which component this behaviour is about
  setup, log, now, req, cache, history, stream, poll, fence, shown

partVars == <<part, setup, log, now, req, cache, history, stream, poll, fence, shown>>

Symmetry == Permutations({p1, p2}) \cup Permutations({s1, s2, s3})
=============================================================================
