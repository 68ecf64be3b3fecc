------------------------------ MODULE MCPipeline ------------------------------
(***************************************************************************)
(* Small instances of Pipeline for TLC.                                    *)
(***************************************************************************)
EXTENDS PipelineProperties, TLC

CONSTANTS r1, r2, r3, c1, c2, b1, b2

\* One recording and one cut of it.
FitsOne == c1 :> {b1}

\* Two recordings, the second too short for the second cut.
FitsShort == (c1 :> {b1, b2}) @@ (c2 :> {b1})

\* Slots are interchangeable.
Slots == Permutations(Runs)
===============================================================================
