-------------------------- MODULE MCResourceManager -------------------------
(* Instances of ResourceManager for TLC.                                   *)
EXTENDS ResourceManager

\* Requests for up to three LDs of up to two blocks.
MCRequests == UNION {[1 .. n -> 0 .. 2] : n \in 0 .. MaxLd}

\* Two LDs, of up to three units.
MCTwoRequests == UNION {[1 .. n -> 0 .. 3] : n \in 0 .. 2}

\* Few requests, among them one that takes all of the memory.
MCFullRequests == {<< >>, <<1>>, <<0, 2>>, <<0, 2, 2>>, <<0, 2, 0, 1>>, <<0, 2, 0, 3>>, <<0, 2, 2, 1>>}
=============================================================================
