---------------------------- MODULE MCFmMailbox -----------------------------
(* Instance of FmMailbox for TLC.                                          *)
EXTENDS FmMailbox

\* A few requests for two LDs, one for more than there is and than a bank maps.
MCFewRequests == {<< >>, <<0, 1>>, <<3>>}

\* Shrinks LDs, asks for more than there is, changes the granularity.
BoldFM == {"shrink", "exhaust", "granularity"}
=============================================================================
