------------------------ MODULE MCStreamingToolExecutor ------------------------
(* StreamingToolExecutor for TLC. *)
EXTENDS StreamingToolExecutor

\* Safe calls in front of, behind and around exclusive ones, and calls of a
\* tool that does not exist beside both.
ResponsesOfThree ==
    { <<"listing", "listing", "edit">>,
      <<"listing", "edit", "listing">>,
      <<"edit", "listing", "edit">>,
      <<"edit", "edit", "listing">>,
      <<"listing", "unknown", "edit">>,
      <<"edit", "unknown", "listing">> }
=============================================================================
