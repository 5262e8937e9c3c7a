------------------------------- MODULE MCTracer -------------------------------
EXTENDS Tracer

\* A displacement like most, two that hold the mov pattern where a movzbl's
\* text has it, and two that hold the movzbl pattern where a mov's text has it.
MCDisplacements ==
  {<<"other", "other", "other", "other">>,
   <<"48", "8B", "05", "other">>, <<"48", "8B", "15", "other">>,
   <<"other", "0F", "B6", "00">>, <<"other", "0F", "B6", "12">>}
=============================================================================
