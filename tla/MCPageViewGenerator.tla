------------------------ MODULE MCPageViewGenerator -------------------------
(* An instance of PageViewGenerator for TLC.                               *)
EXTENDS PageViewGenerator

Control(m, r) == [mode |-> m, rps |-> r]

\* Every change of mode, a string that is no mode, rates that are absent, in
\* range and above the limit, and both in one request.
MCControls ==
    {Control("regular", 0), Control("burst", 0), Control("night", 0), Control("other", 0),
     Control("", 2), Control("regular", 2000)}
=============================================================================
