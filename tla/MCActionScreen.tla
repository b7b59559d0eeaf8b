--------------------------- MODULE MCActionScreen ---------------------------
(***************************************************************************)
(* The builds, by what their headers declare. MCEngines: one that reports  *)
(* its switches, one that only has switches, one that reports none, here   *)
(* with one of its effects and its lock and without some of its pads and   *)
(* ModType.                                                                *)
(***************************************************************************)
EXTENDS ActionScreen

None == {}
Full == [c \in Ids |-> Span(c)]

Of(pads, live, reports, aux) ==
    [pads |-> pads, live |-> live, reports |-> reports, kept |-> Full, unset |-> None,
     dual |-> TRUE, aux |-> aux]

Reso   == Of(<<"play", "alt", "trig">>, {"Mode"}, {"Mode"}, TRUE)
Reverb == Of(<<>>, {"Route", "Mode"}, {"Route", "Mode"}, FALSE)
Bard   == Of(<<"play", "flux", "flux lock">>, {"Route", "Mode"}, None, TRUE)

\* granular reports neither LfoShape nor the two flags after Mode, and boots without a Mode.
Granular ==
    [Of(<<"play", "alt", "rec">>, {"Route", "LfoShape", "Mode"}, {"Route", "Mode"}, FALSE)
        EXCEPT !.unset = {"Mode"}]

\* mosc's Mode is Gate or Drone.
Mosc == [Of(<<"play", "alt", "trig">>, {"Route", "Mode"}, {"Route", "Mode"}, TRUE)
            EXCEPT !.kept = [Full EXCEPT !["Mode"] = 2]]

\* Without Granular, of which FirstVisitHarmless fails (see the README).
MCEngines == {Reso, Reverb, Bard, Mosc}
=============================================================================
