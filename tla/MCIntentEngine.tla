-------------------------- MODULE MCIntentEngine --------------------------
(* Messages of three bytes: a plain one, and one with a character of two.   *)
EXTENDS IntentEngine

MCTexts ==
    {[size |-> 3, bounds |-> 0 .. 3],
     [size |-> 3, bounds |-> {0, 2, 3}]}

(* Dates tie with times in confidence, come later, and have priority;       *)
(* addresses overlap one another.  The second engine has the other kinds.   *)
(* The third is the first without dates, which can panic on any message.    *)
MCEngines ==
    {<<"time", "date", "email", "url">>, <<"location", "phone", "person">>, <<"time", "email", "url">>}

MCUrlAlone == {<<"url">>}
=============================================================================
