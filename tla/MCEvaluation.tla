---------------------------- MODULE MCEvaluation ----------------------------
(***************************************************************************)
(* Instances of Evaluation for TLC: samples in tenths of a unit, two pods  *)
(* of the Deployment web, of which one comes and goes, one of web-admin,   *)
(* which the regex matches too, and two of other names.                    *)
(***************************************************************************)
EXTENDS Evaluation, TLC

CONSTANTS cpu, memory, web1, web2, admin, api, batch

Default == [percentile |-> 0, headroom |-> 15, multiplier |-> 20,
            min |-> Unset, max |-> Unset]
Median == [percentile |-> 50, headroom |-> 0, multiplier |-> 15, min |-> Unset, max |-> Unset]
Bounded == [Median EXCEPT !.min = 5, !.max = 6]
Crossed == [Default EXCEPT !.min = 8, !.max = 6]

PolicyOf(c, m, days, number) ==
    [thresholds |-> cpu :> c @@ memory :> m, percent |-> 10, minSamples |-> 2,
     window |-> [days |-> days, number |-> number]]

\* A window of a day is two steps long here.
AllSpecs == {PolicyOf(Default, Bounded, TRUE, 1), PolicyOf(Crossed, Median, FALSE, 1)}
DefaultSpec == {PolicyOf(Default, Default, TRUE, 1)}

MCPoints == web1 :> {3, 60} @@ web2 :> {3, NaN} @@ admin :> {60} @@ api :> {3} @@ batch :> {3}
QuietPoints == [MCPoints EXCEPT ![admin] = {4}]
=============================================================================
