---------------------------- MODULE MCDataBlocks ----------------------------
(* Three days, two of them of two hours and the last in another month;      *)
(* directories of a month, a day, an hour, or a day and then its hours; a   *)
(* class that gets a field with a default, one that may be null, and one it *)
(* requires.                                                                *)
EXTENDS DataBlocks, TLC

AllHours == 0 .. 4
Year == {}
AllFormats ==
    {<<Year, {"month"}>>, <<Year, {"month"}, {"day"}>>,
     <<Year, {"month"}, {"day"}, {"hour"}>>, <<{"month", "day"}, {"hour"}>>}
HourlyFormat == {<<Year, {"month"}, {"day"}, {"hour"}>>}
AllVersions ==
    <<  <<[a |-> "required", b |-> "required"], [b |-> "required", c |-> "optional"]>>,
        <<[a |-> "required", b |-> "required", d |-> "default"],
          [b |-> "required", c |-> "optional", e |-> "optional", g |-> "required"]>>  >>
Symmetry == Permutations(Rows)
=============================================================================
