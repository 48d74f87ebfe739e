---- MODULE MCPneumatics ----
(* Two steps of a pattern, one that inflates and is shorter at the lower      *)
(* level, and one that vents.                                               *)
EXTENDS PneumaticsProperties
MCPattern == << [bits |-> {"top", "bottom"}, len |-> <<1, 3>>],
                [bits |-> {"vent"},          len |-> <<1, 1>>] >>
====
