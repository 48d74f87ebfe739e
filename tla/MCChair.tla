---- MODULE MCChair ----
(* Instances of the chair: which buttons there are, and what is stored.        *)
EXTENDS ChairProperties

NoPattern == << [bits |-> {"top"}, len |-> [l \in 1 .. LEVEL_MAX |-> 1]] >>

Store(presets) == [heat |-> 0, massage |-> 0, lumbar |-> 0, presets |-> presets]

\* The recline alone, both ways.
ReclineOnly == <<"recline_down", "recline_up">>
Headrests   == <<"headrest_up", "recline_up">>

At(recline, headrest, flags) ==
    [used |-> TRUE, recline |-> recline, headrest |-> headrest, flags |-> flags,
     heat |-> IF "heat" \in flags THEN 1 ELSE 0,
     massage |-> IF "massage" \in flags THEN 1 ELSE 0,
     lumbar |-> IF "lumbar" \in flags THEN 1 ELSE 0]

BothAxes == {Store([s \in 1 .. LEVEL_MAX |-> IF s = 2 THEN At(1, 1, {}) ELSE At(0, 1, {"heat"})])}
\* One slot heats and massages, the other has the recline down and lumbar.
AllSlots == {Store([s \in 1 .. LEVEL_MAX |->
                       IF s = 2 THEN At(1, 1, {"heat", "massage"}) ELSE At(0, 1, {"lumbar"})])}

====
