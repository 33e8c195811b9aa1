---------------------------- MODULE MCPhonebook ----------------------------
(* A phonebook of three contacts: two phones and Home Assistant. *)
EXTENDS Phonebook

Row(name, route, ep) == [name |-> name, route |-> route, ep |-> ep, valid |-> TRUE]
BadRow(name) == [name |-> name, route |-> name, ep |-> None, valid |-> FALSE]

MCRows == {Row("b", "a", "direct")}

Csv(rows) == [kind |-> "csv", rows |-> rows]

MCBatches == {Csv(<<BadRow("h"), Row(Self, Self, "direct"),
                    Row("b", "b", "direct"), Row("a", "a", None)>>)}

Listed(id, name, addr, local, bridge) ==
    [id |-> id, name |-> name, addr |-> addr, local |-> local, bridge |-> bridge]

Json(rows) == [kind |-> "json", rows |-> rows]

MCRosters == {Json(<<>>),
              Json(<<Listed(None, None, None, FALSE, FALSE)>>),
              Json(<<Listed("a", "a", "direct", FALSE, TRUE),
                     Listed("h", "too long", "bridge", TRUE, FALSE)>>),
              Json(<<Listed("h", "h", "bridge", TRUE, FALSE),
                     Listed(Self, Self, "direct", FALSE, FALSE),
                     Listed("b", None, "direct", FALSE, FALSE),
                     Listed("b", "b", None, FALSE, FALSE)>>)}

=============================================================================
