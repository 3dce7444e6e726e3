----------------------------- MODULE MCContent -----------------------------
(* The instances of Content for TLC. *)
EXTENDS Content

(* What the last column may hold, and the one before it. *)
MCColumns == <<"_id=", ", address=", ", body=">>

Lookalike == <<"x", NL, RowMark, "0 ", "_id=", "9", ", address=", "z", ", body=", "q">>
LastTexts == {<<>>, <<"x", ", body=", "y">>, <<"x", NL, "y">>, <<"x", NL, NL, "y">>,
              <<"x", NL>>, <<"x", NL, Notice>>, <<"x", NL, RowMark>>, Lookalike,
              <<"x", CR, NL, "y">>}
MidTexts  == {<<"z">>, <<"z", ", body=", "t">>, <<"z", NL, "t">>}

Row(id, mid, last) == << <<id>>, mid, last>>
MCTables == {<<>>} \cup {<<Row("1", m, a)>> : m \in MidTexts, a \in LastTexts}
            \cup {<<Row("1", <<"z">>, a), Row("2", <<"z">>, b)>> : a, b \in LastTexts}
MCTables2 == {<<>>, <<Row("3", <<"z">>, <<"w">>)>>}

PropTexts == {<<>>, <<"x">>, <<"x", NL, "y">>, <<"x", NL>>, <<"x", CR, NL, "y">>,
              <<"x", Shut, NL, "y">>, <<"x", Shut, CR, NL, "y", NL>>,
              <<"x", Shut, "y">>, <<Shut>>, <<"x", NL, NL, Open, "q", Between, "y">>,
              <<"x", Shut, NL, Open, "q", Between, "y">>,
              <<"x", Shut, NL, "z", NL, Open, "p", Between, "y", NL, "z", Shut, NL>>}
PlainProps == {[x \in {"p"} |-> <<"x">>]}
MCPropSets == PlainProps \cup
              {[x \in {"p", "q"} |-> IF x = "p" THEN a ELSE b] : a, b \in PropTexts}

ContentSpec == ContentInit /\ [][ContentNext]_contentVars

=============================================================================
