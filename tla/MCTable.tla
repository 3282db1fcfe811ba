------------------------------ MODULE MCTable ------------------------------
(***************************************************************************)
(* Small instances of the table.  Numbers are counted in halves; the texts *)
(* are, in lexicographic order, "1", "1.5", "2" and "word".                *)
(***************************************************************************)
EXTENDS TableProperties, TypeCast

MCIntLimit == [T \in {"int"} |-> 4]

MCTexts == << [reads |-> 2, canonical |-> TRUE], [reads |-> 3, canonical |-> TRUE],
              [reads |-> 4, canonical |-> TRUE],
              [reads |-> NoNumber, canonical |-> FALSE] >>

one == Variant("int", 2)
two == Variant("int", 4)
one_and_a_half == Variant("float", 3)
text_two == Variant("string", 3)
text_word == Variant("string", 4)

MCVariants == {one, two, one_and_a_half, text_two, text_word}

MCValues == -8..8

MCtype_cast == [T \in DataTypes |-> [v \in MCVariants |-> TypeCast(T, v)]]

(* One-column rows and two-column rows; the second one fails at the second  *)
(* column of a table whose first column is a string, the last one at the   *)
(* first column unless that is one.                                        *)
MCRows == {<<two>>, <<one, one_and_a_half>>, <<text_two, text_word>>, <<text_word, one>>}

(* Rows for a caller that fits them to the schema.                         *)
MCGoodRows == {<<two>>, <<text_two>>, <<one, one_and_a_half>>, <<two, text_two>>, <<text_two, two>>}
=============================================================================
