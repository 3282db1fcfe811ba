---------------------------- MODULE MCDictionary ----------------------------
(***************************************************************************)
(* Small instances of the dictionary segment.  Numbers are counted in      *)
(* halves; ids have one, two and three bits instead of 8, 16 and 32.       *)
(***************************************************************************)
EXTENDS Dictionary, TypeCast

(* The numbers in the float variants: -2, 0.5, 1, 1.5, 2, 3 and 4.5, which  *)
(* no int of the model holds.                                              *)
Numbers == {-4, 1, 2, 3, 4, 6, 9}

MCIntLimit == [type \in {"int"} |-> 4]

MCTexts == << [reads |-> NaN, canonical |-> TRUE], [reads |-> NoNumber, canonical |-> FALSE] >>

MCBits == [w \in Widths |-> IF w = 1 THEN 1 ELSE IF w = 2 THEN 2 ELSE 3]

(* Numbers, and a text that reads as NaN.                                  *)
MCVariants == {Variant("float", n) : n \in Numbers} \cup {Variant("string", 1)}

MCValues == (-8..9) \cup {NaN}

MCtype_cast == [type \in DataTypes |-> [v \in Variants |-> TypeCast(type, v)]]
=============================================================================
