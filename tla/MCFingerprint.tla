---------------------------- MODULE MCFingerprint ----------------------------
(***************************************************************************)
(* An instance of Fingerprint for TLC.                                     *)
(***************************************************************************)
EXTENDS Fingerprint

a == 12  \* letters
b == 13
w == 14

\* An asset that is another one with a digit, as symbolPattern allows.
TwoAssets   == {<<b>>, <<b, 5>>}

\* A wallet that another connection replaces, and an asset with one.
Wallets     == [s \in TwoAssets |-> IF s = <<b>> THEN {<<w>>, <<w, w>>} ELSE {<<w, b>>}]

\* Zero, and the spellings of 5, 50, 0.5, 5.5 and their like.
Spellings == [whole    : {<<0>>, <<5>>, <<0, 5>>, <<5, 0>>},
              fraction : {<<>>, <<0>>, <<5>>, <<5, 0>>, <<0, 5>>}]

\* Texts: one empty, one a part of another, one of two lines.
FewTexts    == {<<>>, <<a>>, <<a, a>>, <<a, NL, a>>}
=============================================================================
