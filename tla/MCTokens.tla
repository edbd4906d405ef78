----------------------------- MODULE MCTokens ------------------------------
(* Instances of Tokens for TLC. *)
EXTENDS Tokens, TLC

(* Last groups of one, two and three bytes, with extreme bytes. *)
SomeCiphertexts == {<<0>>, <<255, 129>>, <<64, 3, 254>>,
                    <<7, 191, 255, 128>>}

(* A file with all settings, and one for every setting it may lack; the key*)
(* data cannot be missing alone.                                           *)
SomeConfigs == {{}} \cup {{s} : s \in SettingNames \ {"keydata"}}

Symmetry == Permutations(Apps)
=============================================================================
