------------------------------- MODULE Base64 -------------------------------
(***************************************************************************)
(* The base64 of WSCrypt.  A character is its place in base64_chars_       *)
(* (0..63); Pad is the '=' that fills the last group, and like any other   *)
(* character outside the alphabet it ends the decoding.                    *)
(***************************************************************************)
EXTENDS Naturals, Sequences

Pad == 64

(* Element k of a sequence that is continued with zeros. *)
Padded(s, k) == IF k \in DOMAIN s THEN s[k] ELSE 0

(* Mutant of Sextet: the bits that went before are not masked out. *)
SextetUnmasked(bytes, i) ==
    LET g == 3 * ((i - 1) \div 4)
    IN IF i % 4 = 2 THEN Padded(bytes, g + 1) * 16 + Padded(bytes, g + 2) \div 16
       ELSE 0

(* Six bits of the group of three bytes that character i belongs to. *)
Sextet(bytes, i) ==
    LET g == 3 * ((i - 1) \div 4)
        b1 == Padded(bytes, g + 1)
        b2 == Padded(bytes, g + 2)
        b3 == Padded(bytes, g + 3)
    IN CASE i % 4 = 1 -> b1 \div 4
         [] i % 4 = 2 -> (b1 % 4) * 16 + b2 \div 16
         [] i % 4 = 3 -> (b2 % 16) * 4 + b3 \div 64
         [] i % 4 = 0 -> b3 % 64

base64Encode(bytes) ==
    LET full == 4 * (Len(bytes) \div 3)
        rest == Len(bytes) % 3
        chars == IF rest = 0 THEN full ELSE full + rest + 1
    IN [i \in 1..(IF rest = 0 THEN full ELSE full + 4) |->
            IF i <= chars THEN Sextet(bytes, i) ELSE Pad]

(* Byte k of the decoded text, as an unsigned char. *)
Octet(text, k) ==
    LET g == 4 * ((k - 1) \div 3)
        c1 == Padded(text, g + 1)
        c2 == Padded(text, g + 2)
        c3 == Padded(text, g + 3)
        c4 == Padded(text, g + 4)
    IN CASE k % 3 = 1 -> (c1 * 4 + c2 \div 16) % 256
         [] k % 3 = 2 -> ((c2 % 16) * 16 + c3 \div 4) % 256
         [] k % 3 = 0 -> ((c3 % 4) * 64 + c4) % 256

base64Decode(text) ==
    LET chars == CHOOSE n \in 0..Len(text) :
                    /\ \A i \in 1..n : text[i] \in 0..63
                    /\ n < Len(text) => text[n + 1] \notin 0..63
        rest == chars % 4
    IN [k \in 1..(3 * (chars \div 4) + (IF rest = 0 THEN 0 ELSE rest - 1)) |->
            Octet(text, k)]
=============================================================================
