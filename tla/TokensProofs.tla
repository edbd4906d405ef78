---------------------------- MODULE TokensProofs ----------------------------
(***************************************************************************)
(* Proofs about Tokens, for any number of instances, any lifetimes and any *)
(* bytes AES may give: the text of a token decodes to the bytes it was     *)
(* made of, and what the server says of a token's lifetime is kept.        *)
(***************************************************************************)
EXTENDS Tokens, StartUpProofs

Bytes == 0..255

(* A sequence of bytes that is continued with zeros.                       *)
LEMMA PaddedByte == ASSUME NEW s \in Seq(Bytes), NEW k \in Nat
                    PROVE  Padded(s, k) \in Bytes
PROOF
<1>1. 0 \in Bytes
  BY DEF Bytes
<1>2. k \in DOMAIN s => s[k] \in Bytes
  OBVIOUS
<1> QED BY <1>1, <1>2 DEF Padded

(* A character by its place in its group, whose bytes follow byte g.       *)
LEMMA SextetCases ==
    ASSUME NEW s, NEW i, NEW g, g = 3 * ((i - 1) \div 4)
    PROVE  /\ i % 4 = 1 => Sextet(s, i) = Padded(s, g + 1) \div 4
           /\ i % 4 = 2 => Sextet(s, i) = (Padded(s, g + 1) % 4) * 16 + Padded(s, g + 2) \div 16
           /\ i % 4 = 3 => Sextet(s, i) = (Padded(s, g + 2) % 16) * 4 + Padded(s, g + 3) \div 64
           /\ i % 4 = 0 => Sextet(s, i) = Padded(s, g + 3) % 64
PROOF
BY DEF Sextet

(* A byte by its place in its group, whose characters follow character g.  *)
LEMMA OctetCases ==
    ASSUME NEW t, NEW k, NEW g, g = 4 * ((k - 1) \div 3)
    PROVE  /\ k % 3 = 1 => Octet(t, k) = (Padded(t, g + 1) * 4 + Padded(t, g + 2) \div 16) % 256
           /\ k % 3 = 2 => Octet(t, k) = ((Padded(t, g + 2) % 16) * 16 + Padded(t, g + 3) \div 4) % 256
           /\ k % 3 = 0 => Octet(t, k) = ((Padded(t, g + 3) % 4) * 64 + Padded(t, g + 4)) % 256
PROOF
BY DEF Octet

(* The four characters of group j stand for its three bytes.               *)
LEMMA SextetsOfGroup ==
    ASSUME NEW s \in Seq(Bytes), NEW j \in Nat
    PROVE  LET b1 == Padded(s, 3 * j + 1)
               b2 == Padded(s, 3 * j + 2)
               b3 == Padded(s, 3 * j + 3)
           IN /\ Sextet(s, 4 * j + 1) = b1 \div 4
              /\ Sextet(s, 4 * j + 2) = (b1 % 4) * 16 + b2 \div 16
              /\ Sextet(s, 4 * j + 3) = (b2 % 16) * 4 + b3 \div 64
              /\ Sextet(s, 4 * j + 4) = b3 % 64
PROOF
<1> DEFINE g == 3 * j
<1>1. ASSUME NEW m \in {1, 2, 3, 4}, NEW i, i = 4 * j + m
      PROVE  i % 4 = m % 4 /\ g = 3 * ((i - 1) \div 4)
  BY <1>1
<1> HIDE DEF g
<1>2. ASSUME NEW i, i = 4 * j + 1
      PROVE  Sextet(s, i) = Padded(s, g + 1) \div 4
  <2>1. i % 4 = 1 /\ g = 3 * ((i - 1) \div 4)
    BY <1>1, <1>2
  <2> QED BY <2>1, SextetCases
<1>3. ASSUME NEW i, i = 4 * j + 2
      PROVE  Sextet(s, i) = (Padded(s, g + 1) % 4) * 16 + Padded(s, g + 2) \div 16
  <2>1. i % 4 = 2 /\ g = 3 * ((i - 1) \div 4)
    BY <1>1, <1>3
  <2> QED BY <2>1, SextetCases
<1>4. ASSUME NEW i, i = 4 * j + 3
      PROVE  Sextet(s, i) = (Padded(s, g + 2) % 16) * 4 + Padded(s, g + 3) \div 64
  <2>1. i % 4 = 3 /\ g = 3 * ((i - 1) \div 4)
    BY <1>1, <1>4
  <2> QED BY <2>1, SextetCases
<1>5. ASSUME NEW i, i = 4 * j + 4
      PROVE  Sextet(s, i) = Padded(s, g + 3) % 64
  <2>1. i % 4 = 0 /\ g = 3 * ((i - 1) \div 4)
    BY <1>1, <1>5
  <2> QED BY <2>1, SextetCases
<1> QED BY <1>2, <1>3, <1>4, <1>5 DEF g

(* Every character of the encoding is in the alphabet.                     *)
LEMMA SextetRange == ASSUME NEW s \in Seq(Bytes), NEW i \in Nat \ {0}
                     PROVE  Sextet(s, i) \in 0..63
PROOF
<1> DEFINE j == (i - 1) \div 4
           b1 == Padded(s, 3 * j + 1)
           b2 == Padded(s, 3 * j + 2)
           b3 == Padded(s, 3 * j + 3)
<1>1. j \in Nat /\ (i = 4 * j + 1 \/ i = 4 * j + 2 \/ i = 4 * j + 3 \/ i = 4 * j + 4)
  OBVIOUS
<1>2. b1 \in 0..255 /\ b2 \in 0..255 /\ b3 \in 0..255
  BY <1>1, PaddedByte DEF Bytes
<1>3. /\ Sextet(s, 4 * j + 1) = b1 \div 4
      /\ Sextet(s, 4 * j + 2) = (b1 % 4) * 16 + b2 \div 16
      /\ Sextet(s, 4 * j + 3) = (b2 % 16) * 4 + b3 \div 64
      /\ Sextet(s, 4 * j + 4) = b3 % 64
  BY <1>1, SextetsOfGroup
<1> HIDE DEF j, b1, b2, b3
<1>4. /\ b1 \div 4 \in 0..63 /\ (b1 % 4) * 16 + b2 \div 16 \in 0..63
      /\ (b2 % 16) * 4 + b3 \div 64 \in 0..63 /\ b3 % 64 \in 0..63
  BY <1>2
<1> QED BY <1>1, <1>3, <1>4

(* How long a text is, and where its padding starts.                       *)
Characters(n) == IF n % 3 = 0 THEN 4 * (n \div 3) ELSE 4 * (n \div 3) + (n % 3) + 1
TextLength(n) == IF n % 3 = 0 THEN 4 * (n \div 3) ELSE 4 * (n \div 3) + 4

LEMMA Lengths ==
    ASSUME NEW n \in Nat
    PROVE  /\ TextLength(n) \in Nat /\ Characters(n) \in 0..TextLength(n)
           /\ 3 * (Characters(n) \div 4)
                + (IF Characters(n) % 4 = 0 THEN 0 ELSE (Characters(n) % 4) - 1) = n
           /\ \A j \in Nat :
                 /\ 3 * j + 1 <= n => 4 * j + 2 <= Characters(n)
                 /\ 3 * j + 2 <= n => 4 * j + 3 <= Characters(n)
                 /\ 3 * j + 3 <= n => 4 * j + 4 <= Characters(n)
PROOF
BY DEF Characters, TextLength

LEMMA EncodedText ==
    ASSUME NEW s \in Seq(Bytes)
    PROVE  /\ base64Encode(s) \in Seq(0..64)
           /\ Len(base64Encode(s)) = TextLength(Len(s))
           /\ DOMAIN base64Encode(s) = 1..TextLength(Len(s))
           /\ Characters(Len(s)) \in 0..TextLength(Len(s))
           /\ \A i \in 1..Characters(Len(s)) : base64Encode(s)[i] = Sextet(s, i)
           /\ \A i \in 1..Characters(Len(s)) : base64Encode(s)[i] \in 0..63
           /\ Characters(Len(s)) < TextLength(Len(s))
                => base64Encode(s)[Characters(Len(s)) + 1] \notin 0..63
PROOF
<1> DEFINE n == Len(s)
           chars == Characters(n)
           length == TextLength(n)
           t == base64Encode(s)
<1>1. n \in Nat
  OBVIOUS
<1>2. t = [i \in 1..length |-> IF i <= chars THEN Sextet(s, i) ELSE 64]
  BY DEF base64Encode, Characters, TextLength, Pad
<1>3. length \in Nat /\ chars \in 0..length
  BY <1>1, Lengths
<1> HIDE DEF n, chars, length, t
<1>4. \A i \in 1..length : Sextet(s, i) \in 0..63
  <2>1. \A i \in 1..length : i \in Nat \ {0}
    BY <1>3
  <2> QED BY <2>1, SextetRange
<1>5. \A i \in 1..chars : i \in 1..length /\ i <= chars
  BY <1>3
<1>6. \A i \in 1..chars : t[i] = Sextet(s, i) /\ t[i] \in 0..63
  BY <1>2, <1>4, <1>5
<1>7. chars < length => t[chars + 1] = 64
  <2>1. chars < length => chars + 1 \in 1..length /\ ~(chars + 1 <= chars)
    BY <1>3
  <2> QED BY <1>2, <2>1
<1>8. t \in Seq(0..64) /\ Len(t) = length /\ DOMAIN t = 1..length
  <2>1. \A i \in 1..length : (IF i <= chars THEN Sextet(s, i) ELSE 64) \in 0..64
    BY <1>3, <1>4
  <2>2. t \in [1..length -> 0..64]
    BY <1>2, <2>1
  <2> QED BY <1>3, <2>2
<1>9. chars < length => t[chars + 1] \notin 0..63
  <2>1. 64 \notin 0..63
    OBVIOUS
  <2> QED BY <1>7, <2>1
<1>10. /\ t \in Seq(0..64) /\ Len(t) = length /\ DOMAIN t = 1..length
       /\ chars \in 0..length
       /\ \A i \in 1..chars : t[i] = Sextet(s, i)
       /\ \A i \in 1..chars : t[i] \in 0..63
       /\ chars < length => t[chars + 1] \notin 0..63
  BY <1>3, <1>6, <1>8, <1>9
<1> QED BY <1>10 DEF n, chars, length, t

(* The decoding stops where the padding starts.                            *)
LEMMA DecodingStops ==
    ASSUME NEW s \in Seq(Bytes)
    PROVE  LET text == base64Encode(s)
           IN Characters(Len(s)) = CHOOSE n \in 0..Len(text) :
                 /\ \A i \in 1..n : text[i] \in 0..63
                 /\ n < Len(text) => text[n + 1] \notin 0..63
PROOF
<1> DEFINE text == base64Encode(s)
           chars == Characters(Len(s))
           Stop(n) == /\ \A i \in 1..n : text[i] \in 0..63
                      /\ n < Len(text) => text[n + 1] \notin 0..63
<1>1. chars \in 0..Len(text) /\ Len(text) \in Nat /\ Stop(chars)
  BY EncodedText
<1>2. \A i \in 1..chars : text[i] \in 0..63
  BY <1>1
<1> HIDE DEF text, chars
<1>3. ASSUME NEW n \in 0..Len(text), Stop(n) PROVE n = chars
  <2>1. CASE n < chars
    <3>1. n + 1 \in 1..chars /\ n < Len(text)
      BY <1>1, <2>1
    <3> QED BY <1>2, <1>3, <3>1
  <2>2. CASE chars < n
    <3>1. chars + 1 \in 1..n /\ chars < Len(text)
      BY <1>1, <2>2
    <3> QED BY <1>1, <1>3, <3>1
  <2> QED BY <1>1, <2>1, <2>2
<1>4. chars = CHOOSE n \in 0..Len(text) : Stop(n)
  BY <1>1, <1>3
<1> QED BY <1>4 DEF text, chars

(* WSCrypt::base64Decode gives back the bytes that base64Encode was given, *)
(* for any bytes: the bits of the characters add up to the bytes again, in *)
(* a last group of one or two bytes too.                                   *)
THEOREM DecodeOfEncode ==
    ASSUME NEW s \in Seq(Bytes)
    PROVE  base64Decode(base64Encode(s)) = s
PROOF
<1> DEFINE n == Len(s)
           text == base64Encode(s)
           chars == Characters(n)
           rest == chars % 4
<1>1. n \in Nat /\ DOMAIN s = 1..n
  OBVIOUS
<1>2. base64Decode(text)
        = [k \in 1..(3 * (chars \div 4) + (IF rest = 0 THEN 0 ELSE rest - 1)) |->
              Octet(text, k)]
  BY DecodingStops DEF base64Decode
<1>3. 3 * (chars \div 4) + (IF rest = 0 THEN 0 ELSE rest - 1) = n
  BY <1>1, Lengths
<1>4. ASSUME NEW k \in 1..n PROVE Octet(text, k) = s[k]
  <2> DEFINE j == (k - 1) \div 3
             b1 == Padded(s, 3 * j + 1)
             b2 == Padded(s, 3 * j + 2)
             b3 == Padded(s, 3 * j + 3)
  <2>1. j \in Nat /\ (k = 3 * j + 1 \/ k = 3 * j + 2 \/ k = 3 * j + 3)
    BY <1>1
  <2>2. b1 \in 0..255 /\ b2 \in 0..255 /\ b3 \in 0..255
    BY <2>1, PaddedByte DEF Bytes
  <2>3. /\ Sextet(s, 4 * j + 1) = b1 \div 4
        /\ Sextet(s, 4 * j + 2) = (b1 % 4) * 16 + b2 \div 16
        /\ Sextet(s, 4 * j + 3) = (b2 % 16) * 4 + b3 \div 64
        /\ Sextet(s, 4 * j + 4) = b3 % 64
    BY <2>1, SextetsOfGroup
  <2>4. \A i \in 1..chars : Padded(text, i) = Sextet(s, i)
    BY EncodedText DEF Padded
  <2>5. /\ 4 * j + 1 \in 1..chars /\ 4 * j + 2 \in 1..chars
        /\ k = 3 * j + 2 => 4 * j + 3 \in 1..chars
        /\ k = 3 * j + 3 => 4 * j + 3 \in 1..chars /\ 4 * j + 4 \in 1..chars
    <3> HIDE DEF n, j
    <3>1. chars \in Nat /\ k <= n
      BY <1>1, Lengths
    <3>2. /\ 3 * j + 1 <= n => 4 * j + 2 <= chars
          /\ 3 * j + 2 <= n => 4 * j + 3 <= chars
          /\ 3 * j + 3 <= n => 4 * j + 4 <= chars
      <4>1. \A i \in Nat :
               /\ 3 * i + 1 <= n => 4 * i + 2 <= chars
               /\ 3 * i + 2 <= n => 4 * i + 3 <= chars
               /\ 3 * i + 3 <= n => 4 * i + 4 <= chars
        BY <1>1, Lengths
      <4> HIDE DEF chars
      <4> QED BY <2>1, <4>1
    <3> HIDE DEF chars
    <3> QED BY <1>1, <2>1, <3>1, <3>2
  <2>6. s[k] = Padded(s, k)
    BY <1>1 DEF Padded
  <2> HIDE DEF text, chars, n, b1, b2, b3
  <2>7. CASE k = 3 * j + 1
    <3>1. Octet(text, k) = (Padded(text, 4 * j + 1) * 4 + Padded(text, 4 * j + 2) \div 16) % 256
      <4>1. k % 3 = 1 /\ 4 * ((k - 1) \div 3) = 4 * j
        BY <2>1, <2>7
      <4> QED BY <4>1 DEF Octet
    <3>2. ((b1 \div 4) * 4 + ((b1 % 4) * 16 + b2 \div 16) \div 16) % 256 = b1
      BY <2>2
    <3> QED BY <2>3, <2>4, <2>5, <2>6, <2>7, <3>1, <3>2 DEF b1
  <2>8. CASE k = 3 * j + 2
    <3>1. Octet(text, k) = ((Padded(text, 4 * j + 2) % 16) * 16 + Padded(text, 4 * j + 3) \div 4) % 256
      <4>1. k % 3 = 2 /\ 4 * ((k - 1) \div 3) = 4 * j
        BY <2>1, <2>8
      <4> QED BY <4>1 DEF Octet
    <3>2. ((((b1 % 4) * 16 + b2 \div 16) % 16) * 16 + ((b2 % 16) * 4 + b3 \div 64) \div 4) % 256 = b2
      BY <2>2
    <3> QED BY <2>3, <2>4, <2>5, <2>6, <2>8, <3>1, <3>2 DEF b2
  <2>9. CASE k = 3 * j + 3
    <3>1. Octet(text, k) = ((Padded(text, 4 * j + 3) % 4) * 64 + Padded(text, 4 * j + 4)) % 256
      <4>1. k % 3 = 0 /\ 4 * ((k - 1) \div 3) = 4 * j
        BY <2>1, <2>9
      <4> QED BY <4>1 DEF Octet
    <3>2. Octet(text, k) = ((((b2 % 16) * 4 + b3 \div 64) % 4) * 64 + (b3 % 64)) % 256
      <4>1. 4 * j + 3 \in 1..chars /\ 4 * j + 4 \in 1..chars
        BY <2>5, <2>9
      <4>2. /\ Padded(text, 4 * j + 3) = Sextet(s, 4 * j + 3)
            /\ Padded(text, 4 * j + 4) = Sextet(s, 4 * j + 4)
        BY <2>4, <4>1
      <4> QED BY <2>3, <3>1, <4>2
    <3>3. ((((b2 % 16) * 4 + b3 \div 64) % 4) * 64 + (b3 % 64)) % 256 = b3
      <4>1. \A x \in 0..15, y \in 0..3 : (x * 4 + y) % 4 = y
        OBVIOUS
      <4>2. b2 % 16 \in 0..15 /\ b3 \div 64 \in 0..3
        BY <2>2
      <4>3. ((b2 % 16) * 4 + b3 \div 64) % 4 = b3 \div 64
        BY <4>1, <4>2
      <4>4. (b3 \div 64) * 64 + (b3 % 64) = b3 /\ b3 % 256 = b3
        BY <2>2
      <4> QED BY <4>3, <4>4
    <3>4. b3 = s[k]
      BY <2>6, <2>9 DEF b3
    <3> QED BY <3>2, <3>3, <3>4
  <2> QED BY <2>1, <2>7, <2>8, <2>9
<1>5. s = [k \in 1..n |-> s[k]]
  BY <1>1
<1> QED BY <1>2, <1>3, <1>4, <1>5

-----------------------------------------------------------------------------
(* What the user was told of the token and what the token says are the     *)
(* same, or both are over.                                                 *)
PromiseIsTokens ==
    \/ promise = token.expiretime
    \/ promise <= clock /\ token.expiretime <= clock

(* The key is given to WSCrypt if it and the setting before it can be read.*)
KeyReadable == SettingAt(1) \notin unreadable /\ SettingAt(2) \notin unreadable

(* A token is the text of bytes AES gave, made when there was a WSCrypt    *)
(* object; if there is but one, with the key, or all without it.           *)
TokenIsMade ==
    token # NoToken =>
        /\ token.bytes \in Ciphertexts
        /\ token.text = base64Encode(token.bytes)
        /\ \E o \in made : o[1] = "WSCrypt"
        /\ OneObject("WSCrypt") => token.key = KeyReadable

AnswerIsTrue ==
    answer.by # "none" =>
        /\ token # NoToken
        /\ OneObject("WSCrypt") =>
              answer.accepted = (answer.by = "delete" \/ ~(token.expiretime <= clock))

TokensInv == /\ StartUpInv
             /\ TokensTypeOK
             /\ PromiseIsTokens
             /\ TokenIsMade
             /\ AnswerIsTrue

(* On an only object the key is set when a page is served, or never.       *)
LEMMA KeyIsSettled ==
    ASSUME StartUpInv, NEW a \in Apps, Page(a), OneObject("WSCrypt")
    PROVE  KeyNow <=> KeyReadable
PROOF
<1> DEFINE o == Current("WSCrypt")
<1>1. /\ "WSCrypt" \in Classes /\ 1 \in Steps /\ 2 \in Steps /\ 2 # 6
      /\ ClassAt(2) = "WSCrypt" /\ SettingAt(2) = "tokenkey"
  BY SetupFacts DEF Classes, Steps
<1>2. o \in made /\ o[1] = "WSCrypt" /\ o \in Classes \X Apps
  BY <1>1 DEF Page, StartUpInv, StartUpTypeOK, CurrentIsSet, Current
<1> HIDE DEF o
<1>3. CASE 2 < at[a]
  <2>1. "tokenkey" \in settings[o]
    BY <1>1, <1>2, <1>3, OneObjectIsSet
  <2>2. 1 < at[a]
    BY <1>3, SetupFacts DEF StartUpInv, StartUpTypeOK
  <2>3. KeyReadable
    BY <1>1, <1>3, <2>2 DEF StartUpInv, StepsReadable, KeyReadable
  <2> QED BY <2>1, <2>3 DEF KeyNow, o
<1>4. CASE ~(2 < at[a])
  <2>1. a \in gaveUp
    BY <1>4, SetupFacts DEF Page, Serving
  <2>2. at[a] \in Steps /\ SettingAt(at[a]) \in unreadable
    BY <2>1 DEF StartUpInv, StepsReadable
  <2>3. at[a] = 1 \/ at[a] = 2
    BY <1>4, <2>2 DEF Steps
  <2>4. ~KeyReadable
    BY <2>2, <2>3 DEF KeyReadable
  <2>5. "tokenkey" \notin settings[o]
    <3>1. 1 \in 1..2 /\ 2 \in 1..2
      OBVIOUS
    <3> QED BY <1>1, <1>2, <2>2, <2>3, <3>1 DEF StartUpInv, SettingsReadable
  <2> QED BY <2>4, <2>5 DEF KeyNow, o
<1> QED BY <1>3, <1>4

(* A token decodes while its key is the one in use.                        *)
LEMMA TokenDecodes ==
    ASSUME TokensInv, NEW a \in Apps, Page(a), token # NoToken,
           OneObject("WSCrypt")
    PROVE  Decodes
PROOF
<1>1. token.key = KeyNow
  <2>1. (KeyNow <=> KeyReadable) /\ token.key = KeyReadable
    BY KeyIsSettled DEF TokensInv, TokenIsMade
  <2>2. KeyNow \in BOOLEAN /\ KeyReadable \in BOOLEAN
    BY DEF KeyNow, KeyReadable
  <2> HIDE DEF KeyNow, KeyReadable
  <2> QED BY <2>1, <2>2
<1>2. token.bytes \in Seq(Bytes) /\ token.text = base64Encode(token.bytes)
  BY TokensAssumption DEF TokensInv, TokenIsMade, Bytes
<1> QED BY <1>1, <1>2, DecodeOfEncode DEF Decodes

(* What a created token is.                                                *)
LEMMA CreatedToken ==
    ASSUME TokensTypeOK, NEW bytes \in Ciphertexts, base64Encode(bytes) \in Seq(0..64)
    PROVE  /\ createToken(bytes) \in [text : Seq(0..64), bytes : Ciphertexts \cup {<<>>},
                                      key : BOOLEAN, expiretime : Nat]
           /\ createToken(bytes).text = base64Encode(bytes)
           /\ createToken(bytes).bytes = bytes
           /\ createToken(bytes).key = KeyNow
           /\ createToken(bytes).expiretime = clock + getTokenExpireDurationInSec
           /\ clock + getTokenExpireDurationInSec \in Nat
PROOF
<1>1. clock \in Nat /\ getTokenExpireDurationInSec \in Nat
  BY TokensAssumption DEF TokensTypeOK, getTokenExpireDurationInSec
<1>2. clock + getTokenExpireDurationInSec \in Nat
  BY <1>1
<1>3. KeyNow \in BOOLEAN
  BY DEF KeyNow
<1> HIDE DEF getTokenExpireDurationInSec, KeyNow
<1> QED BY <1>2, <1>3 DEF createToken

(* Nothing was made and said before the first request.                     *)
LEMMA TokensInitInv == Init => TokensInv
PROOF
<1> SUFFICES ASSUME Init PROVE TokensInv
  OBVIOUS
<1>1. StartUpInv
  BY StartUpInitInv DEF Init
<1>2. /\ token = NoToken /\ promise = 0 /\ clock = 0
      /\ answer = NoAnswer /\ answer.by = "none"
  BY DEF Init, TokensInit, NoAnswer
<1>3. TokensTypeOK
  <2>1. <<>> \in Seq(0..64) /\ FALSE \in BOOLEAN /\ 0 \in Nat
    OBVIOUS
  <2>2. 0 \in 0..MaxTime
    BY TokensAssumption
  <2> QED BY <1>2, <2>1, <2>2 DEF TokensTypeOK, NoToken, NoAnswer
<1>4. token.expiretime = 0
  BY <1>2 DEF NoToken
<1> QED BY <1>1, <1>2, <1>3, <1>4 DEF TokensInv, PromiseIsTokens, TokenIsMade, AnswerIsTrue

(* A step of checkIsInitialized leaves the token alone.                    *)
LEMMA SettingUp ==
    ASSUME TokensInv, NEW a \in Apps, StartUpStep(a), UNCHANGED tokenVars
    PROVE  TokensInv'
PROOF
<1>1. clock' = clock /\ token' = token /\ promise' = promise /\ answer' = answer
  BY DEF tokenVars
<1>2. StartUpInv /\ StartUpInv'
  BY StartUpNextInv DEF TokensInv
<1>3. made \subseteq made' /\ unreadable' = unreadable
  BY <1>2, StepKeeps
<1>4. TokensTypeOK' /\ PromiseIsTokens'
  BY <1>1 DEF TokensInv, TokensTypeOK, PromiseIsTokens
<1>5. ASSUME token # NoToken, OneObject("WSCrypt")' PROVE OneObject("WSCrypt")
  <2>1. PICK o \in made : o[1] = "WSCrypt"
    BY <1>5 DEF TokensInv, TokenIsMade
  <2>2. IsFiniteSet(made')
    BY <1>2 DEF StartUpInv
  <2> QED BY <1>3, <1>5, <2>1, <2>2, OneObjectBefore
<1>6. KeyReadable' = KeyReadable
  BY <1>3 DEF KeyReadable, SettingAt
<1>7. TokenIsMade' /\ AnswerIsTrue'
  BY <1>1, <1>3, <1>5, <1>6 DEF TokensInv, TokenIsMade, AnswerIsTrue, NoToken
<1> QED BY <1>2, <1>4, <1>7 DEF TokensInv

(* The facts about set-up stay when its variables do.                      *)
LEMMA SetUpUnchanged ==
    ASSUME TokensInv, UNCHANGED startUpVars
    PROVE  /\ StartUpInv' /\ KeyNow' = KeyNow /\ KeyReadable' = KeyReadable
           /\ made' = made
           /\ (OneObject("WSCrypt")' <=> OneObject("WSCrypt"))
PROOF
<1>1. StartUpInv'
  BY StartUpStutterInv DEF TokensInv
<1> QED BY <1>1 DEF startUpVars, KeyNow, KeyReadable, Current, OneObject, SettingAt

(* RequestToken makes the token anew and says when it ends.                *)
LEMMA Requesting ==
    ASSUME TokensInv, NEW a \in Apps, RequestToken(a), UNCHANGED startUpVars
    PROVE  TokensInv'
PROOF
<1>1. PICK bytes \in Ciphertexts :
         /\ Page(a) /\ token' = createToken(bytes)
         /\ promise' = clock + getTokenExpireDurationInSec
         /\ answer' = NoAnswer /\ clock' = clock
  BY DEF RequestToken
<1>2. base64Encode(bytes) \in Seq(0..64)
  BY EncodedText, TokensAssumption DEF Bytes
<1>3. /\ token' \in [text : Seq(0..64), bytes : Ciphertexts \cup {<<>>},
                     key : BOOLEAN, expiretime : Nat]
      /\ token'.text = base64Encode(bytes) /\ token'.bytes = bytes
      /\ token'.key = KeyNow /\ token'.expiretime = promise' /\ promise' \in Nat
  BY <1>1, <1>2, CreatedToken DEF TokensInv
<1>4. /\ StartUpInv' /\ (OneObject("WSCrypt")' => OneObject("WSCrypt"))
      /\ KeyReadable' = KeyReadable /\ made' = made
  BY SetUpUnchanged
<1>5. TokensTypeOK'
  BY <1>1, <1>3 DEF TokensInv, TokensTypeOK, NoAnswer
<1>6. PromiseIsTokens' /\ AnswerIsTrue'
  BY <1>1, <1>3 DEF PromiseIsTokens, AnswerIsTrue, NoAnswer
<1>7. OneObject("WSCrypt") => token'.key = KeyReadable
  <2>1. OneObject("WSCrypt") => (KeyNow <=> KeyReadable)
    BY <1>1, KeyIsSettled DEF TokensInv
  <2>2. KeyNow \in BOOLEAN /\ KeyReadable \in BOOLEAN
    BY DEF KeyNow, KeyReadable
  <2> HIDE DEF KeyNow, KeyReadable
  <2> QED BY <1>3, <2>1, <2>2
<1>8. \E o \in made : o[1] = "WSCrypt"
  BY <1>1 DEF Page, TokensInv, StartUpInv, CurrentIsSet, Classes
<1>9. TokenIsMade'
  BY <1>3, <1>4, <1>7, <1>8 DEF TokenIsMade
<1> QED BY <1>4, <1>5, <1>6, <1>9 DEF TokensInv

(* RetrieveTokenExpireTime says the end that the token says, or that it is *)
(* over.                                                                   *)
LEMMA Retrieving ==
    ASSUME TokensInv, NEW a \in Apps, RetrieveTokenExpireTime(a), UNCHANGED startUpVars
    PROVE  TokensInv'
PROOF
<1>1. /\ promise' = IF ~Expired THEN clock + RemainingExpireTime
                    ELSE IF promise < clock THEN promise ELSE clock
      /\ clock' = clock /\ token' = token /\ answer' = answer
  BY DEF RetrieveTokenExpireTime
<1>2. clock \in Nat /\ token.expiretime \in Nat /\ promise \in Nat
  BY TokensAssumption DEF TokensInv, TokensTypeOK
<1>3. /\ promise' \in Nat
      /\ \/ promise' = token.expiretime
         \/ promise' <= clock /\ token.expiretime <= clock
  <2> DEFINE e == token.expiretime
  <2>1. promise' = IF ~(e <= clock) THEN clock + (IF e > clock THEN e - clock ELSE 0)
                   ELSE IF promise < clock THEN promise ELSE clock
    BY <1>1 DEF Expired, RemainingExpireTime
  <2>2. e \in Nat
    BY <1>2
  <2> HIDE DEF e
  <2>3. promise' \in Nat /\ (promise' = e \/ (promise' <= clock /\ e <= clock))
    BY <1>2, <2>1, <2>2
  <2> QED BY <2>3 DEF e
<1>4. TokensTypeOK' /\ PromiseIsTokens'
  BY <1>1, <1>3 DEF TokensInv, TokensTypeOK, PromiseIsTokens
<1>5. TokenIsMade' /\ AnswerIsTrue'
  BY <1>1, SetUpUnchanged DEF TokensInv, TokenIsMade, AnswerIsTrue, NoToken
<1> QED BY <1>4, <1>5, SetUpUnchanged DEF TokensInv

(* A page accepts the token if it decodes and is not over.                 *)
LEMMA Answering ==
    ASSUME TokensInv, NEW a \in Apps, TokenPage(a), UNCHANGED startUpVars
    PROVE  TokensInv'
PROOF
<1>1. /\ Page(a) /\ token # NoToken
      /\ answer' = [by |-> "page", accepted |-> Decodes /\ ~Expired]
      /\ clock' = clock /\ token' = token /\ promise' = promise
  BY DEF TokenPage
<1>2. /\ answer'.by = "page" /\ answer'.accepted = (Decodes /\ ~Expired)
      /\ answer' \in [by : {"none", "page", "delete"}, accepted : BOOLEAN]
  BY <1>1 DEF Decodes
<1>3. OneObject("WSCrypt") => answer'.accepted = ~(token.expiretime <= clock)
  <2>1. OneObject("WSCrypt") => Decodes
    BY <1>1, TokenDecodes
  <2> HIDE DEF Decodes
  <2> QED BY <1>2, <2>1 DEF Expired
<1>4. TokensTypeOK' /\ PromiseIsTokens'
  BY <1>1, <1>2 DEF TokensInv, TokensTypeOK, PromiseIsTokens
<1>5. TokenIsMade' /\ AnswerIsTrue'
  BY <1>1, <1>2, <1>3, SetUpUnchanged DEF TokensInv, TokenIsMade, AnswerIsTrue, NoToken
<1> QED BY <1>4, <1>5, SetUpUnchanged DEF TokensInv

(* A page that deletes accepts the token if it decodes.                    *)
LEMMA Deleting ==
    ASSUME TokensInv, NEW a \in Apps, DeletePage(a), UNCHANGED startUpVars
    PROVE  TokensInv'
PROOF
<1>1. /\ Page(a) /\ token # NoToken
      /\ answer' = [by |-> "delete", accepted |-> Decodes]
      /\ clock' = clock /\ token' = token /\ promise' = promise
  BY DEF DeletePage
<1>2. /\ answer'.by = "delete" /\ answer'.accepted = Decodes
      /\ answer' \in [by : {"none", "page", "delete"}, accepted : BOOLEAN]
  BY <1>1 DEF Decodes
<1>3. OneObject("WSCrypt") => answer'.accepted = TRUE
  <2>1. OneObject("WSCrypt") => Decodes
    BY <1>1, TokenDecodes
  <2> HIDE DEF Decodes
  <2> QED BY <1>2, <2>1
<1>4. TokensTypeOK' /\ PromiseIsTokens'
  BY <1>1, <1>2 DEF TokensInv, TokensTypeOK, PromiseIsTokens
<1>5. TokenIsMade' /\ AnswerIsTrue'
  BY <1>1, <1>2, <1>3, SetUpUnchanged DEF TokensInv, TokenIsMade, AnswerIsTrue, NoToken
<1> QED BY <1>4, <1>5, SetUpUnchanged DEF TokensInv

(* A second goes by: what was over stays over.                             *)
LEMMA Ticking ==
    ASSUME TokensInv, Tick, UNCHANGED startUpVars
    PROVE  TokensInv'
PROOF
<1>1. /\ clock < MaxTime /\ clock' = clock + 1
      /\ answer' = NoAnswer /\ answer'.by = "none"
      /\ token' = token /\ promise' = promise
  BY DEF Tick, NoAnswer
<1>2. clock \in Nat /\ token.expiretime \in Nat /\ promise \in Nat /\ MaxTime \in Nat
  BY TokensAssumption DEF TokensInv, TokensTypeOK
<1>3. clock + 1 \in 0..MaxTime
  BY <1>1, <1>2
<1>4. TokensTypeOK'
  BY <1>1, <1>3 DEF TokensInv, TokensTypeOK, NoAnswer
<1>5. PromiseIsTokens'
  BY <1>1, <1>2 DEF TokensInv, PromiseIsTokens
<1>6. TokenIsMade' /\ AnswerIsTrue'
  BY <1>1, SetUpUnchanged DEF TokensInv, TokenIsMade, AnswerIsTrue, NoToken
<1> QED BY <1>4, <1>5, <1>6, SetUpUnchanged DEF TokensInv

(* The inductive invariant of the tokens.                                  *)
THEOREM Invariance == Spec => []TokensInv
PROOF
<1>1. TokensInv /\ [Next]_vars => TokensInv'
  <2> SUFFICES ASSUME TokensInv, [Next]_vars PROVE TokensInv'
    OBVIOUS
  <2>1. ASSUME NEW a \in Apps, StartUpStep(a), UNCHANGED tokenVars PROVE TokensInv'
    BY <2>1, SettingUp
  <2>2. ASSUME NEW a \in Apps, TokenStep(a), UNCHANGED startUpVars PROVE TokensInv'
    BY <2>2, Requesting, Retrieving, Answering, Deleting
       DEF TokenStep, RetrieveJobStatus, RetrievePackageStatus, RetrieveProgramInfo,
           ReturnHPCNames, ReturnHPCProgramNames, UploadPackage, SubmitJob, DeleteJob,
           DeletePackage
  <2>3. ASSUME Tick, UNCHANGED startUpVars PROVE TokensInv'
    BY <2>3, Ticking
  <2>4. CASE UNCHANGED vars
    <3>1. /\ clock' = clock /\ token' = token /\ promise' = promise
          /\ answer' = answer /\ UNCHANGED startUpVars
      BY <2>4 DEF vars, tokenVars
    <3> QED BY <3>1, SetUpUnchanged
            DEF TokensInv, TokensTypeOK, PromiseIsTokens, TokenIsMade, AnswerIsTrue, NoToken
  <2> QED BY <2>1, <2>2, <2>3, <2>4 DEF Next
<1> QED BY <1>1, TokensInitInv, PTL DEF Spec

(* The variables of set-up and tokens keep their types.                    *)
THEOREM TypeCorrect == Spec => []TypeOK
PROOF
<1>1. TokensInv => TypeOK
  BY DEF TokensInv, StartUpInv, TypeOK
<1> QED BY <1>1, Invariance, PTL

(* However the first requests of the instances overlap and however many    *)
(* objects instance() makes, and whichever settings the configuration file *)
(* lacks or mistypes: when no instance is in checkIsInitialized any more,  *)
(* the objects in use have all settings and the scheduler in use has all   *)
(* its threads, or a setting threw and no thread runs at all.              *)
THEOREM ReadyAfterSetUp == Spec => []ReadyWhenSettled
PROOF
<1>1. TokensInv => ReadyWhenSettled
  BY ReadyFollows DEF TokensInv
<1> QED BY <1>1, Invariance, PTL

(* Whatever bytes AES makes of a token, in whichever order the pages are   *)
(* asked, for any lifetimes and with any settings missing, if one WSCrypt  *)
(* object was made: every page accepts the token until the time the server *)
(* named; from then on DeleteJob and DeletePackage go on accepting it and  *)
(* the other pages refuse it.                                              *)
THEOREM PromisesAreKept == Spec => []PromiseIsKept
PROOF
<1>1. TokensInv => PromiseIsKept
  <2> SUFFICES ASSUME TokensInv, OneObject("WSCrypt")
               PROVE  /\ answer.by = "page" => answer.accepted = (clock < promise)
                      /\ answer.by = "delete" => answer.accepted
    BY DEF PromiseIsKept
  <2>1. clock \in Nat /\ token.expiretime \in Nat /\ promise \in Nat
    BY TokensAssumption DEF TokensInv, TokensTypeOK
  <2>2. ~(token.expiretime <= clock) <=> clock < promise
    BY <2>1 DEF TokensInv, PromiseIsTokens
  <2>3. answer.by = "page" => answer.accepted = ~(token.expiretime <= clock)
    BY DEF TokensInv, AnswerIsTrue
  <2>4. answer.by = "delete" => answer.accepted = TRUE
    BY DEF TokensInv, AnswerIsTrue
  <2> QED BY <2>2, <2>3, <2>4
<1> QED BY <1>1, Invariance, PTL
=============================================================================
