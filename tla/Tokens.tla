------------------------------- MODULE Tokens -------------------------------
(***************************************************************************)
(* The tokens of the users: RequestToken makes one with WSCrypt, every     *)
(* other page decodes it.  A token is encrypted with the key and salts     *)
(* that the WSCrypt object of that moment has; another key gives no token. *)
(* What AES makes of the token is a sequence of bytes; the token's text is *)
(* its base64.                                                             *)
(***************************************************************************)
EXTENDS StartUp, Base64

CONSTANTS TokenExpireDuration,    \* security.tokenexpiredurationinseconds
          DefaultExpireDuration,  \* 60, until it is set
          Ciphertexts,            \* byte sequences AES may give
          MaxTime                 \* bound: the clock stops there

ASSUME TokensAssumption == /\ TokenExpireDuration \in Nat \ {0}
                           /\ DefaultExpireDuration \in Nat \ {0}
                           /\ MaxTime \in Nat
                           /\ Ciphertexts \subseteq Seq(0..255)

VARIABLES clock,    \* time(0), in seconds
          token,    \* the token of the user
          promise,  \* the time until which a page said it would work
          answer    \* of the last page that needs a token, this second
tokenVars == <<clock, token, promise, answer>>

KeyNow == "tokenkey" \in settings[Current("WSCrypt")]

(* by: a page that looks at the expiry, or one that deletes.               *)
NoAnswer == [by |-> "none", accepted |-> FALSE]
NoToken == [text |-> <<>>, bytes |-> <<>>, key |-> FALSE, expiretime |-> 0]

TokensTypeOK ==
    /\ clock \in 0..MaxTime
    /\ token \in [text : Seq(0..64), bytes : Ciphertexts \cup {<<>>},
                  key : BOOLEAN, expiretime : Nat]
    /\ promise \in Nat
    /\ answer \in [by : {"none", "page", "delete"}, accepted : BOOLEAN]

TokensInit == /\ clock = 0
              /\ token = NoToken
              /\ promise = 0
              /\ answer = NoAnswer

Tick == /\ clock < MaxTime
        /\ clock' = clock + 1
        /\ answer' = NoAnswer
        /\ UNCHANGED <<token, promise>>

getTokenExpireDurationInSec ==
    IF "tokenexpireduration" \in settings[Current("WSCrypt")]
    THEN TokenExpireDuration ELSE DefaultExpireDuration

createToken(bytes) == [text |-> base64Encode(bytes), bytes |-> bytes,
                       key |-> KeyNow,
                       expiretime |-> clock + getTokenExpireDurationInSec]

(* Instance a serves a page, and WSCrypt::instance() gave it an object.    *)
Page(a) == Serving(a) /\ creating[a] = None /\ instance_["WSCrypt"] # None

(* The page tells the user the token and its lifetime. *)
RequestToken(a) == \E bytes \in Ciphertexts :
    /\ Page(a)
    /\ token' = createToken(bytes)
    /\ promise' = clock + getTokenExpireDurationInSec
    /\ answer' = NoAnswer
    /\ UNCHANGED clock

(* decodeToken: whether the text decrypts to a token, and its seconds left.*)
Decodes == /\ base64Decode(token.text) = token.bytes
           /\ token.key = KeyNow
RemainingExpireTime ==
    IF token.expiretime > clock THEN token.expiretime - clock ELSE 0

(* Mutant of Expired: the test of the boundary is off by one. *)
ExpiredLate == token.expiretime < clock

Expired == token.expiretime <= clock

RetrieveTokenExpireTime(a) ==
    /\ Page(a) /\ token # NoToken /\ Decodes
    /\ promise' = IF ~Expired THEN clock + RemainingExpireTime
                  ELSE IF promise < clock THEN promise ELSE clock
    /\ UNCHANGED <<clock, token, answer>>

(* A page that needs a valid token: what it reads, orders and answers then *)
(* does not change anything here.                                          *)
TokenPage(a) ==
    /\ Page(a) /\ token # NoToken
    /\ answer' = [by |-> "page", accepted |-> Decodes /\ ~Expired]
    /\ UNCHANGED <<clock, token, promise>>

UploadPackage(a) == TokenPage(a)
SubmitJob(a) == TokenPage(a)
RetrieveJobStatus(a) == TokenPage(a)
RetrievePackageStatus(a) == TokenPage(a)
RetrieveProgramInfo(a) == TokenPage(a)
ReturnHPCNames(a) == TokenPage(a)
ReturnHPCProgramNames(a) == TokenPage(a)

(* The pages that delete decode the token and leave isExpired alone.       *)
DeletePage(a) ==
    /\ Page(a) /\ token # NoToken
    /\ answer' = [by |-> "delete", accepted |-> Decodes]
    /\ UNCHANGED <<clock, token, promise>>

DeleteJob(a) == DeletePage(a)
DeletePackage(a) == DeletePage(a)

TokenStep(a) == \/ RequestToken(a)
                \/ RetrieveTokenExpireTime(a)
                \/ RetrieveJobStatus(a)
                \/ RetrievePackageStatus(a)
                \/ RetrieveProgramInfo(a)
                \/ ReturnHPCNames(a)
                \/ ReturnHPCProgramNames(a)
                \/ UploadPackage(a)
                \/ SubmitJob(a)
                \/ DeleteJob(a)
                \/ DeletePackage(a)

vars == <<startUpVars, tokenVars>>

TypeOK == StartUpTypeOK /\ TokensTypeOK

Init == StartUpInit /\ TokensInit

Next == \/ \E a \in Apps : StartUpStep(a) /\ UNCHANGED tokenVars
        \/ \E a \in Apps : TokenStep(a) /\ UNCHANGED startUpVars
        \/ Tick /\ UNCHANGED startUpVars

Spec == Init /\ [][Next]_vars

-----------------------------------------------------------------------------
(* What the lifetime in the answer of RequestToken and the answers of      *)
(* RetrieveTokenExpireTime are worth: until that time every page accepts   *)
(* the token; from then on the pages that look at its expiry refuse it,    *)
(* while DeleteJob and DeletePackage go on accepting it.                   *)
PromiseIsKept ==
    OneObject("WSCrypt")
    => /\ answer.by = "page" => answer.accepted = (clock < promise)
       /\ answer.by = "delete" => answer.accepted
=============================================================================
