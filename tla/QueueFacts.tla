----------------------------- MODULE QueueFacts ------------------------------
(***************************************************************************)
(* Sequences used as queues: what Append and Tail do to their elements.    *)
(***************************************************************************)
EXTENDS Integers, Sequences, SequenceTheorems, TLAPS

(* An element added at the end. *)
LEMMA AppendFacts ==
    ASSUME NEW S, NEW s \in Seq(S), NEW e \in S
    PROVE  /\ Append(s, e) \in Seq(S)
           /\ Len(Append(s, e)) = Len(s) + 1
           /\ \A n \in 1 .. Len(s) : Append(s, e)[n] = s[n]
           /\ Append(s, e)[Len(s) + 1] = e
  OBVIOUS

(* The first element taken off. *)
LEMMA TailFacts ==
    ASSUME NEW S, NEW s \in Seq(S), s # <<>>
    PROVE  /\ Head(s) \in S /\ Head(s) = s[1]
           /\ Tail(s) \in Seq(S)
           /\ Len(s) \in Nat \ {0}
           /\ Len(Tail(s)) = Len(s) - 1
           /\ \A n \in 1 .. Len(s) - 1 : Tail(s)[n] = s[n + 1]
  BY HeadTailProperties, EmptySeq

(* What such a sequence without repetitions contains after either step.    *)
Elements(s)   == {s[n] : n \in DOMAIN s}
NoRepeats(s)  == \A m, n \in DOMAIN s : s[m] = s[n] => m = n

(* Append adds the element, and no repetition if it was not there.        *)
LEMMA ElementsAppend ==
    ASSUME NEW S, NEW s \in Seq(S), NEW e \in S
    PROVE  /\ Elements(Append(s, e)) = Elements(s) \cup {e}
           /\ NoRepeats(s) /\ e \notin Elements(s) => NoRepeats(Append(s, e))
<1>1. DOMAIN s = 1 .. Len(s) /\ Len(s) \in Nat
  BY LenProperties
<1>2. DOMAIN Append(s, e) = 1 .. Len(s) + 1
  BY AppendFacts, LenProperties
<1>3. Elements(Append(s, e)) = Elements(s) \cup {e}
  BY <1>1, <1>2, AppendFacts DEF Elements
<1>4. NoRepeats(s) /\ e \notin Elements(s) => NoRepeats(Append(s, e))
  BY <1>1, <1>2, AppendFacts DEF Elements, NoRepeats
<1> QED BY <1>3, <1>4

(* Tail of a sequence without repetitions loses its head altogether.      *)
LEMMA ElementsTail ==
    ASSUME NEW S, NEW s \in Seq(S), s # <<>>, NoRepeats(s)
    PROVE  /\ Elements(Tail(s)) = Elements(s) \ {Head(s)}
           /\ Head(s) \in Elements(s)
           /\ NoRepeats(Tail(s))
<1>1. DOMAIN s = 1 .. Len(s) /\ Len(s) \in Nat \ {0}
  BY LenProperties, TailFacts
<1>2. DOMAIN Tail(s) = 1 .. Len(s) - 1
  BY TailFacts, LenProperties
<1>3. Head(s) \in Elements(s)
  BY <1>1, TailFacts DEF Elements
<1>4. NoRepeats(Tail(s))
  BY <1>1, <1>2, TailFacts DEF NoRepeats
<1>5. ASSUME NEW x \in Elements(Tail(s)) PROVE x \in Elements(s) \ {Head(s)}
  BY <1>1, <1>2, <1>5, TailFacts DEF Elements, NoRepeats
<1>6. ASSUME NEW x \in Elements(s), x # Head(s) PROVE x \in Elements(Tail(s))
  <2>1. PICK n \in DOMAIN s : x = s[n]
    BY DEF Elements
  <2>2. n # 1 /\ n - 1 \in DOMAIN Tail(s) /\ Tail(s)[n - 1] = s[n]
    BY <1>1, <1>2, <1>6, <2>1, TailFacts
  <2> QED BY <2>1, <2>2 DEF Elements
<1> QED BY <1>3, <1>4, <1>5, <1>6
=============================================================================
