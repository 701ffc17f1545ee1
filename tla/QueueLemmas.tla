----------------------------- MODULE QueueLemmas -----------------------------
(***************************************************************************)
(* What the proofs need to know about queues: what Head, Tail and Append   *)
(* do to the elements of a sequence.                                       *)
(***************************************************************************)
EXTENDS SequenceTheorems, TLAPS

\* A queue that loses its first element or gets a last one.
LEMMA QueueTypes ==
    ASSUME NEW S, NEW q \in Seq(S)
    PROVE  /\ Len(q) \in Nat
           /\ \A i \in 1 .. Len(q) : q[i] \in S
           /\ q # <<>> => /\ Head(q) \in S /\ Head(q) = q[1] /\ 1 \in 1 .. Len(q)
                          /\ Tail(q) \in Seq(S) /\ Len(Tail(q)) = Len(q) - 1
                          /\ \A i \in 1 .. Len(Tail(q)) :
                                i + 1 \in 1 .. Len(q) /\ Tail(q)[i] = q[i + 1]
           /\ \A e \in S :
                 /\ Append(q, e) \in Seq(S) /\ Len(Append(q, e)) = Len(q) + 1
                 /\ \A i \in 1 .. Len(Append(q, e)) :
                       Append(q, e)[i] = IF i = Len(q) + 1 THEN e ELSE q[i]
<1>1. Len(q) \in Nat /\ \A i \in 1 .. Len(q) : q[i] \in S
  BY LenProperties, ElementOfSeq
<1>2. ASSUME q # <<>>
      PROVE  /\ Head(q) \in S /\ Head(q) = q[1] /\ 1 \in 1 .. Len(q)
             /\ Tail(q) \in Seq(S) /\ Len(Tail(q)) = Len(q) - 1
             /\ \A i \in 1 .. Len(Tail(q)) : i + 1 \in 1 .. Len(q) /\ Tail(q)[i] = q[i + 1]
  <2>1. /\ Head(q) \in S /\ Tail(q) \in Seq(S) /\ Len(Tail(q)) = Len(q) - 1
        /\ \A i \in 1 .. Len(Tail(q)) : Tail(q)[i] = q[i + 1]
    BY <1>2, HeadTailProperties
  <2>2. Head(q) = q[1] /\ Len(q) # 0
    BY <1>2, EmptySeq
  <2> QED
    BY <1>1, <2>1, <2>2
<1>3. ASSUME NEW e \in S
      PROVE  /\ Append(q, e) \in Seq(S) /\ Len(Append(q, e)) = Len(q) + 1
             /\ \A i \in 1 .. Len(Append(q, e)) :
                   Append(q, e)[i] = IF i = Len(q) + 1 THEN e ELSE q[i]
  BY <1>1, AppendProperties
<1> QED
  BY <1>1, <1>2, <1>3

\* The elements of a queue.
LEMMA RangeOfShort == Range(<<>>) = {} /\ \A e : Range(<<e>>) = {e}
  BY EmptySeq DEF Range

LEMMA RangeOf ==
    ASSUME NEW S, NEW q \in Seq(S)
    PROVE  /\ Range(q) = {q[i] : i \in 1 .. Len(q)}
           /\ Range(q) \subseteq S
           /\ \A e \in S : Range(Append(q, e)) = Range(q) \cup {e}
           /\ q # <<>> => Head(q) \in Range(q) /\ Range(Tail(q)) \subseteq Range(q)
<1>1. \A r \in Seq(S) : Range(r) = {r[i] : i \in 1 .. Len(r)} /\ Range(r) \subseteq S
  BY RangeEquality, RangeOfSeq
<1>2. ASSUME NEW e \in S
      PROVE  Range(Append(q, e)) = Range(q) \cup {e}
  <2>1. /\ Append(q, e) = q \o <<e>> /\ <<e>> \in Seq(S)
    BY AppendIsConcat
  <2>2. Range(q \o <<e>>) = Range(q) \cup Range(<<e>>)
    BY <2>1, RangeConcatenation
  <2> QED
    BY <2>1, <2>2, RangeOfShort
<1>3. ASSUME q # <<>>
      PROVE  Head(q) \in Range(q) /\ Range(Tail(q)) \subseteq Range(q)
  <2>1. Range(q) = {q[i] : i \in 1 .. Len(q)} /\ Range(Tail(q)) = {Tail(q)[i] : i \in 1 .. Len(Tail(q))}
    BY <1>1, <1>3, QueueTypes
  <2> QED
    BY <1>3, <2>1, QueueTypes
<1> QED
  BY <1>1, <1>2, <1>3
=============================================================================
