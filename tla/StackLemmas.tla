----------------------------- MODULE StackLemmas -----------------------------
(***************************************************************************)
(* Facts about call stacks, kept as sequences that grow and shrink at      *)
(* their end, and about queues of frames, for the proofs of the Relay      *)
(* modules.                                                                *)
(***************************************************************************)
EXTENDS Naturals, Integers, Sequences, SequenceTheorems, TLAPS

(* Popping a non-empty call stack leaves a call stack, one entry shorter.  *)
LEMMA PopType ==
  ASSUME NEW S, NEW s \in Seq(S), s # <<>>
  PROVE  /\ SubSeq(s, 1, Len(s) - 1) \in Seq(S)
         /\ Len(SubSeq(s, 1, Len(s) - 1)) = Len(s) - 1
         /\ \A p \in 1..(Len(s) - 1) : SubSeq(s, 1, Len(s) - 1)[p] = s[p]
         /\ Len(s) \in Nat \ {0}
<1>1. Len(s) \in Nat /\ Len(s) # 0 /\ \A p \in 1..Len(s) : s[p] \in S
  BY EmptySeq, LenProperties, ElementOfSeq
<1> DEFINE m == Len(s) - 1
<1>2. m \in Nat /\ \A p \in 1..m : p \in Int /\ 1 + p - 1 = p
  BY <1>1
<1>3. m \in Int /\ 1 \in Int /\ \A p \in 1..m : s[p] \in S
  BY <1>1
<1> HIDE DEF m
<1>4. /\ SubSeq(s, 1, m) \in Seq(S)
      /\ Len(SubSeq(s, 1, m)) = IF 1 <= m THEN m - 1 + 1 ELSE 0
      /\ \A p \in 1..(m - 1 + 1) : SubSeq(s, 1, m)[p] = s[1 + p - 1]
  BY <1>3, SubSeqProperties
<1>5. Len(SubSeq(s, 1, m)) = m /\ \A p \in 1..m : SubSeq(s, 1, m)[p] = s[p]
  BY <1>2, <1>4
<1> QED
  BY <1>1, <1>4, <1>5 DEF m

(* Pushing adds one entry on top and moves no other.                       *)
LEMMA PushType ==
  ASSUME NEW S, NEW s \in Seq(S), NEW x \in S
  PROVE  /\ Append(s, x) \in Seq(S)
         /\ Len(Append(s, x)) = Len(s) + 1 /\ Len(s) \in Nat
         /\ \A p \in 1..Len(s) : Append(s, x)[p] = s[p]
         /\ Append(s, x)[Len(s) + 1] = x
  BY AppendProperties, LenProperties

(* Taking the head of a queue shifts the rest by one.                      *)
LEMMA TakeType ==
  ASSUME NEW S, NEW s \in Seq(S), s # <<>>
  PROVE  /\ Tail(s) \in Seq(S) /\ Len(s) \in Nat \ {0}
         /\ Len(Tail(s)) = Len(s) - 1
         /\ \A k \in 1..(Len(s) - 1) : Tail(s)[k] = s[k + 1]
         /\ Head(s) = s[1] /\ Head(s) \in S
<1>1. Len(s) \in Nat /\ Len(s) # 0 /\ \A p \in 1..Len(s) : s[p] \in S
  BY EmptySeq, LenProperties, ElementOfSeq
<1> QED
  BY <1>1, HeadTailProperties

(* Reading takes a prefix of the wire; what is left and what is appended   *)
(* to the buffer are sequences of frames again.                            *)
LEMMA SplitType ==
  ASSUME NEW S, NEW s \in Seq(S), NEW t \in Seq(S), NEW n \in 1..Len(s)
  PROVE  /\ SubSeq(s, 1, n) \in Seq(S)
         /\ SubSeq(s, n + 1, Len(s)) \in Seq(S)
         /\ t \o SubSeq(s, 1, n) \in Seq(S)
<1>1. SubSeq(s, 1, n) \in Seq(S)
  BY SubSeqProperties
<1>2. SubSeq(s, n + 1, Len(s)) \in Seq(S)
  BY SubSeqProperties
<1> QED
  BY <1>1, <1>2, ConcatProperties
==============================================================================
