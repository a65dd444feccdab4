------------------------------ MODULE ListLemmas ------------------------------
(***************************************************************************)
(* What the list operations of the models do to a sequence, element by     *)
(* element: the facts the proofs about the event queue, the timers and the *)
(* idle handlers rest on.                                                  *)
(***************************************************************************)
EXTENDS SequencesExt, SequenceTheorems, TLAPS

-----------------------------------------------------------------------------
\* What the list operations of the code do to the sequence that models it.

\* t is s with e inserted as the i-th element.
IsInsertion(t, s, i, e) ==
    /\ Len(t) = Len(s) + 1
    /\ \A j \in 1 .. Len(s) + 1 :
         t[j] = IF j < i THEN s[j] ELSE IF j = i THEN e ELSE s[j - 1]

\* t is s without its i-th element.
IsRemoval(t, s, i) ==
    /\ Len(t) = Len(s) - 1
    /\ \A j \in 1 .. Len(s) - 1 : t[j] = IF j < i THEN s[j] ELSE s[j + 1]

\* An insertion keeps every other element in its place or moves it up by one.
LEMMA InsertAtElements ==
    ASSUME NEW S, NEW s \in Seq(S), NEW e \in S, NEW i \in 1 .. Len(s) + 1
    PROVE  /\ InsertAt(s, i, e) \in Seq(S)
           /\ IsInsertion(InsertAt(s, i, e), s, i, e)
<1> DEFINE a == SubSeq(s, 1, i - 1)
           b == SubSeq(s, i, Len(s))
<1>1. /\ a \in Seq(S)
      /\ Len(a) = i - 1
      /\ \A j \in 1 .. i - 1 : a[j] = s[j]
  BY SMT
<1>2. /\ b \in Seq(S)
      /\ Len(b) = Len(s) - i + 1
      /\ \A j \in 1 .. Len(s) - i + 1 : b[j] = s[i + j - 1]
  BY SMT
<1>3. /\ a \o <<e>> \in Seq(S)
      /\ Len(a \o <<e>>) = i
      /\ \A j \in 1 .. i : (a \o <<e>>)[j] = IF j < i THEN s[j] ELSE e
  <2> HIDE DEF a
  <2> QED BY <1>1, SMT
<1> DEFINE c == a \o <<e>>
<1>4. /\ c \o b \in Seq(S)
      /\ Len(c \o b) = Len(s) + 1
      /\ \A j \in 1 .. Len(s) + 1 :
           (c \o b)[j] = IF j < i THEN s[j] ELSE IF j = i THEN e ELSE s[j - 1]
  <2> HIDE DEF b, c
  <2> QED BY <1>2, <1>3, SMT DEF c
<1> QED
  BY <1>4 DEF InsertAt, IsInsertion

\* A removal keeps the elements before it and moves the others down by one.
LEMMA RemoveAtElements ==
    ASSUME NEW S, NEW s \in Seq(S), NEW i \in 1 .. Len(s)
    PROVE  /\ RemoveAt(s, i) \in Seq(S)
           /\ IsRemoval(RemoveAt(s, i), s, i)
<1> DEFINE a == SubSeq(s, 1, i - 1)
           b == SubSeq(s, i + 1, Len(s))
<1>1. /\ a \in Seq(S)
      /\ Len(a) = i - 1
      /\ \A j \in 1 .. i - 1 : a[j] = s[j]
  BY SMT
<1>2. /\ b \in Seq(S)
      /\ Len(b) = Len(s) - i
      /\ \A j \in 1 .. Len(s) - i : b[j] = s[i + j]
  BY SMT
<1>3. /\ a \o b \in Seq(S)
      /\ Len(a \o b) = Len(s) - 1
      /\ \A j \in 1 .. Len(s) - 1 : (a \o b)[j] = IF j < i THEN s[j] ELSE s[j + 1]
  <2> HIDE DEF a, b
  <2>1. /\ a \o b \in Seq(S)
        /\ Len(a \o b) = Len(a) + Len(b)
        /\ \A j \in 1 .. Len(a) + Len(b) :
             (a \o b)[j] = IF j <= Len(a) THEN a[j] ELSE b[j - Len(a)]
    BY <1>1, <1>2, ConcatProperties
  <2>2. Len(s) \in Nat /\ Len(a) + Len(b) = Len(s) - 1
    BY <1>1, <1>2, LenProperties
  <2>3. ASSUME NEW j \in 1 .. Len(s) - 1
        PROVE  (a \o b)[j] = IF j < i THEN s[j] ELSE s[j + 1]
    <3>1. CASE j < i
      BY <3>1, <1>1, <2>1, <2>2
    <3>2. CASE ~ j < i
      <4>1. j - (i - 1) \in 1 .. Len(s) - i
        BY <3>2, <2>2
      <4>2. (a \o b)[j] = b[j - (i - 1)]
        BY <3>2, <1>1, <2>1, <2>2
      <4>3. b[j - (i - 1)] = s[i + (j - (i - 1))]
        BY <4>1, <1>2
      <4> QED
        BY <3>2, <4>2, <4>3, <2>2
    <3> QED
      BY <3>1, <3>2
  <2> QED BY <2>1, <2>2, <2>3
<1> QED
  BY <1>3 DEF RemoveAt, IsRemoval

\* Where the i-th element of the new list was in the old one.
BeforeInsertion(i, k) == IF i < k THEN i ELSE i - 1
BeforeRemoval(i, k) == IF i < k THEN i ELSE i + 1

\* The elements of the new list other than the inserted one come from the old
\* list, in the same order.
LEMMA InsertionOrigin ==
    ASSUME NEW S, NEW s \in Seq(S), NEW t \in Seq(S), NEW e \in S,
           NEW k \in 1 .. Len(s) + 1, IsInsertion(t, s, k, e)
    PROVE  /\ Len(s) \in Nat
           /\ DOMAIN s = 1 .. Len(s)
           /\ DOMAIN t = 1 .. Len(s) + 1
           /\ t[k] = e
           /\ \A i \in DOMAIN t \ {k} :
                /\ BeforeInsertion(i, k) \in DOMAIN s
                /\ t[i] = s[BeforeInsertion(i, k)]
           /\ \A i, j \in DOMAIN t \ {k} :
                i < j <=> BeforeInsertion(i, k) < BeforeInsertion(j, k)
<1>1. /\ Len(s) \in Nat
      /\ DOMAIN s = 1 .. Len(s)
      /\ DOMAIN t = 1 .. Len(s) + 1
  BY LenProperties DEF IsInsertion
<1> QED
  BY <1>1 DEF IsInsertion, BeforeInsertion

\* The new list holds what the old one held, and the inserted element.
LEMMA InsertionMembers ==
    ASSUME NEW S, NEW s \in Seq(S), NEW t \in Seq(S), NEW e \in S,
           NEW k \in 1 .. Len(s) + 1, IsInsertion(t, s, k, e), NEW f
    PROVE  Contains(t, f) <=> Contains(s, f) \/ f = e
<1>1. /\ Len(s) \in Nat
      /\ DOMAIN s = 1 .. Len(s)
      /\ DOMAIN t = 1 .. Len(s) + 1
      /\ t[k] = e
      /\ \A i \in DOMAIN t \ {k} :
           /\ BeforeInsertion(i, k) \in DOMAIN s
           /\ t[i] = s[BeforeInsertion(i, k)]
  BY InsertionOrigin
<1>2. ASSUME NEW i \in DOMAIN s, s[i] = f
      PROVE  Contains(t, f)
  <2>1. CASE i < k
    <3>1. i \in DOMAIN t \ {k} /\ BeforeInsertion(i, k) = i
      BY <1>1, <2>1 DEF BeforeInsertion
    <3> QED
      BY <1>1, <1>2, <3>1 DEF Contains, IsInsertion
  <2>2. CASE ~ i < k
    <3>1. i + 1 \in DOMAIN t \ {k} /\ BeforeInsertion(i + 1, k) = i
      BY <1>1, <2>2 DEF BeforeInsertion
    <3> QED
      BY <1>1, <1>2, <3>1 DEF Contains, IsInsertion
  <2> QED
    BY <2>1, <2>2
<1>3. k \in DOMAIN t
  BY <1>1
<1> QED
  BY <1>1, <1>2, <1>3 DEF Contains, IsInsertion

\* The elements of the new list come from the old one, in the same order.
LEMMA RemovalOrigin ==
    ASSUME NEW S, NEW s \in Seq(S), NEW t \in Seq(S),
           NEW k \in 1 .. Len(s), IsRemoval(t, s, k)
    PROVE  /\ Len(s) \in Nat
           /\ DOMAIN s = 1 .. Len(s)
           /\ DOMAIN t = 1 .. Len(s) - 1
           /\ \A i \in DOMAIN t :
                /\ BeforeRemoval(i, k) \in DOMAIN s \ {k}
                /\ t[i] = s[BeforeRemoval(i, k)]
           /\ \A i, j \in DOMAIN t :
                i < j <=> BeforeRemoval(i, k) < BeforeRemoval(j, k)
<1>1. /\ Len(s) \in Nat
      /\ DOMAIN s = 1 .. Len(s)
      /\ DOMAIN t = 1 .. Len(s) - 1
  BY LenProperties DEF IsRemoval
<1> QED
  BY <1>1 DEF IsRemoval, BeforeRemoval

\* A list without duplicates holds the same elements but the removed one.
LEMMA RemovalMembers ==
    ASSUME NEW S, NEW s \in Seq(S), NEW t \in Seq(S),
           NEW k \in 1 .. Len(s), IsRemoval(t, s, k),
           \A i \in DOMAIN s : i # k => s[i] # s[k],
           NEW f
    PROVE  Contains(t, f) <=> Contains(s, f) /\ f # s[k]
<1>1. /\ Len(s) \in Nat
      /\ DOMAIN s = 1 .. Len(s)
      /\ DOMAIN t = 1 .. Len(s) - 1
      /\ \A i \in DOMAIN t :
           /\ BeforeRemoval(i, k) \in DOMAIN s \ {k}
           /\ t[i] = s[BeforeRemoval(i, k)]
  BY RemovalOrigin
<1>2. ASSUME NEW i \in DOMAIN s, s[i] = f, f # s[k]
      PROVE  Contains(t, f)
  <2>1. CASE i < k
    <3>1. i \in DOMAIN t /\ BeforeRemoval(i, k) = i
      BY <1>1, <2>1 DEF BeforeRemoval
    <3> QED
      BY <1>1, <1>2, <3>1 DEF Contains, IsRemoval
  <2>2. CASE ~ i < k
    <3>1. i - 1 \in DOMAIN t /\ BeforeRemoval(i - 1, k) = i
      BY <1>1, <1>2, <2>2 DEF BeforeRemoval
    <3> QED
      BY <1>1, <1>2, <3>1 DEF Contains, IsRemoval
  <2> QED
    BY <2>1, <2>2
<1> QED
  BY <1>1, <1>2 DEF Contains, IsRemoval

\* Tail removes the first element.
LEMMA TailElements ==
    ASSUME NEW S, NEW s \in Seq(S), s # <<>>
    PROVE  /\ Tail(s) \in Seq(S)
           /\ 1 \in 1 .. Len(s)
           /\ 1 \in DOMAIN s
           /\ Head(s) = s[1]
           /\ Head(s) \in S
           /\ IsRemoval(Tail(s), s, 1)
<1>1. /\ Len(s) \in Nat \ {0}
      /\ DOMAIN s = 1 .. Len(s)
  BY LenProperties, EmptySeq
<1>2. /\ Tail(s) \in Seq(S)
      /\ Len(Tail(s)) = Len(s) - 1
      /\ \A i \in 1 .. Len(s) - 1 : Tail(s)[i] = s[i + 1]
      /\ Head(s) = s[1]
      /\ Head(s) \in S
  BY <1>1, HeadTailProperties
<1> QED
  BY <1>1, <1>2 DEF IsRemoval

\* A prefix.
LEMMA PrefixElements ==
    ASSUME NEW S, NEW s \in Seq(S), NEW n \in 0 .. Len(s)
    PROVE  /\ SubSeq(s, 1, n) \in Seq(S)
           /\ Len(SubSeq(s, 1, n)) = n
           /\ DOMAIN SubSeq(s, 1, n) = 1 .. n
           /\ \A i \in 1 .. n : i \in DOMAIN s /\ SubSeq(s, 1, n)[i] = s[i]
<1>1. /\ Len(s) \in Nat
      /\ DOMAIN s = 1 .. Len(s)
  BY LenProperties
<1>2. \A i \in 1 .. n : s[i] \in S
  BY <1>1, ElementOfSeq
<1> QED
  BY <1>1, <1>2, SubSeqProperties, LenProperties

\* What Append adds.
LEMMA AppendElements ==
    ASSUME NEW S, NEW s \in Seq(S), NEW e \in S
    PROVE  /\ Append(s, e) \in Seq(S)
           /\ Len(s) \in Nat
           /\ Len(Append(s, e)) = Len(s) + 1
           /\ \A i \in 1 .. Len(s) + 1 :
                Append(s, e)[i] = IF i = Len(s) + 1 THEN e ELSE s[i]
<1>1. /\ Append(s, e) \in Seq(S)
      /\ Len(Append(s, e)) = Len(s) + 1
      /\ \A i \in 1 .. Len(s) : Append(s, e)[i] = s[i]
      /\ Append(s, e)[Len(s) + 1] = e
  BY AppendProperties
<1>2. Len(s) \in Nat
  BY LenProperties
<1> QED
  BY <1>1, <1>2

\* The front of a stack: every frame but the innermost.
LEMMA FrontOfStack ==
    ASSUME NEW S, NEW s \in Seq(S), s # <<>>
    PROVE  /\ Front(s) \in Seq(S)
           /\ Len(s) \in Nat \ {0}
           /\ Len(Front(s)) = Len(s) - 1
           /\ DOMAIN Front(s) = 1 .. Len(s) - 1
           /\ \A i \in 1 .. Len(s) - 1 : i \in DOMAIN s /\ Front(s)[i] = s[i]
           /\ Len(s) \in DOMAIN s
           /\ s[Len(s)] \in S
<1>1. /\ Len(s) \in Nat \ {0}
      /\ DOMAIN s = 1 .. Len(s)
  BY LenProperties, EmptySeq
<1>2. Len(s) - 1 \in 0 .. Len(s)
  BY <1>1
<1> QED
  BY <1>1, <1>2, PrefixElements, ElementOfSeq DEF Front

=============================================================================
