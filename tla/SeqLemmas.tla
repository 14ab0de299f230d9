------------------------------- MODULE SeqLemmas -------------------------------
(***************************************************************************)
(* Facts about the sequences of the session core: its queue, the events    *)
(* posted to it and the pipes of the plug-in.                              *)
(***************************************************************************)
EXTENDS Integers, Sequences, SequencesExt, SequenceTheorems, WellFoundedInduction, TLAPS

\* A set of naturals that is not empty has a least element.
LEMMA LeastNatural ==
  ASSUME NEW T \in SUBSET Nat, T # {}
  PROVE  \E x \in T : \A y \in T : x <= y
<1>1. PICK x \in T : \A y \in T : <<y, x>> \notin OpToRel(<, Nat)
  BY WFMin, NatLessThanWellFounded, Zenon
<1>2. \A y \in T : ~(y < x)
  BY <1>1, Zenon DEF OpToRel
<1>3. QED
  BY <1>2

\* Min, as SelectInSeq uses it, picks a member of such a set.
LEMMA MinOfNaturals ==
  ASSUME NEW T \in SUBSET Nat, T # {}
  PROVE  Min(T) \in T
BY LeastNatural DEF Min

\* What RemoveAt (QList::takeAt) leaves at each place.
LEMMA RemoveAtProperties ==
  ASSUME NEW S, NEW s \in Seq(S), NEW i \in DOMAIN s
  PROVE  /\ RemoveAt(s, i) \in Seq(S)
         /\ Len(RemoveAt(s, i)) = Len(s) - 1
         /\ \A j \in 1 .. Len(s) - 1 :
              RemoveAt(s, i)[j] = IF j < i THEN s[j] ELSE s[j + 1]
<1> DEFINE a == SubSeq(s, 1, i - 1)
           b == SubSeq(s, i + 1, Len(s))
<1>1. i \in 1 .. Len(s) /\ Len(s) \in Nat
  BY LenProperties
<1>2. /\ a \in Seq(S)
      /\ Len(a) = i - 1
      /\ \A j \in 1 .. i - 1 : a[j] = s[j]
  BY <1>1, SubSeqProperties
<1>3. /\ b \in Seq(S)
      /\ Len(b) = Len(s) - i
      /\ \A j \in 1 .. Len(s) - i : b[j] = s[i + j]
  BY <1>1, SubSeqProperties
<1>4. RemoveAt(s, i) = a \o b
  BY DEF RemoveAt
<1> HIDE DEF a, b
<1>5. QED
  BY <1>1, <1>2, <1>3, <1>4, ConcatProperties

\* RemoveFirst, the removal of a posted event, loses no other element.
LEMMA RemoveFirstProperties ==
  ASSUME NEW S, NEW s \in Seq(S), NEW e
  PROVE  /\ RemoveFirst(s, e) \in Seq(S)
         /\ \A x \in ToSet(s) : x # e => x \in ToSet(RemoveFirst(s, e))
         /\ ToSet(RemoveFirst(s, e)) \subseteq ToSet(s)
<1> DEFINE I == {i \in 1 .. Len(s) : s[i] = e}
<1>1. DOMAIN s = 1 .. Len(s) /\ Len(s) \in Nat
  BY LenProperties
<1>2. CASE I = {}
  BY <1>1, <1>2 DEF RemoveFirst
<1>3. CASE I # {}
  <2>1. Min(I) \in I
    <3>1. I \in SUBSET Nat
      BY <1>1
    <3> HIDE DEF I
    <3>2. QED
      BY <3>1, <1>3, MinOfNaturals
  <2>2. RemoveFirst(s, e) = RemoveAt(s, Min(I))
    BY <1>3 DEF RemoveFirst, SelectInSeq
  <2> DEFINE m == Min(I)
             t == RemoveAt(s, m)
  <2>3. m \in DOMAIN s /\ s[m] = e
    BY <2>1, <1>1
  <2> HIDE DEF m
  <2>4. /\ t \in Seq(S)
        /\ Len(t) = Len(s) - 1
        /\ \A j \in 1 .. Len(s) - 1 : t[j] = IF j < m THEN s[j] ELSE s[j + 1]
    BY <2>3, RemoveAtProperties
  <2>5. DOMAIN t = 1 .. Len(s) - 1
    BY <2>4, LenProperties
  <2> HIDE DEF t
  <2>6. ASSUME NEW x \in ToSet(s), x # e
        PROVE  x \in ToSet(t)
    <3>1. PICK j \in 1 .. Len(s) : s[j] = x
      BY <1>1 DEF ToSet
    <3>2. CASE j < m
      BY <3>1, <3>2, <2>3, <2>4, <2>5, <1>1 DEF ToSet
    <3>3. CASE j > m
      <4>1. j - 1 \in 1 .. Len(s) - 1 /\ t[j - 1] = x
        BY <3>1, <3>3, <2>3, <2>4, <1>1
      <4>2. QED
        BY <4>1, <2>5 DEF ToSet
    <3>4. j # m
      BY <3>1, <2>3, <2>6
    <3>5. QED
      BY <3>2, <3>3, <3>4, <1>1, <2>3
  <2>7. ToSet(t) \subseteq ToSet(s)
    BY <1>1, <2>3, <2>4, <2>5 DEF ToSet
  <2>8. QED
    BY <2>2, <2>4, <2>6, <2>7 DEF t, m
<1>4. QED
  BY <1>2, <1>3

\* Appending adds one element, and repeats none that was not there.
LEMMA AppendToSet ==
  ASSUME NEW S, NEW s \in Seq(S), NEW x \in S
  PROVE  /\ ToSet(Append(s, x)) = ToSet(s) \cup {x}
         /\ IsInjective(s) /\ x \notin ToSet(s) => IsInjective(Append(s, x))
<1> DEFINE t == Append(s, x)
<1>1. /\ DOMAIN s = 1 .. Len(s)
      /\ Len(s) \in Nat
  BY LenProperties
<1>2. /\ DOMAIN t = 1 .. Len(s) + 1
      /\ \A i \in 1 .. Len(s) : t[i] = s[i]
      /\ t[Len(s) + 1] = x
  BY <1>1, AppendProperties, LenProperties
<1> HIDE DEF t
<1>3. ToSet(t) = ToSet(s) \cup {x}
  BY <1>1, <1>2 DEF ToSet
<1>4. IsInjective(s) /\ x \notin ToSet(s) => IsInjective(t)
  BY <1>1, <1>2 DEF ToSet, IsInjective
<1>5. QED
  BY <1>3, <1>4 DEF t

\* Removing a place of a sequence without repetitions removes its element.
LEMMA RemoveAtToSet ==
  ASSUME NEW S, NEW s \in Seq(S), IsInjective(s), NEW i \in DOMAIN s
  PROVE  /\ ToSet(RemoveAt(s, i)) = ToSet(s) \ {s[i]}
         /\ IsInjective(RemoveAt(s, i))
<1> DEFINE t == RemoveAt(s, i)
<1>1. /\ DOMAIN s = 1 .. Len(s)
      /\ Len(s) \in Nat \ {0}
  BY LenProperties
<1>2. /\ DOMAIN t = 1 .. Len(s) - 1
      /\ \A j \in 1 .. Len(s) - 1 : t[j] = IF j < i THEN s[j] ELSE s[j + 1]
  BY RemoveAtProperties, LenProperties
<1> HIDE DEF t
<1>3. ToSet(t) \subseteq ToSet(s) \ {s[i]}
  BY <1>1, <1>2 DEF ToSet, IsInjective
<1>4. ASSUME NEW x \in ToSet(s), x # s[i]
      PROVE  x \in ToSet(t)
  <2>1. PICK j \in 1 .. Len(s) : s[j] = x
    BY <1>1 DEF ToSet
  <2>2. CASE j < i
    BY <1>1, <1>2, <2>1, <2>2 DEF ToSet
  <2>3. CASE j > i
    <3>1. j - 1 \in 1 .. Len(s) - 1 /\ t[j - 1] = x
      BY <1>1, <1>2, <2>1, <2>3
    <3>2. QED
      BY <1>2, <3>1 DEF ToSet
  <2>4. QED
    BY <1>1, <1>4, <2>1, <2>2, <2>3
<1>5. IsInjective(t)
  <2>1. SUFFICES ASSUME NEW a \in 1 .. Len(s) - 1, NEW b \in 1 .. Len(s) - 1,
                        t[a] = t[b]
                 PROVE  a = b
    BY <1>2 DEF IsInjective
  <2> DEFINE aa == IF a < i THEN a ELSE a + 1
             bb == IF b < i THEN b ELSE b + 1
  <2>2. aa \in DOMAIN s /\ bb \in DOMAIN s /\ s[aa] = s[bb]
    BY <1>1, <1>2, <2>1
  <2>3. aa = bb
    BY <2>2 DEF IsInjective
  <2>4. QED
    BY <1>1, <2>3
<1>6. QED
  BY <1>3, <1>4, <1>5 DEF t

\* To dequeue is to remove the first place.
LEMMA TailIsRemoveAt ==
  ASSUME NEW S, NEW s \in Seq(S), s # <<>>
  PROVE  /\ 1 \in DOMAIN s
         /\ Head(s) = s[1]
         /\ RemoveAt(s, 1) = Tail(s)
<1>1. /\ DOMAIN s = 1 .. Len(s)
      /\ Len(s) \in Nat \ {0}
  BY EmptySeq, LenProperties
<1>2. /\ Tail(s) \in Seq(S)
      /\ Len(Tail(s)) = Len(s) - 1
      /\ \A j \in 1 .. Len(s) - 1 : Tail(s)[j] = s[j + 1]
      /\ Head(s) = s[1]
  BY <1>1, HeadTailProperties
<1>3. RemoveAt(s, 1) = Tail(s)
  BY <1>1, <1>2, RemoveAtProperties, SeqEqual
<1>4. QED
  BY <1>1, <1>2, <1>3

\* A sequence holds its head and what its tail holds.
LEMMA TailToSet ==
  ASSUME NEW S, NEW s \in Seq(S), s # <<>>
  PROVE  ToSet(s) = {Head(s)} \cup ToSet(Tail(s))
<1>1. /\ DOMAIN s = 1 .. Len(s)
      /\ Len(s) \in Nat \ {0}
  BY EmptySeq, LenProperties
<1>2. /\ DOMAIN Tail(s) = 1 .. Len(s) - 1
      /\ \A j \in 1 .. Len(s) - 1 : Tail(s)[j] = s[j + 1]
      /\ Head(s) = s[1]
  BY <1>1, HeadTailProperties, LenProperties
<1>3. ASSUME NEW x \in ToSet(s), x # Head(s)
      PROVE  x \in ToSet(Tail(s))
  <2>1. PICK j \in 1 .. Len(s) : s[j] = x
    BY <1>1 DEF ToSet
  <2>2. j - 1 \in 1 .. Len(s) - 1 /\ Tail(s)[j - 1] = x
    BY <1>1, <1>2, <1>3, <2>1
  <2>3. QED
    BY <1>2, <2>2 DEF ToSet
<1>4. ToSet(Tail(s)) \subseteq ToSet(s) /\ Head(s) \in ToSet(s)
  BY <1>1, <1>2 DEF ToSet
<1>5. QED
  BY <1>3, <1>4

\* Removing a place behind the head leaves the head alone, and removes the
\* place before from the tail: how a cancelled request leaves the queue of
\* those that wait.
LEMMA TailOfRemoveAt ==
  ASSUME NEW S, NEW s \in Seq(S), NEW i \in DOMAIN s, i # 1
  PROVE  /\ i - 1 \in DOMAIN Tail(s)
         /\ Tail(s)[i - 1] = s[i]
         /\ RemoveAt(s, i) # <<>>
         /\ Head(RemoveAt(s, i)) = Head(s)
         /\ Tail(RemoveAt(s, i)) = RemoveAt(Tail(s), i - 1)
<1> DEFINE t == RemoveAt(s, i)
           u == Tail(s)
           v == RemoveAt(u, i - 1)
<1>1. /\ DOMAIN s = 1 .. Len(s)
      /\ Len(s) \in Nat \ {0, 1}
      /\ i \in 2 .. Len(s)
      /\ s # <<>>
  BY LenProperties
<1>2. /\ t \in Seq(S)
      /\ Len(t) = Len(s) - 1
      /\ \A j \in 1 .. Len(s) - 1 : t[j] = IF j < i THEN s[j] ELSE s[j + 1]
  BY RemoveAtProperties
<1>3. /\ u \in Seq(S)
      /\ Len(u) = Len(s) - 1
      /\ \A j \in 1 .. Len(s) - 1 : u[j] = s[j + 1]
      /\ DOMAIN u = 1 .. Len(s) - 1
      /\ Head(s) = s[1]
  BY <1>1, HeadTailProperties, LenProperties
<1> HIDE DEF t, u
<1>4. i - 1 \in DOMAIN u /\ u[i - 1] = s[i]
  BY <1>1, <1>3
<1>5. /\ v \in Seq(S)
      /\ Len(v) = Len(s) - 2
      /\ \A j \in 1 .. Len(s) - 2 : v[j] = IF j < i - 1 THEN u[j] ELSE u[j + 1]
  <2>1. /\ v \in Seq(S)
        /\ Len(v) = Len(u) - 1
        /\ \A j \in 1 .. Len(u) - 1 : v[j] = IF j < i - 1 THEN u[j] ELSE u[j + 1]
    BY <1>3, <1>4, RemoveAtProperties
  <2> HIDE DEF v
  <2>2. QED
    BY <1>1, <1>3, <2>1
<1> HIDE DEF v
<1>6. /\ t # <<>>
      /\ Head(t) = t[1]
      /\ Tail(t) \in Seq(S)
      /\ Len(Tail(t)) = Len(s) - 2
      /\ \A j \in 1 .. Len(s) - 2 : Tail(t)[j] = t[j + 1]
  <2>1. t # <<>>
    BY <1>1, <1>2
  <2>2. Len(t) - 1 = Len(s) - 2
    BY <1>1, <1>2
  <2>3. QED
    BY <1>2, <2>1, <2>2, HeadTailProperties
<1>7. Head(t) = Head(s)
  BY <1>1, <1>2, <1>3, <1>6
<1>8. \A j \in 1 .. Len(s) - 2 : Tail(t)[j] = v[j]
  BY <1>1, <1>2, <1>3, <1>5, <1>6
<1>9. Tail(t) = v
  BY <1>1, <1>5, <1>6, <1>8, SeqEqual
<1>10. QED
  BY <1>4, <1>6, <1>7, <1>9 DEF t, u, v

\* Appending to a sequence that is not empty appends to its tail.
LEMMA TailOfAppend ==
  ASSUME NEW S, NEW s \in Seq(S), NEW x \in S, s # <<>>
  PROVE  /\ Append(s, x) # <<>>
         /\ Head(Append(s, x)) = Head(s)
         /\ Tail(Append(s, x)) = Append(Tail(s), x)
BY HeadTailAppend, AppendProperties

\* The last element is the one appended.
LEMMA LastOfAppend ==
  ASSUME NEW S, NEW s \in Seq(S), NEW x \in S
  PROVE  Last(Append(s, x)) = x
BY AppendProperties, LenProperties DEF Last

\* The tail has the last element, if it has any.
LEMMA LastOfTail ==
  ASSUME NEW S, NEW s \in Seq(S), s # <<>>
  PROVE  /\ Tail(s) \in Seq(S)
         /\ Tail(s) # <<>> => Last(Tail(s)) = Last(s)
         /\ Head(s) # Last(s) => Last(s) \in ToSet(Tail(s))
<1>1. Len(s) \in Nat \ {0} /\ Head(s) = s[1]
  BY EmptySeq, LenProperties, HeadTailProperties
<1>2. /\ Tail(s) \in Seq(S)
      /\ Len(Tail(s)) = Len(s) - 1
      /\ DOMAIN Tail(s) = 1 .. Len(s) - 1
      /\ \A j \in 1 .. Len(s) - 1 : Tail(s)[j] = s[j + 1]
  BY HeadTailProperties, LenProperties
<1>3. Len(s) # 1 => Len(s) - 1 \in 1 .. Len(s) - 1 /\ Tail(s)[Len(s) - 1] = s[Len(s)]
  BY <1>1, <1>2
<1>4. Tail(s) # <<>> => Len(s) # 1
  BY <1>1, <1>2, EmptySeq
<1>5. QED
  BY <1>1, <1>2, <1>3, <1>4 DEF Last, ToSet
===============================================================================
